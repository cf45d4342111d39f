---------------------------- MODULE FFLDB_proofs ----------------------------
(***************************************************************************)
(* Proofs about the block database, for any set of blocks, any size of a   *)
(* file, and any number of transactions, errors and crashes.               *)
(***************************************************************************)
EXTENDS FFLDB, SequenceTheorems, WellFoundedInduction, TLAPS

\* What a table of keys may hold.
Table ==
    {m \in [Key -> Loc \cup MetaValue \cup {None}] :
        /\ \A b \in Block : m[b] \in Loc \cup {None}
        /\ m["writeLoc"] \in Loc \cup {None}
        /\ m["meta"] \in MetaValue \cup {None}}

Data == {s \in Seq(Block \cup {Torn}) : Len(s) <= maxBlockFileSize}

Transaction ==
    [todo : Seq(Block), blocks : SUBSET Block, keys : Table,
     remove : SUBSET {"meta"}, old : Loc]

Types ==
    /\ ldb \in Table /\ ldb["writeLoc"] \in Loc
    /\ cachedKeys \in Table /\ cachedRemove \subseteq {"meta"}
    /\ rsnap \in Table
    /\ files \in [FileNum -> Data \cup {None}]
    /\ synced = [n \in FileNum |-> synced[n]]
    /\ cursor \in Loc
    /\ open \in BOOLEAN
    /\ pc \in {"idle", "write", "rollback", "commit", "flush", "clear", "direct",
               "down", "reconcile"}
    /\ tx \in Transaction
    /\ faults \in Nat

\* The write cursor a crash would leave, and the one of the latest state.
Saved == ldb["writeLoc"]
Committed == IF cachedKeys["writeLoc"] # None THEN cachedKeys["writeLoc"] ELSE Saved

\* Files fs reach up to p.
Covered(fs, p) ==
    /\ p.file > 0 => p.off > 0
    /\ \A n \in FileNum : n < p.file => fs[n] # None
    /\ p.off > 0 => fs[p.file] # None /\ p.off <= Len(fs[p.file])

\* Files fs hold b at a position.
Holds(fs, b, at) ==
    fs[at.file] # None /\ at.off < Len(fs[at.file]) /\ fs[at.file][at.off + 1] = b

\* The rows of a table lead to data that lies before p.
Placed(fs, m, p) == \A b \in RowsOf(m) : Before(m[b], p) /\ Holds(fs, b, m[b])

Committing == pc \in {"commit", "flush", "clear", "direct"}
InTx == pc = "write" \/ Committing
Running == pc \notin {"down", "reconcile"}

\* Rows lead to data before the committed cursor they were committed with.
RowsPlaced ==
    /\ Placed(files, ldb, Saved)
    /\ Placed(files, cachedKeys, Committed)
    /\ Placed(files, rsnap, Committed)
    /\ InTx => Placed(files, tx.keys, cursor)

\* The files are complete up to the committed cursors and up to the point a
\* rollback goes back to, and what is written next comes after all of them.
CursorsOrdered ==
    /\ Covered(files, Saved) /\ Covered(files, Committed) /\ ~Before(Committed, Saved)
    /\ Running => ~Before(cursor, Committed)
    /\ Running /\ pc # "rollback" => Covered(files, cursor)
    /\ pc = "write" => ~Before(cursor, tx.old)
    /\ pc \in {"write", "rollback"} => Covered(files, tx.old) /\ ~Before(tx.old, Committed)

\* What the transaction holds.
Pending ==
    /\ pc = "write" => cursor.file + Len(tx.todo) <= MaxFile
    /\ Committing => tx.keys["writeLoc"] = cursor /\ tx.todo = <<>>
    /\ InTx => tx.blocks = RowsOf(tx.keys) \cup Range(tx.todo)

\* The cache while it is written out.
Flushed ==
    /\ pc = "clear" => \A k \in Key : ldb[k] = Latest[k]
    /\ pc \in {"direct", "down", "reconcile"} =>
          cachedKeys = NoKeys /\ cachedRemove = {}

\* The inductive invariant.
DBInv == Types /\ RowsPlaced /\ CursorsOrdered /\ Pending /\ Flushed

\* The rows of a table that lie in file n name synced data.
SyncedRows(sy, m, n) ==
    \A b \in RowsOf(m) : m[b].file = n => m[b].off < sy[n]

\* While no I/O error occurred: rows are synced before they reach leveldb, and
\* also where the file being written is not open.  After a crash the same holds
\* of the file of the saved cursor, or a later file is there and makes the
\* reconciliation sync it.
SyncInv ==
    /\ pc = "rollback" => faults > 0
    /\ pc = "reconcile" => cursor = Scanned
    /\ faults = 0 /\ Running =>
          /\ SyncedRows(synced, ldb, cursor.file)
          /\ (~open \/ pc \in {"flush", "clear", "direct"}) =>
                /\ SyncedRows(synced, cachedKeys, cursor.file)
                /\ InTx => SyncedRows(synced, tx.keys, cursor.file)
    /\ faults = 0 /\ ~Running =>
          \/ SyncedRows(synced, ldb, Saved.file)
          \/ Saved.file < MaxFile /\ files[Saved.file + 1] # None

-----------------------------------------------------------------------------
\* Positions are ordered.
LEMMA BeforeOrder ==
    ASSUME NEW a \in Loc, NEW b \in Loc, NEW c \in Loc
    PROVE  /\ Before(a, b) /\ ~Before(c, b) => Before(a, c)
           /\ ~Before(b, a) /\ ~Before(c, b) => ~Before(c, a)
           /\ ~Before(a, a)
BY ConstantsAssumption, SMTT(30) DEF Loc, FileNum, Before

\* A file with a unit that is written.
LEMMA OverwriteData ==
    ASSUME NEW s \in Data, NEW off \in Nat, off <= Len(s), off < maxBlockFileSize,
           NEW d \in Block \cup {Torn}
    PROVE  /\ Overwrite(s, off, d) \in Data /\ Overwrite(s, off, d) # None
           /\ off + 1 <= Len(Overwrite(s, off, d))
           /\ \A i \in 1..off : Overwrite(s, off, d)[i] = s[i]
           /\ Overwrite(s, off, d)[off + 1] = d
<1> DEFINE n == IF off < Len(s) THEN Len(s) ELSE off + 1
           t == [i \in 1..n |-> IF i = off + 1 THEN d ELSE s[i]]
<1>1. s \in Seq(Block \cup {Torn}) /\ Len(s) \in Nat /\ Len(s) <= maxBlockFileSize
  BY LenProperties DEF Data
<1>2. n \in Nat /\ n <= maxBlockFileSize /\ off + 1 <= n
      /\ \A i \in 1..n : i # off + 1 => i \in 1..Len(s)
  BY <1>1, ConstantsAssumption
<1> HIDE DEF n
<1>3. \A i \in 1..n : t[i] \in Block \cup {Torn}
  BY <1>1, <1>2, ElementOfSeq
<1>4. t \in [1..n -> Block \cup {Torn}]
  BY <1>3
<1>5. t \in Seq(Block \cup {Torn}) /\ Len(t) = n
  BY <1>2, <1>4
<1>6. t \in Data /\ t # None
  BY <1>2, <1>5, ConstantsAssumption, Zenon DEF Data
<1>7. Overwrite(s, off, d) = t
  BY DEF Overwrite, n
<1>8. QED
  BY <1>2, <1>5, <1>6, <1>7

\* What lies before p in files fs is the same in gs.
Keeps(fs, gs, p) ==
    /\ \A n \in FileNum : n < p.file => gs[n] = fs[n]
    /\ p.off > 0 => /\ gs[p.file] # None /\ p.off <= Len(gs[p.file])
                    /\ \A i \in 1..p.off : gs[p.file][i] = fs[p.file][i]

\* ... so that data before p is still there,
LEMMA KeepsHolds ==
    ASSUME NEW fs, NEW gs, NEW p \in Loc, NEW at \in Loc, NEW b,
           Holds(fs, b, at), Keeps(fs, gs, p), Before(at, p)
    PROVE  Holds(gs, b, at)
<1>1. /\ at.file \in FileNum /\ p.file \in FileNum /\ at.off \in Nat /\ p.off \in Nat
      /\ at.file \in Nat /\ p.file \in Nat
  BY ConstantsAssumption DEF Loc, FileNum
<1>2. CASE at.file < p.file
  BY <1>1, <1>2 DEF Keeps, Holds
<1>3. CASE at.file = p.file /\ at.off < p.off
  <2>1. at.off + 1 \in 1..p.off /\ p.off > 0
    BY <1>1, <1>3
  <2>2. /\ gs[p.file] # None /\ p.off <= Len(gs[p.file])
        /\ gs[p.file][at.off + 1] = fs[p.file][at.off + 1]
    BY <2>1 DEF Keeps
  <2>3. QED
    BY <1>1, <1>3, <2>2 DEF Holds
<1>4. QED
  BY <1>1, <1>2, <1>3 DEF Before

\* ... rows that lie before p still lead to their data,
LEMMA KeepsPlaced ==
    ASSUME NEW fs, NEW gs, NEW m \in Table, NEW p \in Loc, NEW q \in Loc, NEW r \in Loc,
           Placed(fs, m, q), Keeps(fs, gs, p), ~Before(p, q), ~Before(r, q)
    PROVE  Placed(gs, m, r)
<1> SUFFICES ASSUME NEW b \in RowsOf(m)
             PROVE  Before(m[b], r) /\ Holds(gs, b, m[b])
  BY DEF Placed
<1>1. m[b] \in Loc /\ Before(m[b], q) /\ Holds(fs, b, m[b])
  BY DEF Placed, Table, RowsOf
<1>2. Before(m[b], r) /\ Before(m[b], p)
  BY <1>1, BeforeOrder
<1>3. Holds(gs, b, m[b])
  BY <1>1, <1>2, KeepsHolds
<1>4. QED
  BY <1>2, <1>3

\* ... and gs reach as far as fs did.
LEMMA KeepsCovered ==
    ASSUME NEW fs, NEW gs \in [FileNum -> Data \cup {None}], NEW p \in Loc, NEW q \in Loc,
           Keeps(fs, gs, p), Covered(fs, q), ~Before(p, q)
    PROVE  Covered(gs, q)
<1>1. CASE q.file < p.file
  BY <1>1, ConstantsAssumption, SMTT(30) DEF Keeps, Covered, Loc, FileNum
<1>2. CASE q.file = p.file /\ q.off <= p.off
  BY <1>2, ConstantsAssumption DEF Keeps, Covered, Loc, FileNum
<1>3. QED
  BY <1>1, <1>2 DEF Before, Loc, FileNum

\* What a file holds.
LEMMA ContentsData ==
    ASSUME Types, NEW n \in FileNum
    PROVE  Contents(n) \in Data /\ (files[n] # None => Contents(n) = files[n])
<1>1. <<>> \in Data
  BY EmptySeq, ConstantsAssumption DEF Data
<1>2. QED
  BY <1>1 DEF Types, Contents

\* The next block goes behind the cursor, where the file ends.
LEMMA TargetFits ==
    ASSUME Types, Covered(files, cursor), tx.todo # <<>>,
           cursor.file + Len(tx.todo) <= MaxFile
    PROVE  /\ Target \in Loc /\ Target.off < maxBlockFileSize
           /\ ~Before(Target, cursor)
           /\ Target.off <= Len(Contents(Target.file))
           /\ \A n \in FileNum : n < Target.file => files[n] # None
           /\ Target.file + Len(Tail(tx.todo)) <= MaxFile
<1>1. /\ cursor \in Loc /\ cursor.file \in Nat /\ cursor.off \in Nat
      /\ cursor = [file |-> cursor.file, off |-> cursor.off]
      /\ cursor.file <= MaxFile /\ cursor.off <= maxBlockFileSize
      /\ maxBlockFileSize \in Nat \ {0} /\ MaxFile \in Nat
  BY ConstantsAssumption DEF Types, Loc, FileNum
<1>2. tx.todo \in Seq(Block) /\ Len(tx.todo) \in Nat /\ Len(tx.todo) > 0
      /\ Len(Tail(tx.todo)) = Len(tx.todo) - 1
  BY EmptySeq, HeadTailProperties DEF Types, Transaction
<1>3. CASE cursor.off + 1 > maxBlockFileSize
  <2>1. Target = [file |-> cursor.file + 1, off |-> 0]
    BY <1>3 DEF Target
  <2>2. Target \in Loc /\ Target.file = cursor.file + 1 /\ Target.off = 0
    BY <1>1, <1>2, <2>1 DEF Loc, FileNum
  <2>3. Len(Contents(Target.file)) \in Nat
    <3>1. Target.file \in FileNum
      BY <2>2 DEF Loc
    <3>2. QED
      BY <3>1, ContentsData, LenProperties DEF Data
  <2>4. \A n \in FileNum : n < Target.file => files[n] # None
    BY <1>1, <1>3, <2>2 DEF Covered, FileNum
  <2>5. QED
    BY <1>1, <1>2, <2>2, <2>3, <2>4, SMTT(60) DEF Before
<1>4. CASE cursor.off + 1 <= maxBlockFileSize
  <2>1. Target = cursor
    BY <1>1, <1>4 DEF Target
  <2>2. cursor.off <= Len(Contents(cursor.file))
    <3>1. cursor.file \in FileNum
      BY <1>1 DEF Loc
    <3>2. Len(Contents(cursor.file)) \in Nat
      BY <3>1, ContentsData, LenProperties DEF Data
    <3>3. QED
      BY <1>1, <3>1, <3>2, ContentsData DEF Covered
  <2>3. QED
    BY <1>1, <1>2, <1>4, <2>1, <2>2, BeforeOrder, SMTT(30) DEF Covered
<1>5. QED
  BY <1>1, <1>3, <1>4

\* Writing there changes nothing before the cursor.
LEMMA WriteKeeps ==
    ASSUME Types, Covered(files, cursor), NEW at \in Loc, at.off < maxBlockFileSize,
           ~Before(at, cursor), at.off <= Len(Contents(at.file)),
           NEW d \in Block \cup {Torn},
           files' = [files EXCEPT ![at.file] =
                       Overwrite(Contents(at.file), at.off, d)]
    PROVE  /\ files' \in [FileNum -> Data \cup {None}]
           /\ Keeps(files, files', cursor)
           /\ files'[at.file] # None /\ at.off + 1 <= Len(files'[at.file])
           /\ files'[at.file][at.off + 1] = d
           /\ \A n \in FileNum : n # at.file => files'[n] = files[n]
<1> DEFINE s == Contents(at.file)
           t == Overwrite(s, at.off, d)
<1>1. /\ at.file \in FileNum /\ at.off \in Nat /\ files \in [FileNum -> Data \cup {None}]
      /\ cursor.file \in FileNum /\ cursor.off \in Nat
  BY ConstantsAssumption DEF Types, Loc
<1>2. s \in Data /\ (files[at.file] # None => s = files[at.file])
  BY <1>1, ContentsData
<1>3. /\ t \in Data /\ t # None /\ at.off + 1 <= Len(t) /\ Len(t) \in Nat
      /\ \A i \in 1..at.off : t[i] = s[i]
      /\ t[at.off + 1] = d
  <2>1. /\ t \in Data /\ t # None /\ at.off + 1 <= Len(t)
        /\ \A i \in 1..at.off : t[i] = s[i]
        /\ t[at.off + 1] = d
    BY <1>1, <1>2, OverwriteData
  <2>2. QED
    BY <2>1, LenProperties DEF Data
<1> HIDE DEF s, t
<1>4. /\ files' \in [FileNum -> Data \cup {None}]
      /\ files'[at.file] = t
      /\ \A n \in FileNum : n # at.file => files'[n] = files[n]
  BY <1>1, <1>3 DEF s, t
<1>5. Keeps(files, files', cursor)
  <2>1. CASE at.file = cursor.file
    <3>1. cursor.off <= at.off
      BY <1>1, <2>1 DEF Before
    <3>2. \A n \in FileNum : n < cursor.file => files'[n] = files[n]
      BY <1>1, <1>4, <2>1 DEF FileNum
    <3>3. ASSUME cursor.off > 0
          PROVE  /\ files'[cursor.file] # None /\ cursor.off <= Len(files'[cursor.file])
                 /\ \A i \in 1..cursor.off : files'[cursor.file][i] = files[cursor.file][i]
      <4>1. files'[cursor.file] = t /\ t # None /\ s = files[cursor.file]
        BY <1>2, <1>3, <1>4, <2>1, <3>3 DEF Covered
      <4>2. /\ cursor.off <= Len(t) /\ \A i \in 1..cursor.off : i \in 1..at.off
        BY <1>1, <1>3, <3>1
      <4>3. \A i \in 1..cursor.off : t[i] = s[i]
        BY <1>3, <4>2, Zenon
      <4>4. QED
        BY <4>1, <4>2, <4>3, Zenon
    <3>4. QED
      BY <3>2, <3>3, Zenon DEF Keeps
  <2>2. CASE at.file # cursor.file
    <3>1. cursor.file < at.file
      BY <1>1, <2>2 DEF Before, FileNum
    <3>2. QED
      BY <1>1, <1>4, <2>2, <3>1, SMTT(30) DEF Keeps, Covered, FileNum
  <2>3. QED
    BY <2>1, <2>2
<1>6. QED
  BY <1>3, <1>4, <1>5

\* A rollback changes nothing before the point it goes back to.
LEMMA RollbackKeeps ==
    ASSUME Types, NEW old \in Loc, Covered(files, old), handleRollback(old)
    PROVE  /\ files' \in [FileNum -> Data \cup {None}]
           /\ synced' = [n \in FileNum |-> synced'[n]]
           /\ cursor' = old /\ open' \in BOOLEAN
           /\ faults' \in Nat /\ faults' >= faults
           /\ Keeps(files, files', old)
<1>1. /\ old.file \in FileNum /\ old.off \in Nat /\ old.file \in Nat
      /\ cursor.file \in FileNum /\ cursor.file \in Nat /\ faults \in Nat
      /\ files \in [FileNum -> Data \cup {None}] /\ synced = [n \in FileNum |-> synced[n]]
  BY ConstantsAssumption DEF Types, Loc, FileNum
<1>2. cursor' = old
  BY DEF handleRollback
<1>3. CASE cursor = old
  <2>1. UNCHANGED <<files, synced, open, faults>>
    BY <1>3 DEF handleRollback
  <2>2. QED
    BY <1>1, <1>2, <2>1 DEF Keeps, Covered, Types
<1>4. CASE cursor # old
  <2> DEFINE closes == cursor.file > old.file
             Left(f) == [n \in FileNum |->
                           IF n > f /\ n <= cursor.file THEN None ELSE files[n]]
             Cut(s)  == SubSeq(s, 1, old.off)
             Lost(f) == [n \in FileNum |->
                           IF n > f /\ n <= cursor.file THEN 0 ELSE synced[n]]
  <2>1. PICK f \in old.file..cursor.file :
             \/ /\ f > old.file
                /\ \/ files[f] = None /\ UNCHANGED faults
                   \/ files[f] # None /\ Fault
                /\ files' = Left(f) /\ synced' = Lost(f) /\ open' = FALSE
             \/ /\ f = old.file /\ Fault
                /\ open' \in {open /\ ~closes, TRUE}
                /\ files' = Left(f) /\ synced' = Lost(f)
             \/ /\ f = old.file
                /\ open' = TRUE
                /\ files' = [Left(f) EXCEPT ![f] = Cut(Contents(f))]
                /\ \/ UNCHANGED faults
                      /\ synced' = [Lost(f) EXCEPT ![f] = old.off]
                   \/ Fault
                      /\ synced' = [Lost(f) EXCEPT ![f] =
                                      IF @ > old.off THEN old.off ELSE @]
    BY <1>4, Zenon DEF handleRollback
  <2>2. f \in FileNum /\ f \in Nat /\ f >= old.file
    <3>1. /\ old.file \in Nat /\ cursor.file \in 0..MaxFile /\ MaxFile \in Nat
          /\ f \in old.file..cursor.file
      BY <1>1, <2>1, ConstantsAssumption DEF FileNum
    <3>2. QED
      BY <3>1 DEF FileNum
  <2>3. /\ Left(f) \in [FileNum -> Data \cup {None}] /\ Lost(f) = [n \in FileNum |-> Lost(f)[n]]
        /\ \A n \in FileNum : n <= f => Left(f)[n] = files[n]
    BY <1>1, <2>2 DEF FileNum
  <2>4. faults' \in Nat /\ faults' >= faults
    <3>1. UNCHANGED faults \/ Fault
      BY <2>1, Zenon
    <3>2. QED
      BY <1>1, <3>1 DEF Fault
  <2>5. open' \in BOOLEAN
    <3>1. open' \in {open /\ ~closes, TRUE} \/ open' = TRUE \/ open' = FALSE
      BY <2>1, Zenon
    <3>2. QED
      BY <3>1, Zenon DEF Types
  <2>6. synced' = [n \in FileNum |-> synced'[n]]
    BY <1>1, <2>1, <2>2, <2>3, Zenon
  <2>7. CASE files' = Left(f)
    <3>1. Keeps(files, files', old)
      BY <1>1, <2>2, <2>3, <2>7, SMTT(30) DEF Keeps, Covered, FileNum
    <3>2. QED
      BY <1>2, <2>3, <2>4, <2>5, <2>6, <2>7, <3>1
  <2>8. CASE f = old.file /\ files' = [Left(f) EXCEPT ![f] = Cut(Contents(f))]
    <3>1. Contents(f) \in Data /\ old.off <= Len(Contents(f))
      <4>1. /\ Contents(f) \in Data /\ Len(Contents(f)) \in Nat
            /\ files[f] # None => Contents(f) = files[f]
        BY <2>2, ContentsData, LenProperties DEF Data
      <4>2. QED
        BY <1>1, <2>8, <4>1 DEF Covered
    <3>2. /\ Cut(Contents(f)) \in Data /\ Len(Cut(Contents(f))) = old.off
          /\ Cut(Contents(f)) # None
          /\ \A i \in 1..old.off : Cut(Contents(f))[i] = Contents(f)[i]
      <4> DEFINE c == Contents(f)
      <4>1. /\ c \in Seq(Block \cup {Torn}) /\ Len(c) \in Nat
            /\ Len(c) <= maxBlockFileSize /\ maxBlockFileSize \in Nat
        BY <3>1, LenProperties, ConstantsAssumption DEF Data
      <4>2. \A i \in 1..old.off : c[i] \in Block \cup {Torn}
        BY <1>1, <3>1, <4>1, ElementOfSeq, SMTT(30)
      <4> HIDE DEF c
      <4>3. /\ SubSeq(c, 1, old.off) \in Seq(Block \cup {Torn})
            /\ Len(SubSeq(c, 1, old.off)) = old.off
            /\ \A i \in 1..old.off : SubSeq(c, 1, old.off)[i] = c[i]
        BY <1>1, <4>2, SubSeqProperties
      <4>4. old.off <= maxBlockFileSize
        BY <1>1, <3>1, <4>1 DEF c
      <4>5. SubSeq(c, 1, old.off) \in Data /\ SubSeq(c, 1, old.off) # None
        BY <4>3, <4>4, ConstantsAssumption, Zenon DEF Data
      <4>6. QED
        BY <4>3, <4>5 DEF c
    <3>3. files' \in [FileNum -> Data \cup {None}]
      BY <2>2, <2>3, <2>8, <3>2, Zenon
    <3>4. Keeps(files, files', old)
      BY <1>1, <2>2, <2>3, <2>8, <3>2, ContentsData, SMTT(60) DEF Keeps, Covered, FileNum
    <3>5. QED
      BY <1>2, <2>4, <2>5, <2>6, <3>3, <3>4
  <2>9. QED
    BY <2>1, <2>7, <2>8, Zenon
<1>5. QED
  BY <1>3, <1>4

-----------------------------------------------------------------------------
\* The keys.
LEMMA Keys ==
    /\ "writeLoc" \in Key /\ "meta" \in Key /\ Block \subseteq Key
    /\ "writeLoc" # "meta" /\ "writeLoc" \notin Block /\ "meta" \notin Block
BY ConstantsAssumption DEF Key

\* Nothing cached.
LEMMA NoKeysTable ==
    /\ NoKeys \in Table /\ RowsOf(NoKeys) = {}
    /\ \A k \in Key : NoKeys[k] = None
BY Keys DEF NoKeys, Table, RowsOf

\* A table with the changes of another one on top.
LEMMA ViewTable ==
    ASSUME NEW l \in Table, NEW m \in Table, NEW r \in SUBSET {"meta"}
    PROVE  /\ View(l, m, r) \in Table
           /\ \A k \in Key \ {"meta"} :
                 View(l, m, r)[k] = IF m[k] # None THEN m[k] ELSE l[k]
<1> DEFINE v == View(l, m, r)
<1>1. \A k \in Key : v[k] = IF k \in r THEN None
                              ELSE IF m[k] # None THEN m[k] ELSE l[k]
  BY DEF View
<1>2. \A k \in Key \ {"meta"} : v[k] = IF m[k] # None THEN m[k] ELSE l[k]
  BY <1>1, Zenon
<1>3. v \in [Key -> Loc \cup MetaValue \cup {None}]
  BY DEF View, Table
<1> HIDE DEF v
<1>4. \A b \in Block : v[b] \in Loc \cup {None}
  BY <1>2, Keys DEF Table
<1>5. v["writeLoc"] \in Loc \cup {None}
  BY <1>2, Keys DEF Table
<1>6. v["meta"] \in MetaValue \cup {None}
  BY <1>1, Keys DEF Table
<1>7. QED
  BY <1>2, <1>3, <1>4, <1>5, <1>6 DEF Table, v

\* The rows of both stay where they are.
LEMMA ViewPlaced ==
    ASSUME NEW fs, NEW p, NEW l \in Table, NEW m \in Table, NEW r \in SUBSET {"meta"},
           Placed(fs, l, p), Placed(fs, m, p)
    PROVE  /\ Placed(fs, View(l, m, r), p)
           /\ RowsOf(View(l, m, r)) = RowsOf(l) \cup RowsOf(m)
<1>1. \A b \in Block : View(l, m, r)[b] = IF m[b] # None THEN m[b] ELSE l[b]
  BY ViewTable, Keys
<1>2. QED
  BY <1>1 DEF Placed, RowsOf

\* What the latest state is made of.
LEMMA LatestTable ==
    ASSUME Types
    PROVE  /\ Latest \in Table /\ Latest["writeLoc"] = Committed /\ Committed \in Loc
           /\ Saved \in Loc
<1>1. /\ ldb \in Table /\ cachedKeys \in Table /\ cachedRemove \in SUBSET {"meta"}
      /\ ldb["writeLoc"] \in Loc
  BY DEF Types
<1>2. Latest \in Table /\ Latest["writeLoc"] = Committed
  BY <1>1, ViewTable, Keys DEF Latest, Committed, Saved
<1>3. Committed \in Loc
  BY <1>1 DEF Table, Committed, Saved
<1>4. QED
  BY <1>1, <1>2, <1>3 DEF Saved

\* What commitTx leaves in the cache.
LEMMA MergedTable ==
    ASSUME Types, Merged
    PROVE  /\ cachedKeys' \in Table /\ cachedRemove' \subseteq {"meta"}
           /\ \A k \in Key \ {"meta"} :
                 cachedKeys'[k] = IF tx.keys[k] # None THEN tx.keys[k]
                                  ELSE cachedKeys[k]
           /\ \A k \in Key : View(ldb, cachedKeys', cachedRemove')[k]
                              = View(Latest, tx.keys, tx.remove)[k]
<1>1. /\ cachedKeys \in Table /\ cachedRemove \subseteq {"meta"}
      /\ tx.keys \in Table /\ tx.remove \subseteq {"meta"}
  BY DEF Types, Transaction
<1>2. \A k \in Key : cachedKeys'[k] = IF k \in tx.remove THEN None
                                       ELSE IF tx.keys[k] # None THEN tx.keys[k]
                                       ELSE cachedKeys[k]
  BY DEF Merged
<1>3. cachedRemove' = {k \in cachedRemove : tx.keys[k] = None} \cup tx.remove
  BY DEF Merged
<1>4. cachedKeys' = View(cachedKeys, tx.keys, tx.remove)
  BY DEF Merged, View
<1>5. /\ cachedKeys' \in Table
      /\ \A k \in Key \ {"meta"} :
            cachedKeys'[k] = IF tx.keys[k] # None THEN tx.keys[k] ELSE cachedKeys[k]
  BY <1>1, <1>4, ViewTable
<1>6. ASSUME NEW k \in Key
      PROVE  View(ldb, cachedKeys', cachedRemove')[k]
             = View(Latest, tx.keys, tx.remove)[k]
  BY <1>2, <1>3 DEF View, Latest
<1>7. QED
  BY <1>1, <1>3, <1>5, <1>6, Zenon

-----------------------------------------------------------------------------
\* Rows that lie before a position lie before a later one.
LEMMA PlacedLater ==
    ASSUME NEW fs, NEW m \in Table, NEW p \in Loc, NEW q \in Loc,
           Placed(fs, m, p), ~Before(q, p)
    PROVE  Placed(fs, m, q)
<1> SUFFICES ASSUME NEW b \in RowsOf(m)
             PROVE  Before(m[b], q)
  BY DEF Placed
<1>1. m[b] \in Loc /\ Before(m[b], p)
  BY DEF Placed, Table, RowsOf
<1>2. QED
  BY <1>1, BeforeOrder

\* No transaction.
LEMMA NoTxTyped ==
    /\ NoTx \in Transaction /\ NoTx.keys = NoKeys
    /\ [file |-> 0, off |-> 0] \in Loc
<1>1. [file |-> 0, off |-> 0] \in Loc
  BY ConstantsAssumption DEF Loc, FileNum
<1>2. <<>> \in Seq(Block) /\ NoKeys \in Table
  BY EmptySeq, NoKeysTable
<1>3. QED
  BY <1>1, <1>2 DEF NoTx, Transaction

\* Steps of a running database that leave leveldb, the cache and the files as
\* they are.
LEMMA QuietInv ==
    ASSUME DBInv, UNCHANGED <<ldb, cachedKeys, cachedRemove, files, cursor, rsnap>>,
           synced' = [n \in FileNum |-> synced'[n]], open' \in BOOLEAN, faults' \in Nat,
           tx' \in Transaction, Running, pc # "rollback",
           pc' \in {"idle", "write", "commit", "flush"},
           pc' = "write" => /\ ~Before(cursor, tx'.old) /\ Covered(files, tx'.old)
                            /\ ~Before(tx'.old, Committed),
           InTx' => Placed(files, tx'.keys, cursor),
           Pending'
    PROVE  DBInv'
<1>1. Types /\ RowsPlaced /\ CursorsOrdered
  BY DEF DBInv
<1>2. Types'
  BY <1>1 DEF Types
<1>3. Saved' = Saved /\ Committed' = Committed
  BY DEF Saved, Committed
<1>4. RowsPlaced'
  BY <1>1, <1>3 DEF RowsPlaced
<1>5. CursorsOrdered'
  BY <1>1, <1>3 DEF CursorsOrdered, Running
<1>6. Flushed'
  BY DEF Flushed
<1>7. QED
  BY <1>2, <1>4, <1>5, <1>6 DEF DBInv

\* syncBlocks.
LEMMA SyncedTyped ==
    ASSUME Types
    PROVE  Synced = [n \in FileNum |-> Synced[n]]
BY DEF Types, Synced

\* What a transaction holds when it begins.
LEMMA BegunTx ==
    ASSUME DBInv, Begin
    PROVE  /\ tx' \in Transaction /\ tx'.old = cursor /\ RowsOf(tx'.keys) = {}
           /\ cursor.file + Len(tx'.todo) <= MaxFile
           /\ tx'.blocks = Range(tx'.todo)
           /\ \A b \in tx'.blocks : Latest[b] = None
<1>0. PICK n \in 0..MaxBlocks :
         \E s \in Injection(1..n, {b \in Block : Latest[b] = None}),
            v \in MetaValue \cup {None}, touch \in BOOLEAN :
           /\ cursor.file + Len(s) <= MaxFile
           /\ tx' = [todo   |-> s,
                     blocks |-> Range(s),
                     keys   |-> [NoKeys EXCEPT !["meta"] = v],
                     remove |-> IF touch /\ v = None THEN {"meta"} ELSE {},
                     old    |-> cursor]
  BY ZenonT(60) DEF Begin
<1>3. PICK s \in Injection(1..n, {b \in Block : Latest[b] = None}),
           v \in MetaValue \cup {None}, touch \in BOOLEAN :
         /\ cursor.file + Len(s) <= MaxFile
         /\ tx' = [todo   |-> s,
                   blocks |-> Range(s),
                   keys   |-> [NoKeys EXCEPT !["meta"] = v],
                   remove |-> IF touch /\ v = None THEN {"meta"} ELSE {},
                   old    |-> cursor]
  BY <1>0, Zenon
<1>4. s \in Seq(Block) /\ Range(s) \in SUBSET {b \in Block : Latest[b] = None}
  <2>1. s \in [1..n -> {b \in Block : Latest[b] = None}]
    BY <1>3 DEF Injection
  <2>2. s \in [1..n -> Block] /\ n \in Nat
    BY <2>1, ConstantsAssumption
  <2>3. Range(s) \in SUBSET {b \in Block : Latest[b] = None}
    BY <2>1 DEF Range
  <2>4. QED
    BY <2>2, <2>3
<1>5. [NoKeys EXCEPT !["meta"] = v] \in Table /\ RowsOf([NoKeys EXCEPT !["meta"] = v]) = {}
  BY Keys DEF Table, NoKeys, RowsOf
<1>6. tx' \in Transaction /\ tx'.old = cursor /\ tx'.todo = s
      /\ tx'.blocks = Range(s) /\ tx'.keys = [NoKeys EXCEPT !["meta"] = v]
  <2>1. Range(s) \in SUBSET Block /\ cursor \in Loc
    BY <1>4 DEF DBInv, Types
  <2>2. QED
    BY <1>3, <1>4, <1>5, <2>1, Zenon DEF Transaction
<1>7. QED
  BY <1>3, <1>4, <1>5, <1>6, Zenon

\* A transaction begins.
LEMMA BeginInv ==
    ASSUME DBInv, Begin
    PROVE  DBInv'
<1>1. Types /\ CursorsOrdered
  BY DEF DBInv
<1>2. /\ pc = "idle" /\ pc' = "write"
      /\ UNCHANGED <<ldb, cachedKeys, cachedRemove, files, synced, cursor, open,
                     rsnap, faults>>
  BY DEF Begin, cache, store, read
<1>3. /\ tx' \in Transaction /\ tx'.old = cursor /\ RowsOf(tx'.keys) = {}
      /\ cursor.file + Len(tx'.todo) <= MaxFile
      /\ tx'.blocks = Range(tx'.todo)
  BY BegunTx
<1>7. ~Before(cursor, cursor) /\ Covered(files, cursor) /\ ~Before(cursor, Committed)
  BY <1>1, <1>2, BeforeOrder DEF CursorsOrdered, Running, Types
<1>8. Placed(files, tx'.keys, cursor)
  BY <1>3, Zenon DEF Placed
<1>9. Pending'
  BY <1>2, <1>3, Zenon DEF Pending, InTx, Committing
<1>10. QED
  BY <1>1, <1>2, <1>3, <1>7, <1>8, <1>9, QuietInv DEF Types, Running

\* A transaction ends without effect.
LEMMA EndsInv ==
    ASSUME DBInv, Rollback \/ CommitFails
    PROVE  DBInv'
<1>1. /\ Running /\ pc # "rollback" /\ pc' = "idle" /\ tx' = NoTx
      /\ UNCHANGED <<ldb, cachedKeys, cachedRemove, files, synced, cursor, open,
                     rsnap>>
      /\ faults' = faults \/ faults' = faults + 1
  BY DEF Rollback, CommitFails, Fault, cache, store, read, Running
<1>2. Pending' /\ ~InTx'
  BY <1>1 DEF Pending, InTx, Committing
<1>3. faults' \in Nat
  BY <1>1 DEF DBInv, Types
<1>4. QED
  BY <1>1, <1>2, <1>3, NoTxTyped, QuietInv DEF DBInv, Types

\* The row of the write cursor.
LEMMA StoreCursorInv ==
    ASSUME DBInv, StoreCursor
    PROVE  DBInv'
<1>1. Types /\ RowsPlaced /\ Pending
  BY DEF DBInv
<1>2. /\ pc = "write" /\ pc' = "commit" /\ tx.todo = <<>>
      /\ tx' = [tx EXCEPT !.keys["writeLoc"] = cursor]
      /\ UNCHANGED <<ldb, cachedKeys, cachedRemove, files, synced, cursor, open,
                     rsnap, faults>>
  BY DEF StoreCursor, cache, store, read
<1>3. /\ tx' = [tx EXCEPT !.keys = [tx.keys EXCEPT !["writeLoc"] = cursor]]
      /\ tx.keys \in Table /\ cursor \in Loc
  BY <1>1, <1>2 DEF Types, Transaction
<1>4. /\ tx'.keys = [tx.keys EXCEPT !["writeLoc"] = cursor]
      /\ tx'.todo = <<>> /\ tx'.blocks = tx.blocks
  BY <1>1, <1>2, <1>3 DEF Types, Transaction
<1>5. /\ tx'.keys \in Table /\ tx'.keys["writeLoc"] = cursor
      /\ \A b \in Block : tx'.keys[b] = tx.keys[b]
  BY <1>3, <1>4, Keys DEF Table
<1>6. tx' \in Transaction
  BY <1>1, <1>3, <1>4, <1>5, Zenon DEF Types, Transaction
<1>7. Placed(files, tx'.keys, cursor) /\ RowsOf(tx'.keys) = RowsOf(tx.keys)
  BY <1>1, <1>2, <1>5 DEF RowsPlaced, Placed, RowsOf, InTx
<1>8. Pending'
  BY <1>1, <1>2, <1>4, <1>5, <1>7 DEF Pending, InTx, Committing
<1>9. QED
  BY <1>1, <1>2, <1>6, <1>7, <1>8, QuietInv DEF Types, Running

\* The blocks are synced.
LEMMA FlushSyncInv ==
    ASSUME DBInv, FlushSync
    PROVE  DBInv'
<1>1. Types /\ RowsPlaced /\ CursorsOrdered /\ Pending
  BY DEF DBInv
<1>2. /\ pc = "commit" /\ pc' = "flush" /\ synced' = Synced
      /\ UNCHANGED <<ldb, cachedKeys, cachedRemove, files, cursor, open,
                     rsnap, faults, tx>>
  BY DEF FlushSync, cache, read
<1>3. Synced = [n \in FileNum |-> Synced[n]]
  BY <1>1, SyncedTyped
<1>4. Pending' /\ Placed(files, tx'.keys, cursor)
  BY <1>1, <1>2 DEF Pending, RowsPlaced, InTx, Committing
<1>5. QED
  BY <1>1, <1>2, <1>3, <1>4, QuietInv DEF Types, Running

\* The transaction's keys join the cache.
LEMMA CommitCachedInv ==
    ASSUME DBInv, CommitCached
    PROVE  DBInv'
<1>1. Types /\ RowsPlaced /\ CursorsOrdered /\ Pending
  BY DEF DBInv
<1>2. /\ pc = "commit" /\ Merged /\ pc' = "idle" /\ tx' = NoTx
      /\ UNCHANGED <<ldb, files, synced, cursor, open, rsnap, faults>>
  BY DEF CommitCached, store
<1>3. /\ ldb \in Table /\ cachedKeys \in Table /\ rsnap \in Table /\ tx.keys \in Table
      /\ tx.remove \in SUBSET {"meta"} /\ cursor \in Loc
      /\ Saved \in Loc /\ Committed \in Loc
  BY <1>1, LatestTable DEF Types, Transaction
<1>4. /\ cachedKeys' \in Table /\ cachedRemove' \subseteq {"meta"}
      /\ \A k \in Key \ {"meta"} :
            cachedKeys'[k] = IF tx.keys[k] # None THEN tx.keys[k] ELSE cachedKeys[k]
  BY <1>1, <1>2, MergedTable
<1>5. Types'
  BY <1>1, <1>2, <1>4, NoTxTyped DEF Types
<1>6. Saved' = Saved /\ Committed' = cursor
  <2>1. cachedKeys'["writeLoc"] = cursor
    BY <1>1, <1>2, <1>3, <1>4, Keys, ConstantsAssumption DEF Pending, Committing
  <2>2. QED
    BY <1>2, <1>3, <2>1, ConstantsAssumption DEF Saved, Committed
<1>7. ~Before(cursor, Committed) /\ Covered(files, cursor)
  BY <1>1, <1>2 DEF CursorsOrdered, Running
<1>8. /\ Placed(files, cachedKeys, cursor) /\ Placed(files, rsnap, cursor)
      /\ Placed(files, tx.keys, cursor)
  BY <1>1, <1>2, <1>3, <1>7, PlacedLater DEF RowsPlaced, InTx, Committing
<1>9. Placed(files, cachedKeys', cursor)
  <2>1. \A b \in Block : cachedKeys'[b] = IF tx.keys[b] # None THEN tx.keys[b]
                                          ELSE cachedKeys[b]
    BY <1>4, Keys
  <2>2. QED
    BY <1>8, <2>1 DEF Placed, RowsOf
<1>10. RowsPlaced'
  BY <1>1, <1>2, <1>6, <1>8, <1>9 DEF RowsPlaced, InTx, Committing
<1>11. CursorsOrdered'
  <2>1. ~Before(cursor, Saved) /\ ~Before(cursor, cursor)
    BY <1>1, <1>3, <1>7, BeforeOrder DEF CursorsOrdered
  <2>2. QED
    BY <1>1, <1>2, <1>6, <1>7, <2>1 DEF CursorsOrdered, Running
<1>12. Pending' /\ Flushed'
  BY <1>2 DEF Pending, Flushed, InTx, Committing
<1>13. QED
  BY <1>5, <1>10, <1>11, <1>12 DEF DBInv

\* The cache is written to leveldb.
LEMMA FlushCacheInv ==
    ASSUME DBInv, FlushCache
    PROVE  DBInv'
<1>1. Types /\ RowsPlaced /\ CursorsOrdered /\ Pending
  BY DEF DBInv
<1>2. /\ pc = "flush" /\ pc' = "clear" /\ ldb' = Latest
      /\ UNCHANGED <<cachedKeys, cachedRemove, files, synced, cursor, open, rsnap,
                     tx, faults>>
  BY DEF FlushCache, cache, store, read
<1>3. /\ ldb \in Table /\ cachedKeys \in Table /\ cachedRemove \in SUBSET {"meta"}
      /\ Saved \in Loc /\ Committed \in Loc
      /\ Latest \in Table /\ Latest["writeLoc"] = Committed
  BY <1>1, LatestTable DEF Types
<1>4. Types'
  BY <1>1, <1>2, <1>3 DEF Types
<1>5. Saved' = Committed /\ Committed' = Committed
  BY <1>2, <1>3 DEF Saved, Committed
<1>6. Placed(files, Latest, Committed)
  <2>1. Placed(files, ldb, Committed) /\ Placed(files, cachedKeys, Committed)
    BY <1>1, <1>3, PlacedLater DEF RowsPlaced, CursorsOrdered
  <2>2. QED
    BY <1>3, <2>1, ViewPlaced DEF Latest
<1>7. RowsPlaced'
  BY <1>1, <1>2, <1>5, <1>6 DEF RowsPlaced, InTx, Committing
<1>8. CursorsOrdered'
  <2>1. ~Before(Committed, Committed)
    BY <1>3, BeforeOrder
  <2>2. QED
    BY <1>1, <1>2, <1>5, <2>1 DEF CursorsOrdered, Running
<1>9. Pending'
  BY <1>1, <1>2 DEF Pending, InTx, Committing
<1>10. Flushed'
  <2>1. \A k \in Key : Latest'[k] = ldb'[k]
    BY <1>2 DEF Latest, View
  <2>2. QED
    BY <1>2, <2>1 DEF Flushed
<1>11. QED
  BY <1>4, <1>7, <1>8, <1>9, <1>10 DEF DBInv

\* The cache is emptied.
LEMMA FlushClearInv ==
    ASSUME DBInv, FlushClear
    PROVE  DBInv'
<1>1. Types /\ RowsPlaced /\ CursorsOrdered /\ Pending /\ Flushed
  BY DEF DBInv
<1>2. /\ pc = "clear" /\ pc' = "direct" /\ cachedKeys' = NoKeys /\ cachedRemove' = {}
      /\ UNCHANGED <<ldb, files, synced, cursor, open, rsnap, tx, faults>>
  BY DEF FlushClear, store
<1>3. Types'
  BY <1>1, <1>2, NoKeysTable DEF Types
<1>4. Saved' = Committed /\ Committed' = Committed
  <2>1. Latest["writeLoc"] = Committed
    BY <1>1, LatestTable
  <2>2. Saved = Committed
    BY <1>1, <1>2, <2>1, Keys DEF Flushed, Saved
  <2>3. QED
    BY <1>2, <2>2, NoKeysTable, Keys DEF Saved, Committed
<1>5. Placed(files, ldb, Committed) /\ Placed(files, NoKeys, Committed)
  <2>1. ldb \in Table /\ Saved \in Loc /\ Committed \in Loc
    BY <1>1, LatestTable DEF Types
  <2>2. Placed(files, ldb, Committed)
    BY <1>1, <2>1, PlacedLater DEF RowsPlaced, CursorsOrdered
  <2>3. QED
    BY <2>2, NoKeysTable DEF Placed
<1>6. RowsPlaced'
  BY <1>1, <1>2, <1>4, <1>5 DEF RowsPlaced, InTx, Committing
<1>7. CursorsOrdered'
  <2>1. ~Before(Committed, Committed)
    BY <1>1, LatestTable, BeforeOrder
  <2>2. QED
    BY <1>1, <1>2, <1>4, <2>1 DEF CursorsOrdered, Running
<1>8. Pending'
  BY <1>1, <1>2 DEF Pending, InTx, Committing
<1>9. Flushed'
  BY <1>2 DEF Flushed
<1>10. QED
  BY <1>3, <1>6, <1>7, <1>8, <1>9 DEF DBInv

\* The transaction goes to leveldb.
LEMMA CommitDirectInv ==
    ASSUME DBInv, CommitDirect
    PROVE  DBInv'
<1>1. Types /\ RowsPlaced /\ CursorsOrdered /\ Pending /\ Flushed
  BY DEF DBInv
<1>2. /\ pc = "direct" /\ pc' = "idle" /\ tx' = NoTx
      /\ ldb' = View(ldb, tx.keys, tx.remove)
      /\ UNCHANGED <<cachedKeys, cachedRemove, files, synced, cursor, open, rsnap,
                     faults>>
  BY DEF CommitDirect, cache, store
<1>3. cachedKeys = NoKeys
  BY <1>1, <1>2 DEF Flushed
<1>4. /\ ldb \in Table /\ tx.keys \in Table /\ rsnap \in Table
      /\ tx.remove \in SUBSET {"meta"} /\ cursor \in Loc
      /\ Saved \in Loc /\ Committed \in Loc
  BY <1>1, LatestTable DEF Types, Transaction
<1>5. ldb' \in Table /\ ldb'["writeLoc"] = cursor
  <2>1. tx.keys["writeLoc"] = cursor /\ cursor # None
    BY <1>1, <1>2, <1>4, ConstantsAssumption DEF Pending, Committing
  <2>2. QED
    BY <1>2, <1>4, <2>1, ViewTable, Keys
<1>6. Types'
  BY <1>1, <1>2, <1>4, <1>5, NoTxTyped DEF Types
<1>7. Saved' = cursor /\ Committed' = cursor
  BY <1>2, <1>3, <1>5, NoKeysTable, Keys DEF Saved, Committed
<1>8. ~Before(cursor, Committed) /\ Covered(files, cursor) /\ ~Before(cursor, Saved)
      /\ ~Before(cursor, cursor)
  <2>1. ~Before(cursor, Committed) /\ Covered(files, cursor)
    BY <1>1, <1>2 DEF CursorsOrdered, Running
  <2>2. QED
    BY <1>1, <1>4, <2>1, BeforeOrder DEF CursorsOrdered
<1>9. /\ Placed(files, ldb, cursor) /\ Placed(files, tx.keys, cursor)
      /\ Placed(files, rsnap, cursor) /\ Placed(files, NoKeys, cursor)
  <2>1. Placed(files, ldb, cursor) /\ Placed(files, rsnap, cursor)
    BY <1>1, <1>4, <1>8, PlacedLater, Zenon DEF RowsPlaced
  <2>2. QED
    BY <1>1, <1>2, <2>1, NoKeysTable, Zenon DEF RowsPlaced, InTx, Committing, Placed
<1>10. Placed(files, ldb', cursor)
  BY <1>2, <1>4, <1>9, ViewPlaced
<1>11. RowsPlaced'
  BY <1>2, <1>3, <1>7, <1>9, <1>10 DEF RowsPlaced, InTx, Committing
<1>12. CursorsOrdered'
  BY <1>2, <1>7, <1>8 DEF CursorsOrdered, Running
<1>13. Pending' /\ Flushed'
  BY <1>2, Zenon DEF Pending, Flushed, InTx, Committing
<1>14. QED
  BY <1>6, <1>11, <1>12, <1>13 DEF DBInv

-----------------------------------------------------------------------------
\* The elements of a sequence are its first one and those of the rest.
LEMMA RangeOfTail ==
    ASSUME NEW s \in Seq(Block), s # <<>>
    PROVE  Range(s) = {Head(s)} \cup Range(Tail(s))
<1>1. /\ Len(s) \in Nat \ {0} /\ Tail(s) \in Seq(Block) /\ Len(Tail(s)) = Len(s) - 1
      /\ \A i \in 1..Len(s) - 1 : Tail(s)[i] = s[i + 1]
      /\ Head(s) = s[1]
  BY EmptySeq, HeadTailProperties
<1>2. /\ Range(s) = {s[i] : i \in 1..Len(s)}
      /\ Range(Tail(s)) = {Tail(s)[i] : i \in 1..Len(s) - 1}
  <2>1. Range(s) = {s[i] : i \in 1..Len(s)}
    BY RangeEquality, Zenon
  <2>2. Range(Tail(s)) = {Tail(s)[i] : i \in 1..Len(Tail(s))}
    BY <1>1, RangeEquality, ZenonT(60)
  <2>3. QED
    BY <1>1, <2>1, <2>2, Zenon
<1>3. ASSUME NEW x \in Range(s)
      PROVE  x \in {Head(s)} \cup Range(Tail(s))
  <2>1. PICK i \in 1..Len(s) : x = s[i]
    BY <1>2, <1>3
  <2>2. CASE i = 1
    BY <1>1, <2>1, <2>2
  <2>3. CASE i # 1
    <3>1. i - 1 \in 1..Len(s) - 1 /\ (i - 1) + 1 = i
      BY <1>1, <2>3
    <3>2. x = Tail(s)[i - 1]
      BY <1>1, <2>1, <3>1
    <3>3. QED
      BY <1>2, <3>1, <3>2, Zenon
  <2>4. QED
    BY <2>2, <2>3
<1>4. ASSUME NEW x \in {Head(s)} \cup Range(Tail(s))
      PROVE  x \in Range(s)
  <2>1. CASE x = Head(s)
    BY <1>1, <1>2, <2>1
  <2>2. CASE x \in Range(Tail(s))
    <3>1. PICK i \in 1..Len(s) - 1 : x = Tail(s)[i]
      BY <1>2, <2>2
    <3>2. x = s[i + 1] /\ i + 1 \in 1..Len(s)
      BY <1>1, <3>1
    <3>3. QED
      BY <1>2, <3>2
  <2>3. QED
    BY <2>1, <2>2
<1>5. QED
  BY <1>3, <1>4

\* A block is written.
LEMMA WriteBlockInv ==
    ASSUME DBInv, WriteBlock
    PROVE  DBInv'
<1> DEFINE at == Target
           b0 == Head(tx.todo)
           next == [at EXCEPT !.off = @ + 1]
<1>1. Types /\ RowsPlaced /\ CursorsOrdered /\ Pending
  BY DEF DBInv
<1>2. /\ pc = "write" /\ pc' = "write" /\ tx.todo # <<>>
      /\ files' = [files EXCEPT ![at.file] = Overwrite(Contents(at.file), at.off, b0)]
      /\ synced' = [synced EXCEPT ![at.file] = IF @ > at.off THEN at.off ELSE @]
      /\ cursor' = next /\ open' = TRUE
      /\ tx' = [tx EXCEPT !.todo = Tail(@), !.keys[b0] = at]
      /\ UNCHANGED <<ldb, cachedKeys, cachedRemove, rsnap, faults>>
  BY DEF WriteBlock, cache, read
<1>3. /\ tx.todo \in Seq(Block) /\ tx.keys \in Table /\ b0 \in Block
      /\ Tail(tx.todo) \in Seq(Block) /\ tx.old \in Loc
      /\ Range(tx.todo) = {b0} \cup Range(Tail(tx.todo))
  <2>1. tx.todo \in Seq(Block) /\ tx.keys \in Table /\ tx.old \in Loc
    BY <1>1 DEF Types, Transaction
  <2>2. b0 \in Block /\ Tail(tx.todo) \in Seq(Block)
    BY <1>2, <2>1, HeadTailProperties
  <2>3. Range(tx.todo) = {b0} \cup Range(Tail(tx.todo))
    BY <1>2, <2>1, RangeOfTail
  <2>4. QED
    BY <2>1, <2>2, <2>3
<1>4. Covered(files, cursor) /\ ~Before(cursor, tx.old) /\ ~Before(cursor, Committed)
      /\ cursor.file + Len(tx.todo) <= MaxFile
  BY <1>1, <1>2 DEF CursorsOrdered, Running, Pending
<1>5. /\ at \in Loc /\ at.off < maxBlockFileSize /\ ~Before(at, cursor)
      /\ at.off <= Len(Contents(at.file))
      /\ \A n \in FileNum : n < at.file => files[n] # None
      /\ at.file + Len(Tail(tx.todo)) <= MaxFile
  BY <1>1, <1>2, <1>4, TargetFits
<1> HIDE DEF at
<1>6. /\ files' \in [FileNum -> Data \cup {None}]
      /\ Keeps(files, files', cursor)
      /\ files'[at.file] # None /\ at.off + 1 <= Len(files'[at.file])
      /\ files'[at.file][at.off + 1] = b0
      /\ \A n \in FileNum : n # at.file => files'[n] = files[n]
  BY <1>1, <1>2, <1>3, <1>4, <1>5, WriteKeeps, Zenon
<1>7. /\ at.file \in FileNum /\ at.file \in Nat /\ at.off \in Nat /\ cursor \in Loc
      /\ next = [file |-> at.file, off |-> at.off + 1]
      /\ next \in Loc /\ Before(at, next) /\ ~Before(next, at)
  <2>1. /\ at.file \in FileNum /\ at.file \in Nat /\ at.off \in Nat /\ cursor \in Loc
        /\ next = [file |-> at.file, off |-> at.off + 1]
    BY <1>1, <1>5, ConstantsAssumption, SMTT(60) DEF Types, Loc, FileNum
  <2>2. next \in Loc
    BY <1>5, <2>1, ConstantsAssumption DEF Loc
  <2>3. QED
    BY <2>1, <2>2 DEF Before
<1> HIDE DEF b0, next
<1>8. /\ Saved' = Saved /\ Committed' = Committed
      /\ Saved \in Loc /\ Committed \in Loc
  BY <1>1, <1>2, LatestTable DEF Saved, Committed
<1>9. /\ tx'.todo = Tail(tx.todo) /\ tx'.keys = [tx.keys EXCEPT ![b0] = at]
      /\ tx'.blocks = tx.blocks /\ tx'.old = tx.old /\ tx'.remove = tx.remove
  BY <1>1, <1>2 DEF Types, Transaction, b0
<1>10. /\ tx'.keys \in Table /\ tx'.keys[b0] = at /\ at # None
       /\ \A k \in Key : k # b0 => tx'.keys[k] = tx.keys[k]
  BY <1>3, <1>5, <1>9, Keys, ConstantsAssumption, SMTT(30) DEF Table
<1>11. tx' \in Transaction
  <2>1. tx.blocks \in SUBSET Block /\ tx.remove \in SUBSET {"meta"}
    BY <1>1 DEF Types, Transaction
  <2>2. tx' = [todo |-> tx'.todo, blocks |-> tx'.blocks, keys |-> tx'.keys,
               remove |-> tx'.remove, old |-> tx'.old]
    BY <1>1, <1>2, Zenon DEF Types, Transaction
  <2>3. QED
    BY <1>3, <1>9, <1>10, <2>1, <2>2, Zenon DEF Transaction
<1>12. Types'
  <2>1. synced' = [n \in FileNum |-> synced'[n]]
    BY <1>1, <1>2 DEF Types
  <2>2. open' \in BOOLEAN
    BY <1>2, Zenon
  <2>3. QED
    BY <1>1, <1>2, <1>6, <1>7, <1>11, <2>1, <2>2 DEF Types
<1>13. ~Before(next, cursor) /\ ~Before(next, Committed) /\ ~Before(next, tx.old)
       /\ ~Before(cursor, Saved)
  <2>1. ~Before(next, cursor)
    BY <1>5, <1>7, BeforeOrder
  <2>2. QED
    BY <1>1, <1>3, <1>4, <1>7, <1>8, <2>1, BeforeOrder, Zenon DEF CursorsOrdered
<1>14. RowsPlaced'
  <2>1. ldb \in Table /\ cachedKeys \in Table /\ rsnap \in Table
    BY <1>1 DEF Types
  <2>2. ~Before(Committed, Committed) /\ ~Before(Saved, Saved) /\ ~Before(cursor, cursor)
    BY <1>7, <1>8, BeforeOrder
  <2>3. /\ Placed(files', ldb, Saved) /\ Placed(files', cachedKeys, Committed)
        /\ Placed(files', rsnap, Committed)
    BY <1>1, <1>4, <1>6, <1>7, <1>8, <1>13, <2>1, <2>2, KeepsPlaced, Zenon DEF RowsPlaced
  <2>4. Placed(files', tx.keys, next)
    BY <1>1, <1>2, <1>3, <1>6, <1>7, <1>13, <2>2, KeepsPlaced DEF RowsPlaced, InTx
  <2>5. Holds(files', b0, at)
    BY <1>6, <1>7, SMTT(30) DEF Holds
  <2>6. Placed(files', tx'.keys, next)
    BY <1>7, <1>10, <2>4, <2>5, Keys DEF Placed, RowsOf
  <2>7. QED
    BY <1>2, <1>8, <2>3, <2>6 DEF RowsPlaced
<1>15. CursorsOrdered'
  <2>1. /\ Covered(files', Saved) /\ Covered(files', Committed)
        /\ Covered(files', tx.old)
    BY <1>1, <1>2, <1>3, <1>4, <1>6, <1>7, <1>8, <1>13, KeepsCovered, Zenon
       DEF CursorsOrdered
  <2>2. Covered(files', next)
    BY <1>5, <1>6, <1>7, SMTT(60) DEF Covered, FileNum
  <2>3. QED
    BY <1>1, <1>2, <1>8, <1>9, <1>13, <2>1, <2>2 DEF CursorsOrdered, Running
<1>16. Pending'
  <2>1. RowsOf(tx'.keys) = RowsOf(tx.keys) \cup {b0}
    BY <1>3, <1>10, Keys DEF RowsOf
  <2>2. tx.blocks = RowsOf(tx.keys) \cup Range(tx.todo)
    BY <1>1, <1>2 DEF Pending, InTx
  <2>3. cursor'.file + Len(tx'.todo) <= MaxFile
    BY <1>2, <1>5, <1>7, <1>9
  <2>4. QED
    BY <1>2, <1>3, <1>9, <2>1, <2>2, <2>3, SMTT(30) DEF Pending, InTx, Committing
<1>17. Flushed'
  BY <1>2 DEF Flushed
<1>18. QED
  BY <1>12, <1>14, <1>15, <1>16, <1>17 DEF DBInv

\* Writing fails: no row names what is behind the cursor.
LEMMA WriteFailsInv ==
    ASSUME DBInv, WriteFails
    PROVE  DBInv'
<1> DEFINE at == Target
<1>1. Types /\ RowsPlaced /\ CursorsOrdered /\ Pending
  BY DEF DBInv
<1>2. /\ pc = "write" /\ pc' = "rollback" /\ tx.todo # <<>> /\ Fault
      /\ UNCHANGED <<ldb, cachedKeys, cachedRemove, rsnap, tx>>
  BY DEF WriteFails, cache, read
<1>3. \/ /\ cursor' = at /\ open' = FALSE /\ UNCHANGED <<files, synced>>
      \/ /\ cursor' = at /\ open' = TRUE
         /\ files' = [files EXCEPT ![at.file] = Contents(at.file)]
         /\ UNCHANGED synced
      \/ /\ cursor' = [at EXCEPT !.off = @ + 1] /\ open' = TRUE
         /\ files' = [files EXCEPT ![at.file] =
                        Overwrite(Contents(at.file), at.off, Torn)]
         /\ synced' = [synced EXCEPT ![at.file] = IF @ > at.off THEN at.off ELSE @]
  BY Zenon DEF WriteFails
<1>4. Covered(files, cursor) /\ ~Before(cursor, tx.old) /\ ~Before(cursor, Committed)
      /\ cursor.file + Len(tx.todo) <= MaxFile
  BY <1>1, <1>2 DEF CursorsOrdered, Running, Pending
<1>5. /\ at \in Loc /\ at.off < maxBlockFileSize /\ ~Before(at, cursor)
      /\ at.off <= Len(Contents(at.file))
  BY <1>1, <1>2, <1>4, TargetFits
<1> HIDE DEF at
<1>6. /\ at.file \in FileNum /\ at.file \in Nat /\ at.off \in Nat /\ cursor \in Loc
      /\ cursor.file \in FileNum /\ cursor.off \in Nat /\ tx.old \in Loc
      /\ files \in [FileNum -> Data \cup {None}]
  BY <1>1, <1>5, ConstantsAssumption DEF Types, Loc, FileNum, Transaction
<1>7. cursor' \in Loc /\ ~Before(cursor', at)
  <2>1. at \in Loc /\ ~Before(at, at)
    BY <1>5, BeforeOrder
  <2>2. [at EXCEPT !.off = @ + 1] \in Loc /\ ~Before([at EXCEPT !.off = @ + 1], at)
    BY <1>5, <1>6, ConstantsAssumption, SMTT(30) DEF Loc, Before
  <2>3. QED
    BY <1>3, <2>1, <2>2, Zenon
<1>8. /\ files' \in [FileNum -> Data \cup {None}]
      /\ Keeps(files, files', cursor)
  <2>1. CASE UNCHANGED files
    BY <1>4, <1>6, <2>1 DEF Keeps, Covered
  <2>2. CASE files' = [files EXCEPT ![at.file] = Contents(at.file)]
    <3>1. /\ Contents(at.file) \in Data
          /\ files[at.file] # None => Contents(at.file) = files[at.file]
      BY <1>1, <1>6, ContentsData
    <3>2. /\ files' \in [FileNum -> Data \cup {None}]
          /\ \A n \in FileNum : files[n] # None => files'[n] = files[n]
          /\ \A n \in FileNum : n # at.file => files'[n] = files[n]
      BY <1>6, <2>2, <3>1
    <3>3. \A n \in FileNum : n < cursor.file => files[n] # None
      BY <1>4 DEF Covered
    <3>4. QED
      BY <1>4, <1>6, <3>2, <3>3 DEF Keeps, Covered
  <2>3. CASE files' = [files EXCEPT ![at.file] =
                         Overwrite(Contents(at.file), at.off, Torn)]
    BY <1>1, <1>4, <1>5, <2>3, WriteKeeps, Zenon
  <2>4. QED
    BY <1>3, <2>1, <2>2, <2>3
<1>9. Types'
  <2>1. synced' = [n \in FileNum |-> synced'[n]]
    BY <1>1, <1>3 DEF Types
  <2>2. open' \in BOOLEAN
    BY <1>3, Zenon
  <2>3. faults' \in Nat
    BY <1>1, <1>2 DEF Fault, Types
  <2>4. QED
    BY <1>1, <1>2, <1>7, <1>8, <2>1, <2>2, <2>3 DEF Types
<1>10. /\ Saved' = Saved /\ Committed' = Committed
       /\ Saved \in Loc /\ Committed \in Loc
  BY <1>1, <1>2, LatestTable DEF Saved, Committed
<1>11. ~Before(cursor, Saved) /\ ~Before(cursor', Committed)
  <2>1. ~Before(cursor', cursor)
    BY <1>5, <1>6, <1>7, BeforeOrder
  <2>2. QED
    BY <1>1, <1>4, <1>6, <1>7, <1>10, <2>1, BeforeOrder, SMTT(30), Z3T(60) DEF CursorsOrdered
<1>12. RowsPlaced'
  <2>1. ldb \in Table /\ cachedKeys \in Table /\ rsnap \in Table
    BY <1>1 DEF Types
  <2>2. ~Before(Committed, Committed) /\ ~Before(Saved, Saved)
    BY <1>10, BeforeOrder
  <2>3. /\ Placed(files', ldb, Saved) /\ Placed(files', cachedKeys, Committed)
        /\ Placed(files', rsnap, Committed)
    BY <1>1, <1>4, <1>6, <1>8, <1>10, <1>11, <2>1, <2>2, KeepsPlaced, Zenon DEF RowsPlaced
  <2>4. QED
    BY <1>2, <1>10, <2>3 DEF RowsPlaced, InTx, Committing
<1>13. CursorsOrdered'
  <2>1. /\ Covered(files', Saved) /\ Covered(files', Committed)
        /\ Covered(files', tx.old)
    BY <1>1, <1>2, <1>4, <1>6, <1>8, <1>10, <1>11, KeepsCovered, Zenon DEF CursorsOrdered
  <2>2. QED
    BY <1>1, <1>2, <1>10, <1>11, <2>1, SMTT(30), Z3T(60) DEF CursorsOrdered, Running
<1>14. Pending' /\ Flushed'
  BY <1>2 DEF Pending, Flushed, InTx, Committing
<1>15. QED
  BY <1>9, <1>12, <1>13, <1>14 DEF DBInv

\* The files go back to where a transaction began, or where the saved cursor is.
LEMMA RollbackInv ==
    ASSUME DBInv, NEW old \in Loc, Covered(files, old), ~Before(old, Committed),
           handleRollback(old), pc' = "idle", tx' \in Transaction,
           UNCHANGED <<ldb, cachedKeys, cachedRemove, rsnap>>
    PROVE  DBInv'
<1>1. Types /\ RowsPlaced /\ CursorsOrdered
  BY DEF DBInv
<1>2. /\ files' \in [FileNum -> Data \cup {None}]
      /\ synced' = [n \in FileNum |-> synced'[n]]
      /\ cursor' = old /\ open' \in BOOLEAN /\ faults' \in Nat
      /\ Keeps(files, files', old)
  BY <1>1, RollbackKeeps
<1>3. Types'
  BY <1>1, <1>2 DEF Types
<1>4. /\ Saved' = Saved /\ Committed' = Committed
      /\ Saved \in Loc /\ Committed \in Loc
  BY <1>1, LatestTable, SMTT(30), Z3T(60) DEF Saved, Committed
<1>5. ~Before(old, Saved) /\ ~Before(old, old)
  BY <1>1, <1>4, BeforeOrder DEF CursorsOrdered
<1>6. RowsPlaced'
  <2>1. ldb \in Table /\ cachedKeys \in Table /\ rsnap \in Table
    BY <1>1 DEF Types
  <2>2. ~Before(Committed, Committed) /\ ~Before(Saved, Saved)
    BY <1>4, BeforeOrder
  <2>3. /\ Placed(files', ldb, Saved) /\ Placed(files', cachedKeys, Committed)
        /\ Placed(files', rsnap, Committed)
    BY <1>1, <1>2, <1>4, <1>5, <2>1, <2>2, KeepsPlaced DEF RowsPlaced
  <2>4. QED
    BY <1>4, <2>3 DEF RowsPlaced, InTx, Committing
<1>7. CursorsOrdered'
  <2>1. /\ Covered(files', Saved) /\ Covered(files', Committed)
        /\ Covered(files', old)
    BY <1>1, <1>2, <1>4, <1>5, KeepsCovered DEF CursorsOrdered
  <2>2. QED
    BY <1>1, <1>2, <1>4, <2>1 DEF CursorsOrdered, Running
<1>8. Pending' /\ Flushed'
  BY SMTT(30), Z3T(60) DEF Pending, Flushed, InTx, Committing
<1>9. QED
  BY <1>3, <1>6, <1>7, <1>8 DEF DBInv

\* The database goes down, with leveldb as it is or with the cache flushed.
LEMMA GoDownInv ==
    ASSUME DBInv, GoDown, ldb' = ldb \/ ldb' = Latest,
           synced' = [n \in FileNum |-> synced'[n]], faults' \in Nat
    PROVE  DBInv'
<1>1. Types /\ RowsPlaced /\ CursorsOrdered
  BY DEF DBInv
<1>2. /\ pc' = "down" /\ tx' = NoTx /\ cachedKeys' = NoKeys /\ cachedRemove' = {}
      /\ cursor' = [file |-> 0, off |-> 0] /\ open' = FALSE /\ rsnap' = NoKeys
      /\ UNCHANGED files
  BY DEF GoDown
<1>3. /\ ldb \in Table /\ cachedKeys \in Table /\ cachedRemove \in SUBSET {"meta"}
      /\ Saved \in Loc /\ Committed \in Loc
      /\ Latest \in Table /\ Latest["writeLoc"] = Committed
  BY <1>1, LatestTable DEF Types
<1>4. /\ ldb' \in Table /\ Saved' \in {Saved, Committed} /\ Saved' \in Loc
      /\ Committed' = Saved'
  BY <1>2, <1>3, NoKeysTable, Keys DEF Saved, Committed
<1>5. Placed(files, ldb', Saved')
  <2>1. CASE ldb' = ldb
    BY <1>1, <2>1 DEF RowsPlaced, Saved
  <2>2. CASE ldb' = Latest
    <3>1. Placed(files, ldb, Committed) /\ Placed(files, cachedKeys, Committed)
      BY <1>1, <1>3, PlacedLater DEF RowsPlaced, CursorsOrdered
    <3>2. Placed(files, Latest, Committed)
      BY <1>3, <3>1, ViewPlaced DEF Latest
    <3>3. QED
      BY <1>3, <2>2, <3>2 DEF Saved
  <2>3. QED
    BY <2>1, <2>2
<1>6. Types'
  <2>1. open' \in BOOLEAN
    BY <1>2, Zenon
  <2>2. ldb' \in Table /\ ldb'["writeLoc"] \in Loc
    BY <1>4 DEF Saved
  <2>3. QED
    BY <1>1, <1>2, <2>1, <2>2, NoKeysTable, NoTxTyped, SMTT(30), Z3T(60) DEF Types
<1>7. RowsPlaced'
  BY <1>2, <1>4, <1>5, NoKeysTable DEF RowsPlaced, Placed, InTx, Committing
<1>8. CursorsOrdered'
  BY <1>1, <1>2, <1>4, BeforeOrder DEF CursorsOrdered, Running
<1>9. Pending' /\ Flushed'
  BY <1>2 DEF Pending, Flushed, InTx, Committing
<1>10. QED
  BY <1>6, <1>7, <1>8, <1>9 DEF DBInv

\* Readers change nothing but their snapshot.
LEMMA ReaderInv ==
    ASSUME DBInv,
           UNCHANGED <<ldb, cachedKeys, cachedRemove, files, synced, cursor, open,
                       pc, tx, faults>>,
           rsnap' \in Table, Placed(files, rsnap', Committed)
    PROVE  DBInv'
<1>1. Types'
  BY DEF DBInv, Types
<1>2. Saved' = Saved /\ Committed' = Committed /\ Latest' = Latest
  BY Zenon DEF Saved, Committed, Latest
<1>3. /\ InTx' = InTx /\ Running' = Running /\ Committing' = Committing
  BY DEF InTx, Running, Committing
<1>4. RowsPlaced'
  BY <1>2, <1>3 DEF DBInv, RowsPlaced
<1>5. CursorsOrdered'
  BY <1>2, <1>3 DEF DBInv, CursorsOrdered
<1>6. Pending'
  BY <1>3, Zenon DEF DBInv, Pending
<1>7. Flushed'
  BY <1>2, Zenon DEF DBInv, Flushed
<1>8. QED
  BY <1>1, <1>4, <1>5, <1>6, <1>7 DEF DBInv

-----------------------------------------------------------------------------
\* A set of numbers has a least one.
LEMMA LeastNumber ==
    ASSUME NEW T \in SUBSET Nat, T # {}
    PROVE  \E x \in T : \A y \in T : x <= y
<1> DEFINE R == {p \in Nat \X Nat : p[1] < p[2]}
<1>1. IsWellFoundedOn(R, Nat)
  BY NatLessThanWellFounded DEF OpToRel
<1>2. \A a, b \in Nat : a < b => <<a, b>> \in R
  BY Zenon
<1> HIDE DEF R
<1>3. PICK x \in T : \A y \in T : ~(<<y, x>> \in R)
  BY <1>1, WFMin, Zenon
<1>4. \A y \in T : ~(y < x)
  BY <1>2, <1>3, Zenon
<1>5. QED
  BY <1>4

\* scanBlockFiles finds the files up to the first gap.
LEMMA ScannedFiles ==
    ASSUME Types
    PROVE  /\ Scanned \in Loc
           /\ \A n \in FileNum :
                 (\A m \in 0..n : files[m] # None) =>
                     /\ n <= Scanned.file
                     /\ Scanned.off = Len(files[Scanned.file])
           /\ Scanned.file > 0 => \A m \in 0..Scanned.file : files[m] # None
<1> DEFINE found == {n \in FileNum : \A m \in 0..n : files[m] # None}
           last == CHOOSE n \in found : \A m \in found : m <= n
<1>1. MaxFile \in Nat /\ maxBlockFileSize \in Nat /\ FileNum = 0..MaxFile
  BY ConstantsAssumption DEF FileNum
<1>2. CASE found = {}
  <2>1. Scanned = [file |-> 0, off |-> 0]
    BY <1>2 DEF Scanned
  <2>2. QED
    BY <1>2, <2>1, NoTxTyped
<1>3. CASE found # {}
  <2>1. \E n \in found : \A m \in found : m <= n
    <3> DEFINE T == {MaxFile - n : n \in found}
    <3>1. T \in SUBSET Nat /\ T # {}
      BY <1>1, <1>3
    <3>2. PICK x \in T : \A y \in T : x <= y
      BY <3>1, LeastNumber, Zenon
    <3>3. PICK n \in found : x = MaxFile - n
      OBVIOUS
    <3>4. ASSUME NEW m \in found PROVE m <= n
      <4>1. MaxFile - m \in T
        OBVIOUS
      <4>2. MaxFile - n <= MaxFile - m
        BY <3>2, <3>3, <4>1
      <4>3. QED
        BY <1>1, <4>2
    <3>5. QED
      BY <3>4
  <2>2. last \in found /\ \A m \in found : m <= last
    BY <2>1
  <2> HIDE DEF last
  <2>3. last \in FileNum /\ \A m \in 0..last : files[m] # None
    BY <2>2
  <2>4. files[last] \in Data
    BY <1>1, <2>3 DEF Types
  <2>5. Len(files[last]) \in 0..maxBlockFileSize
    BY <1>1, <2>4, LenProperties DEF Data
  <2>6. Scanned = [file |-> last, off |-> Len(files[last])]
    BY <1>3 DEF Scanned, last
  <2>7. Scanned \in Loc
    BY <2>3, <2>5, <2>6 DEF Loc
  <2>8. QED
    BY <2>2, <2>3, <2>6, <2>7
<1>4. QED
  BY <1>2, <1>3

\* What it finds is not behind a position up to which the files are complete.
LEMMA ScannedNotBehind ==
    ASSUME Types, NEW p \in Loc, Covered(files, p)
    PROVE  ~Before(Scanned, p)
<1>1. /\ p.file \in FileNum /\ p.off \in Nat /\ p.file \in Nat
      /\ Scanned.file \in Nat /\ Scanned.off \in Nat
  BY ScannedFiles, ConstantsAssumption DEF Loc, FileNum
<1>2. CASE p.off = 0
  BY <1>1, <1>2 DEF Covered, Before
<1>3. CASE p.off > 0
  <2>1. \A m \in 0..p.file : files[m] # None
    <3> TAKE m \in 0..p.file
    <3>1. m \in FileNum /\ (m < p.file \/ m = p.file)
      BY <1>1, ConstantsAssumption, SMTT(30) DEF FileNum
    <3>2. QED
      BY <1>3, <3>1 DEF Covered
  <2>2. p.file <= Scanned.file /\ Scanned.off = Len(files[Scanned.file])
    BY <1>1, <2>1, ScannedFiles
  <2>3. CASE Scanned.file = p.file
    BY <1>1, <1>3, <2>2, <2>3 DEF Covered, Before
  <2>4. CASE Scanned.file # p.file
    BY <1>1, <2>2, <2>4 DEF Before
  <2>5. QED
    BY <2>3, <2>4
<1>4. QED
  BY <1>1, <1>2, <1>3

\* The database is opened: the cursor is where the files end.
LEMMA OpenDBInv ==
    ASSUME DBInv, OpenDB
    PROVE  DBInv'
<1>1. /\ pc = "down" /\ pc' = "reconcile" /\ cursor' = Scanned
      /\ UNCHANGED <<ldb, cachedKeys, cachedRemove, files, synced, open, tx, rsnap,
                     faults>>
  BY DEF OpenDB, cache, read
<1>2. Types'
  BY <1>1, ScannedFiles DEF DBInv, Types
<1>3. Saved' = Saved /\ Committed' = Committed
  BY <1>1 DEF Saved, Committed
<1>4. RowsPlaced'
  BY <1>1, <1>3 DEF DBInv, RowsPlaced, InTx, Committing
<1>5. CursorsOrdered'
  BY <1>1, <1>3 DEF DBInv, CursorsOrdered, Running
<1>6. Pending' /\ Flushed'
  BY <1>1, SMTT(30), Z3T(60) DEF DBInv, Pending, Flushed, InTx, Committing
<1>7. QED
  BY <1>2, <1>4, <1>5, <1>6 DEF DBInv

\* Every step keeps the invariant.
LEMMA StepInv ==
    ASSUME DBInv, [Next]_vars
    PROVE  DBInv'
<1>1. Types /\ RowsPlaced /\ CursorsOrdered /\ Flushed
  BY DEF DBInv
<1>2. CASE Write
  <2>1. CASE RollbackFiles
    <3>1. /\ pc = "rollback" /\ handleRollback(tx.old) /\ pc' = "idle" /\ tx' = NoTx
          /\ UNCHANGED <<ldb, cachedKeys, cachedRemove, rsnap>>
      BY <2>1 DEF RollbackFiles, cache, read
    <3>2. tx.old \in Loc /\ Covered(files, tx.old) /\ ~Before(tx.old, Committed)
      BY <1>1, <3>1 DEF Types, Transaction, CursorsOrdered
    <3>3. QED
      BY <3>1, <3>2, NoTxTyped, RollbackInv, SMTT(30), Z3T(60)
  <2>2. QED
    BY <1>2, <2>1, WriteBlockInv, WriteFailsInv, StoreCursorInv, CommitCachedInv,
       FlushSyncInv, FlushCacheInv, FlushClearInv, CommitDirectInv, EndsInv DEF Write
<1>3. CASE Reader
  <2>1. /\ rsnap \in Table /\ ldb \in Table /\ cachedKeys \in Table
        /\ cachedRemove \in SUBSET {"meta"}
        /\ Saved \in Loc /\ Committed \in Loc
    BY <1>1, LatestTable DEF Types
  <2>2. UNCHANGED <<ldb, cachedKeys, cachedRemove, files, synced, cursor, open,
                    pc, tx, faults>>
    BY <1>3 DEF Reader, ReaderLdb, ReaderCache, ReaderCloses, cache, store
  <2>3. Placed(files, rsnap, Committed) /\ Placed(files, ldb, Committed)
        /\ Placed(files, cachedKeys, Committed)
    BY <1>1, <2>1, PlacedLater DEF RowsPlaced, CursorsOrdered
  <2>4. rsnap' \in {ldb, View(rsnap, cachedKeys, cachedRemove), NoKeys}
    BY <1>3 DEF Reader, ReaderLdb, ReaderCache, ReaderCloses
  <2>5. rsnap' \in Table /\ Placed(files, rsnap', Committed)
    <3>1. Placed(files, NoKeys, Committed)
      BY NoKeysTable DEF Placed
    <3>2. QED
      BY <2>1, <2>3, <2>4, <3>1, NoKeysTable, ViewTable, ViewPlaced
  <2>6. QED
    BY <2>2, <2>5, ReaderInv
<1>4. CASE Crash \/ Close
  <2>1. /\ GoDown /\ (ldb' = ldb \/ ldb' = Latest)
        /\ synced' = synced \/ synced' = Synced
        /\ faults' = faults \/ faults' = faults + 1
    BY <1>4 DEF Crash, Close, Fault
  <2>2. synced' = [n \in FileNum |-> synced'[n]]
    BY <1>1, <2>1, SyncedTyped, SMTT(30), Z3T(60) DEF Types
  <2>3. faults' \in Nat
    BY <1>1, <2>1 DEF Types
  <2>4. QED
    BY <2>1, <2>2, <2>3, GoDownInv
<1>5. CASE Reconcile
  <2>1. /\ pc = "reconcile" /\ handleRollback(Saved) /\ pc' = "idle"
        /\ UNCHANGED <<ldb, cachedKeys, cachedRemove, tx, rsnap>>
    BY <1>5 DEF Reconcile, cache, read, Saved
  <2>2. Committed = Saved /\ Saved \in Loc /\ Covered(files, Saved)
        /\ ~Before(Saved, Committed)
    BY <1>1, <2>1, NoKeysTable, Keys, LatestTable, BeforeOrder, Zenon
       DEF Flushed, Committed, CursorsOrdered
  <2>3. tx' \in Transaction
    BY <1>1, <2>1 DEF Types
  <2>4. QED
    BY <2>1, <2>2, <2>3, RollbackInv
<1>6. CASE UNCHANGED vars
  BY <1>1, <1>6, ReaderInv DEF vars, Types, RowsPlaced
<1>7. QED
  BY <1>2, <1>3, <1>4, <1>5, <1>6, BeginInv, EndsInv, OpenDBInv DEF Next

\* A new database.
LEMMA InitInv == Init => DBInv
<1> SUFFICES ASSUME Init PROVE DBInv
  OBVIOUS
<1> DEFINE zero == [file |-> 0, off |-> 0]
<1>1. /\ ldb = [NoKeys EXCEPT !["writeLoc"] = zero]
      /\ cachedKeys = NoKeys /\ cachedRemove = {} /\ rsnap = NoKeys
      /\ files = [n \in FileNum |-> None] /\ synced = [n \in FileNum |-> 0]
      /\ cursor = zero /\ open = FALSE /\ pc = "idle" /\ tx = NoTx /\ faults = 0
  BY DEF Init
<1>2. zero \in Loc
  BY NoTxTyped
<1>3. ldb \in Table /\ ldb["writeLoc"] = zero /\ RowsOf(ldb) = {}
  BY <1>1, <1>2, Keys DEF NoKeys, Table, RowsOf
<1>4. Saved = zero /\ Committed = zero
  BY <1>1, <1>3, NoKeysTable, Keys DEF Saved, Committed
<1>5. Types
  <2>1. open \in BOOLEAN
    BY <1>1, Zenon
  <2>2. synced = [n \in FileNum |-> synced[n]]
    BY <1>1
  <2>3. files \in [FileNum -> Data \cup {None}]
    BY <1>1
  <2>4. QED
    BY <1>1, <1>2, <1>3, <2>1, <2>2, <2>3, NoKeysTable, NoTxTyped DEF Types
<1>6. RowsPlaced
  BY <1>1, <1>3, NoKeysTable, Zenon DEF RowsPlaced, Placed, InTx, Committing
<1>7. CursorsOrdered
  <2>1. Covered(files, zero) /\ ~Before(zero, zero)
    BY <1>2, BeforeOrder DEF Covered, FileNum
  <2>2. QED
    BY <1>1, <1>4, <2>1 DEF CursorsOrdered, Running
<1>8. Pending /\ Flushed
  BY <1>1, SMTT(30), Z3T(60) DEF Pending, Flushed, InTx, Committing
<1>9. QED
  BY <1>5, <1>6, <1>7, <1>8 DEF DBInv

\* The inductive invariant always holds.
THEOREM DBInvariant == Spec => []DBInv
BY InitInv, StepInv, PTL DEF Spec

\* Every row that a transaction can see, and every row a crash would leave,
\* leads to the data of its block, whatever was rolled back or failed.
THEOREM RowsAlwaysReadable == Spec => []RowsReadable
<1>1. DBInv => RowsReadable
  <2> SUFFICES ASSUME DBInv PROVE RowsReadable
    OBVIOUS
  <2>1. /\ ldb \in Table /\ cachedKeys \in Table /\ cachedRemove \in SUBSET {"meta"}
        /\ Saved \in Loc /\ Committed \in Loc
    BY LatestTable DEF DBInv, Types
  <2>2. Placed(files, ldb, Committed) /\ Placed(files, cachedKeys, Committed)
        /\ Placed(files, rsnap, Committed)
    BY <2>1, PlacedLater DEF DBInv, RowsPlaced, CursorsOrdered
  <2>3. Placed(files, Latest, Committed)
    BY <2>1, <2>2, ViewPlaced DEF Latest
  <2>4. QED
    BY <2>2, <2>3, ZenonT(60) DEF RowsReadable, Readable, Placed, Holds
<1>2. QED
  BY <1>1, DBInvariant, PTL

\* At every moment a crash leaves files that reconcileDB accepts.
THEOREM AlwaysReconcilable == Spec => []CrashReconcilable
<1>1. DBInv => CrashReconcilable
  BY LatestTable, ScannedNotBehind DEF DBInv, CursorsOrdered, CrashReconcilable,
                                       Reconcilable, Saved
<1>2. QED
  BY <1>1, DBInvariant, PTL

-----------------------------------------------------------------------------
\* Rows of two tables that name synced data.
LEMMA SyncedView ==
    ASSUME NEW sy, NEW n, NEW l \in Table, NEW m \in Table, NEW r \in SUBSET {"meta"},
           SyncedRows(sy, l, n), SyncedRows(sy, m, n)
    PROVE  SyncedRows(sy, View(l, m, r), n)
<1>1. \A b \in Block : View(l, m, r)[b] = IF m[b] # None THEN m[b] ELSE l[b]
  BY ViewTable, Keys
<1>2. QED
  BY <1>1 DEF SyncedRows, RowsOf

\* A file that is synced to its end.
LEMMA SyncedToEnd ==
    ASSUME NEW fs, NEW sy, NEW n, NEW p, NEW m, Placed(fs, m, p), sy[n] = Len(fs[n])
    PROVE  SyncedRows(sy, m, n)
BY Zenon DEF SyncedRows, Placed, Holds

\* The rows of a running database, all of which lie before the cursor.
LEMMA RowsBehindCursor ==
    ASSUME DBInv, Running
    PROVE  /\ ldb \in Table /\ cachedKeys \in Table /\ tx.keys \in Table
           /\ cachedRemove \in SUBSET {"meta"} /\ tx.remove \in SUBSET {"meta"}
           /\ cursor \in Loc /\ cursor.file \in FileNum
           /\ ~Before(cursor, Saved) /\ ~Before(cursor, Committed)
           /\ Placed(files, ldb, cursor) /\ Placed(files, cachedKeys, cursor)
           /\ InTx => Placed(files, tx.keys, cursor)
<1>1. /\ ldb \in Table /\ cachedKeys \in Table /\ tx.keys \in Table
      /\ cachedRemove \in SUBSET {"meta"} /\ tx.remove \in SUBSET {"meta"}
      /\ cursor \in Loc /\ Saved \in Loc /\ Committed \in Loc
      /\ cursor.file \in FileNum
  BY LatestTable DEF DBInv, Types, Transaction, Loc
<1>2. ~Before(cursor, Saved) /\ ~Before(cursor, Committed)
  BY <1>1, BeforeOrder, Zenon DEF DBInv, CursorsOrdered
<1>3. QED
  BY <1>1, <1>2, PlacedLater, Zenon DEF DBInv, RowsPlaced

\* syncBlocks syncs the file being written, or that file is not open.
LEMMA SyncedCursor ==
    ASSUME DBInv, Running, SyncInv, faults = 0
    PROVE  /\ SyncedRows(Synced, ldb, cursor.file)
           /\ SyncedRows(Synced, cachedKeys, cursor.file)
           /\ InTx => SyncedRows(Synced, tx.keys, cursor.file)
<1>1. CASE open
  <2>1. Synced[cursor.file] = Len(files[cursor.file])
    BY <1>1, RowsBehindCursor DEF Synced, DBInv, Types
  <2>2. QED
    BY <2>1, RowsBehindCursor, SyncedToEnd, Zenon
<1>2. CASE ~open
  BY <1>2 DEF Synced, SyncInv
<1>3. QED
  BY <1>1, <1>2

\* What lies behind a cursor that is in an earlier file.
LEMMA NextFileThere ==
    ASSUME NEW fs, NEW p \in Loc, NEW q \in Loc, Covered(fs, q), ~Before(q, p),
           q.file # p.file
    PROVE  p.file < MaxFile /\ fs[p.file + 1] # None
<1>1. /\ p.file \in Nat /\ q.file \in Nat /\ q.off \in Nat /\ MaxFile \in Nat
      /\ p.file <= MaxFile /\ q.file <= MaxFile /\ FileNum = 0..MaxFile
  BY ConstantsAssumption DEF Loc, FileNum
<1>2. p.file < q.file
  BY <1>1 DEF Before
<1>3. CASE p.file + 1 = q.file
  BY <1>1, <1>2, <1>3 DEF Covered
<1>4. CASE p.file + 1 # q.file
  BY <1>1, <1>2, <1>4 DEF Covered
<1>5. QED
  BY <1>1, <1>2, <1>3, <1>4

\* The database goes down.
LEMMA GoDownSync ==
    ASSUME DBInv, SyncInv, GoDown, faults' = faults,
           \/ UNCHANGED <<ldb, synced>>
           \/ Running /\ ldb' = Latest /\ synced' = Synced
    PROVE  SyncInv'
<1>1. /\ pc # "down" /\ pc' = "down" /\ UNCHANGED files
  BY DEF GoDown
<1>2. Saved \in Loc /\ Committed \in Loc /\ Latest["writeLoc"] = Committed
  BY LatestTable DEF DBInv
<1>3. SUFFICES ASSUME faults = 0
               PROVE  \/ SyncedRows(synced', ldb', Saved'.file)
                      \/ Saved'.file < MaxFile /\ files[Saved'.file + 1] # None
  BY <1>1, Zenon DEF SyncInv, Running, Saved
<1>4. CASE ~Running
  BY <1>3, <1>4, Zenon DEF SyncInv, Saved
<1>5. CASE Running
  <2>1. Covered(files, cursor)
    BY <1>3, <1>5, SMTT(30), Z3T(60) DEF SyncInv, DBInv, CursorsOrdered
  <2>2. CASE UNCHANGED <<ldb, synced>>
    <3>1. Saved' = Saved /\ SyncedRows(synced', ldb', cursor.file)
      BY <1>3, <1>5, <2>2, Zenon DEF SyncInv, Saved
    <3>2. QED
      BY <1>2, <1>5, <2>1, <3>1, RowsBehindCursor, NextFileThere, Zenon
  <2>3. CASE ldb' = Latest /\ synced' = Synced
    <3>1. Saved' = Committed
      BY <1>2, <2>3 DEF Saved
    <3>2. SyncedRows(synced', ldb', cursor.file)
      BY <1>3, <1>5, <2>3, SyncedCursor, SyncedView, RowsBehindCursor, Zenon DEF Latest
    <3>3. QED
      BY <1>2, <1>5, <2>1, <3>1, <3>2, RowsBehindCursor, NextFileThere, Zenon
  <2>4. QED
    BY <2>2, <2>3
<1>6. QED
  BY <1>4, <1>5

\* reconcileDB: if the file of the saved cursor was left for a new one, the
\* files are ahead, and the rollback ends with a sync.
LEMMA ReconcileSync ==
    ASSUME DBInv, SyncInv, Reconcile
    PROVE  SyncInv'
<1>1. /\ pc = "reconcile" /\ pc' = "idle" /\ handleRollback(Saved)
      /\ UNCHANGED <<ldb, cachedKeys, cachedRemove, tx, rsnap>>
  BY DEF Reconcile, cache, read, Saved
<1>2. Types /\ Saved \in Loc /\ Covered(files, Saved) /\ Placed(files, ldb, Saved)
      /\ cachedKeys = NoKeys /\ cursor \in Loc /\ cursor = Scanned
  BY <1>1, LatestTable, Zenon DEF DBInv, CursorsOrdered, RowsPlaced, Flushed, Types, SyncInv
<1>3. /\ Saved.file \in FileNum /\ Saved.off \in Nat /\ Saved.file \in Nat
      /\ cursor.file \in Nat /\ MaxFile \in Nat /\ FileNum = 0..MaxFile
  BY <1>2, ConstantsAssumption DEF Loc, FileNum
<1>4. cursor' = Saved /\ faults' >= faults /\ faults \in Nat /\ faults' \in Nat
  BY <1>1, <1>2, RollbackKeeps DEF Types
<1>5. \A b \in RowsOf(ldb) : ldb[b] \in Loc /\ Before(ldb[b], Saved)
  BY <1>2 DEF Placed, RowsOf, Types, Table
<1>6. ASSUME faults' = 0 PROVE SyncedRows(synced', ldb, Saved.file)
  <2>1. faults = 0
    BY <1>4, <1>6
  <2>2. CASE cursor = Saved
    <3>1. UNCHANGED synced
      BY <1>1, <2>2 DEF handleRollback
    <3>2. CASE SyncedRows(synced, ldb, Saved.file)
      BY <3>1, <3>2
    <3>3. CASE Saved.file < MaxFile /\ files[Saved.file + 1] # None
      <4>1. CASE Saved.off = 0
        BY <1>3, <1>5, <4>1 DEF SyncedRows, Before, Loc
      <4>2. CASE Saved.off > 0
        <5>1. \A m \in 0..(Saved.file + 1) : files[m] # None
          <6> TAKE m \in 0..(Saved.file + 1)
          <6>1. m \in FileNum
                /\ (m < Saved.file \/ m = Saved.file \/ m = Saved.file + 1)
            BY <1>3, <3>3
          <6>2. QED
            BY <1>2, <3>3, <4>2, <6>1 DEF Covered
        <5>2. Saved.file + 1 <= Scanned.file
          BY <1>2, <1>3, <3>3, <5>1, ScannedFiles
        <5>3. QED
          BY <1>2, <1>3, <2>2, <5>2
      <4>3. QED
        BY <1>3, <4>1, <4>2
    <3>4. QED
      BY <1>1, <2>1, <3>2, <3>3 DEF SyncInv, Running
  <2>3. CASE cursor # Saved
    <3>1. ~Fault
      BY <1>6, <2>1 DEF Fault
    <3>2. PICK f \in Saved.file..cursor.file :
            \/ f > Saved.file /\ files[f] = None
            \/ /\ f = Saved.file
               /\ synced' = [[n \in FileNum |-> IF n > f /\ n <= cursor.file THEN 0
                                                ELSE synced[n]]
                               EXCEPT ![f] = Saved.off]
      BY <1>1, <2>3, <3>1, Zenon DEF handleRollback
    <3>3. CASE f > Saved.file /\ files[f] = None
      <4>1. Scanned.file > 0 /\ f \in 0..Scanned.file
        BY <1>2, <1>3, <3>3
      <4>2. QED
        BY <1>2, <3>3, <4>1, ScannedFiles
    <3>4. CASE f = Saved.file
      <4>1. synced'[Saved.file] = Saved.off
        BY <1>3, <3>2, <3>4
      <4>2. QED
        BY <1>3, <1>5, <4>1 DEF SyncedRows, Before
    <3>5. QED
      BY <1>3, <3>2, <3>3, <3>4
  <2>4. QED
    BY <2>2, <2>3
<1>7. SyncedRows(synced', NoKeys, Saved.file)
  BY NoKeysTable DEF SyncedRows
<1>8. QED
  BY <1>1, <1>2, <1>4, <1>6, <1>7, Zenon DEF SyncInv, Running, InTx, Committing

\* A block is written behind every synced row.
LEMMA WriteBlockSync ==
    ASSUME DBInv, SyncInv, WriteBlock
    PROVE  SyncInv'
<1> DEFINE at == Target
<1>1. /\ pc = "write" /\ pc' = pc /\ tx.todo # <<>> /\ open' = TRUE
      /\ UNCHANGED <<ldb, faults>>
      /\ synced' = [synced EXCEPT ![at.file] = IF @ > at.off THEN at.off ELSE @]
      /\ cursor' = [at EXCEPT !.off = @ + 1]
  BY DEF WriteBlock
<1>2. Covered(files, cursor) /\ cursor.file + Len(tx.todo) <= MaxFile
      /\ synced = [n \in FileNum |-> synced[n]]
  BY <1>1 DEF DBInv, CursorsOrdered, Running, Pending, Types
<1>3. /\ at \in Loc /\ ~Before(at, cursor)
  BY <1>1, <1>2, TargetFits DEF DBInv
<1> HIDE DEF at
<1>4. /\ at.file \in FileNum /\ at.file \in Nat /\ at.off \in Nat
  BY <1>3, ConstantsAssumption DEF Loc, FileNum
<1>5. cursor'.file = at.file
  BY <1>1, <1>3 DEF Loc
<1>6. ASSUME faults = 0 PROVE SyncedRows(synced', ldb, at.file)
  <2> SUFFICES ASSUME NEW b \in RowsOf(ldb), ldb[b].file = at.file
               PROVE  ldb[b].off < synced'[at.file]
    BY DEF SyncedRows
  <2>1. ldb[b] \in Loc /\ Before(ldb[b], cursor) /\ cursor \in Loc
    BY <1>1, RowsBehindCursor DEF Running, Placed, RowsOf, Table
  <2>2. /\ cursor.file = at.file /\ cursor.off <= at.off /\ ldb[b].off < cursor.off
        /\ ldb[b].off \in Nat /\ cursor.off \in Nat
    BY <1>3, <2>1, ConstantsAssumption DEF Loc, FileNum, Before
  <2>3. ldb[b].off < synced[at.file]
    BY <1>1, <1>6, <2>2 DEF SyncInv, Running, SyncedRows
  <2>4. synced'[at.file] \in {at.off, synced[at.file]}
    BY <1>1, <1>2, <1>4
  <2>5. QED
    BY <1>4, <2>2, <2>3, <2>4
<1>7. QED
  BY <1>1, <1>5, <1>6 DEF SyncInv, Running

\* Every step keeps rows synced before they reach leveldb.
LEMMA SyncStep ==
    ASSUME DBInv, SyncInv, [Next]_vars
    PROVE  SyncInv'
<1>1. /\ faults \in Nat /\ tx.keys \in Table /\ cachedKeys \in Table
  BY DEF DBInv, Types, Transaction
<1>2. CASE Begin
  <2>1. /\ pc = "idle" /\ pc' = "write"
        /\ UNCHANGED <<ldb, cachedKeys, synced, cursor, open, faults>>
    BY <1>2 DEF Begin, cache, store
  <2>3. RowsOf(tx'.keys) = {}
    BY <1>2, BegunTx
  <2>4. SyncedRows(synced', tx'.keys, cursor'.file)
    BY <2>3 DEF SyncedRows
  <2>5. QED
    BY <2>1, <2>4, Zenon DEF SyncInv, Running
<1>3. CASE Rollback
  BY <1>3, Zenon DEF Rollback, cache, store, SyncInv, Running, InTx, Committing
<1>4. CASE WriteFails \/ CommitFails
  <2>1. faults' > 0 /\ pc' \in {"rollback", "idle"}
    BY <1>1, <1>4 DEF WriteFails, CommitFails, Fault
  <2>2. faults' # 0 /\ pc' # "reconcile"
    BY <2>1
  <2>3. QED
    BY <2>1, <2>2, Zenon DEF SyncInv
<1>5. CASE RollbackFiles
  <2>1. pc = "rollback" /\ pc' = "idle" /\ handleRollback(tx.old)
    BY <1>5 DEF RollbackFiles
  <2>2. faults' >= faults /\ faults' \in Nat /\ faults \in Nat /\ faults > 0
    BY <2>1, RollbackKeeps, Zenon DEF SyncInv, DBInv, Types, Transaction, CursorsOrdered
  <2>3. faults' # 0 /\ pc' # "rollback" /\ pc' # "reconcile"
    BY <2>1, <2>2
  <2>4. QED
    BY <2>3, Zenon DEF SyncInv
<1>6. CASE StoreCursor
  <2>1. /\ pc = "write" /\ pc' = "commit" /\ tx' = [tx EXCEPT !.keys["writeLoc"] = cursor]
        /\ UNCHANGED <<ldb, cachedKeys, synced, cursor, open, faults>>
    BY <1>6 DEF StoreCursor, cache, store
  <2>2. \A b \in Block : tx'.keys[b] = tx.keys[b]
    BY <1>1, <2>1, Keys DEF DBInv, Types, Transaction, Table
  <2>3. SyncedRows(synced, tx.keys, cursor.file) => SyncedRows(synced, tx'.keys, cursor.file)
    BY <2>2 DEF SyncedRows, RowsOf
  <2>4. QED
    BY <2>1, <2>3 DEF SyncInv, Running, InTx, Committing
<1>7. CASE CommitCached
  <2>1. /\ pc = "commit" /\ pc' = "idle" /\ Merged
        /\ UNCHANGED <<ldb, synced, cursor, open, faults>>
    BY <1>7 DEF CommitCached, store
  <2>2. \A b \in Block : cachedKeys'[b] = IF tx.keys[b] # None THEN tx.keys[b]
                                          ELSE cachedKeys[b]
    BY <2>1, MergedTable, Keys DEF DBInv
  <2>3. SyncedRows(synced, tx.keys, cursor.file) /\ SyncedRows(synced, cachedKeys, cursor.file)
        => SyncedRows(synced, cachedKeys', cursor.file)
    BY <2>2, ZenonT(60) DEF SyncedRows, RowsOf
  <2>4. QED
    BY <2>1, <2>3, Zenon DEF SyncInv, Running, InTx, Committing
<1>8. CASE FlushSync
  <2>1. /\ pc = "commit" /\ pc' = "flush" /\ synced' = Synced
        /\ UNCHANGED <<ldb, cachedKeys, cursor, open, tx, faults>>
    BY <1>8 DEF FlushSync, cache
  <2>2. QED
    BY <2>1, SyncedCursor, Zenon DEF SyncInv, Running, InTx, Committing
<1>9. CASE FlushCache
  <2>1. /\ pc = "flush" /\ pc' = "clear" /\ ldb' = Latest
        /\ UNCHANGED <<cachedKeys, synced, cursor, open, tx, faults>>
    BY <1>9 DEF FlushCache, cache, store
  <2>2. ASSUME faults = 0 PROVE SyncedRows(synced, Latest, cursor.file)
    <3>1. SyncedRows(synced, ldb, cursor.file) /\ SyncedRows(synced, cachedKeys, cursor.file)
      BY <2>1, <2>2 DEF SyncInv, Running
    <3>2. QED
      BY <2>1, <3>1, SyncedView, RowsBehindCursor, Zenon DEF Latest, Running
  <2>3. QED
    BY <2>1, <2>2, Zenon DEF SyncInv, Running, InTx, Committing
<1>10. CASE FlushClear
  <2>1. /\ pc = "clear" /\ pc' = "direct" /\ cachedKeys' = NoKeys
        /\ UNCHANGED <<ldb, synced, cursor, open, tx, faults>>
    BY <1>10 DEF FlushClear, store
  <2>2. SyncedRows(synced, NoKeys, cursor.file)
    BY NoKeysTable DEF SyncedRows
  <2>3. QED
    BY <2>1, <2>2, Zenon DEF SyncInv, Running, InTx, Committing
<1>11. CASE CommitDirect
  <2>1. /\ pc = "direct" /\ pc' = "idle" /\ ldb' = View(ldb, tx.keys, tx.remove)
        /\ UNCHANGED <<cachedKeys, synced, cursor, open, faults>>
    BY <1>11 DEF CommitDirect, cache, store
  <2>2. ASSUME faults = 0 PROVE SyncedRows(synced, ldb', cursor.file)
    <3>1. SyncedRows(synced, ldb, cursor.file) /\ SyncedRows(synced, tx.keys, cursor.file)
      BY <2>1, <2>2 DEF SyncInv, Running, InTx, Committing
    <3>2. QED
      BY <2>1, <3>1, SyncedView, RowsBehindCursor, Zenon DEF Running
  <2>3. QED
    BY <2>1, <2>2, Zenon DEF SyncInv, Running, InTx, Committing
<1>12. CASE Reader \/ UNCHANGED vars
  <2>1. UNCHANGED <<ldb, cachedKeys, files, synced, cursor, open, pc, tx, faults>>
    BY <1>12, Zenon DEF Reader, ReaderLdb, ReaderCache, ReaderCloses, cache, store, vars
  <2>2. Scanned' = Scanned /\ Saved' = Saved
    BY <2>1, Zenon DEF Scanned, Saved
  <2>3. QED
    BY <2>1, <2>2, Zenon DEF SyncInv, Running, InTx, Committing
<1>13. CASE Crash
  BY <1>13, GoDownSync DEF Crash
<1>14. CASE Close
  <2>1. Running /\ GoDown
    BY <1>14 DEF Close, Running
  <2>2. CASE faults' = faults
    BY <1>1, <1>14, <2>1, <2>2, GoDownSync DEF Close, Fault
  <2>3. CASE faults' # faults
    <3>1. faults' > 0 /\ pc' = "down"
      BY <1>1, <1>14, <2>3 DEF Close, Fault, GoDown
    <3>2. faults' # 0 /\ pc' # "reconcile" /\ (pc' = "rollback" => faults' > 0)
      BY <3>1
    <3>3. QED
      BY <3>2, Zenon DEF SyncInv
  <2>4. QED
    BY <2>2, <2>3
<1>15. CASE OpenDB
  BY <1>15, Zenon DEF OpenDB, SyncInv, Running, Scanned, Saved
<1>16. QED
  BY <1>2, <1>3, <1>4, <1>5, <1>6, <1>7, <1>8, <1>9, <1>10, <1>11, <1>12, <1>13,
     <1>14, <1>15, WriteBlockSync, ReconcileSync DEF Next, Write

\* While no I/O error occurred, a row in leveldb whose block lies in the file
\* being written names synced data.
THEOREM CurrentFileAlwaysSynced == Spec => []CurrentFileSynced
<1>1. Init => SyncInv
  <2> SUFFICES ASSUME Init PROVE SyncInv
    OBVIOUS
  <2>1. /\ pc = "idle" /\ RowsOf(ldb) = {} /\ RowsOf(cachedKeys) = {}
    BY Keys, NoKeysTable DEF Init, RowsOf, NoKeys
  <2>2. QED
    BY <2>1, Zenon DEF SyncInv, SyncedRows, Running, InTx, Committing
<1>2. DBInv /\ SyncInv => CurrentFileSynced
  BY DEF SyncInv, CurrentFileSynced, SyncedRows, Running
<1>3. QED
  BY <1>1, <1>2, DBInvariant, SyncStep, PTL DEF Spec

-----------------------------------------------------------------------------
\* The state of TxStore that a state of the database stands for.
AbsState == Abstract(Latest)
AbsSaved == Abstract(ldb)
AbsTx ==
    IF pc \in {"idle", "down", "reconcile"} THEN None
    ELSE [blocks |-> tx.blocks, meta |-> View(Latest, tx.keys, tx.remove)["meta"]]

\* An open transaction is not None.
LEMMA OpenTx ==
    ASSUME DBInv, pc \notin {"idle", "down", "reconcile"}
    PROVE  AbsTx # None /\ AbsTx \in [blocks : SUBSET Block, meta : MetaValue \cup {None}]
<1>1. View(Latest, tx.keys, tx.remove) \in Table
  BY LatestTable, ViewTable, SMTT(30), Z3T(60) DEF DBInv, Types, Transaction
<1>2. AbsTx = [blocks |-> tx.blocks, meta |-> View(Latest, tx.keys, tx.remove)["meta"]]
  BY DEF AbsTx
<1>3. AbsTx \in [blocks : SUBSET Block, meta : MetaValue \cup {None}]
  BY <1>1, <1>2, Zenon DEF DBInv, Types, Transaction, Table
<1>4. QED
  BY <1>3, ConstantsAssumption

\* A table with nothing on top, and one with changes it already has.
LEMMA ViewSame ==
    ASSUME NEW l \in Table, NEW m \in Table, NEW r \in SUBSET {"meta"}
    PROVE  /\ View(l, NoKeys, {}) = l
           /\ View(View(l, m, r), m, r) = View(l, m, r)
<1>1. View(l, NoKeys, {}) = [k \in Key |-> l[k]]
  BY DEF View, NoKeys
<1>2. l = [k \in Key |-> l[k]]
  BY DEF Table
<1>3. \A k \in Key : View(View(l, m, r), m, r)[k] = View(l, m, r)[k]
  BY DEF View
<1>4. View(View(l, m, r), m, r) = View(l, m, r)
  BY <1>3 DEF View
<1>5. QED
  BY <1>1, <1>2, <1>4

\* A commit applies the transaction to the latest state.
LEMMA CommitApplies ==
    ASSUME DBInv, Committing, Latest' = View(Latest, tx.keys, tx.remove)
    PROVE  AbsState' = Store!Apply(AbsState, AbsTx)
<1>1. Latest \in Table /\ tx.keys \in Table /\ tx.remove \in SUBSET {"meta"}
  BY LatestTable DEF DBInv, Types, Transaction
<1>2. tx.blocks = RowsOf(tx.keys)
  <2>1. tx.todo = <<>> /\ tx.blocks = RowsOf(tx.keys) \cup Range(tx.todo)
    BY Zenon DEF DBInv, Pending, InTx
  <2>2. Range(<<>>) = {}
    BY EmptySeq DEF Range
  <2>3. QED
    BY <2>1, <2>2
<1>3. \A b \in Block : Latest'[b] = IF tx.keys[b] # None THEN tx.keys[b] ELSE Latest[b]
  BY <1>1, ViewTable, Keys
<1>4. RowsOf(Latest') = RowsOf(Latest) \cup tx.blocks
  BY <1>2, <1>3, SMTT(30), Z3T(60) DEF RowsOf
<1>5. QED
  BY <1>4, Zenon DEF AbsState, AbsTx, Abstract, Store!Apply, Committing

\* Every step of the database is a step of TxStore, or changes nothing there.
LEMMA StoreStep ==
    ASSUME DBInv, [Next]_vars
    PROVE  \/ AbsTx = None /\ AbsTx' \in {t \in Store!Transaction :
                                             t.blocks \cap AbsState.blocks = {}}
              /\ UNCHANGED <<AbsState, AbsSaved>>
           \/ /\ AbsTx # None /\ AbsTx' = None
              /\ AbsState' = Store!Apply(AbsState, AbsTx)
              /\ AbsSaved' = AbsSaved \/ (AbsSaved = AbsState /\ AbsSaved' = AbsState')
           \/ AbsTx # None /\ AbsTx' = None /\ UNCHANGED <<AbsState, AbsSaved>>
           \/ AbsSaved' = AbsState /\ UNCHANGED <<AbsState, AbsTx>>
           \/ AbsState' = AbsSaved /\ AbsTx' = None /\ UNCHANGED AbsSaved
           \/ UNCHANGED <<AbsState, AbsSaved, AbsTx>>
<1> DEFINE Same == UNCHANGED <<ldb, cachedKeys, cachedRemove>>
<1>1. /\ ldb \in Table /\ cachedKeys \in Table /\ cachedRemove \in SUBSET {"meta"}
      /\ Latest \in Table /\ tx.keys \in Table /\ tx.remove \in SUBSET {"meta"}
  BY LatestTable DEF DBInv, Types, Transaction
<1>2. Same => UNCHANGED <<AbsState, AbsSaved, Latest>>
  BY DEF AbsState, AbsSaved, Latest
<1>3. CASE Begin
  <2>1. pc = "idle" /\ pc' = "write" /\ Same
    BY <1>3, Zenon DEF Begin, cache
  <2>2. AbsTx = None
    BY <2>1 DEF AbsTx
  <2>3. DBInv'
    BY <1>3, BeginInv
  <2>4. AbsTx' \in [blocks : SUBSET Block, meta : MetaValue \cup {None}]
        /\ AbsTx'.blocks = tx'.blocks
    <3>1. AbsTx' = [blocks |-> tx'.blocks,
                    meta |-> View(Latest', tx'.keys, tx'.remove)["meta"]]
      BY <2>1 DEF AbsTx
    <3>2. View(Latest', tx'.keys, tx'.remove) \in Table /\ tx'.blocks \in SUBSET Block
      BY <1>1, <1>2, <1>3, <2>1, BegunTx, ViewTable, Zenon DEF Transaction
    <3>3. QED
      BY <3>1, <3>2, Zenon DEF Table
  <2>5. AbsTx'.blocks \cap AbsState.blocks = {}
    BY <1>3, <2>4, BegunTx, Zenon DEF AbsState, Abstract, RowsOf
  <2>6. QED
    BY <1>2, <2>1, <2>2, <2>4, <2>5, Zenon DEF Store!Transaction, Store!State
<1>4. CASE Rollback \/ CommitFails \/ RollbackFiles
  <2>1. pc \notin {"idle", "down", "reconcile"} /\ pc' = "idle" /\ Same
    BY <1>4 DEF Rollback, CommitFails, RollbackFiles, cache
  <2>2. AbsTx # None /\ AbsTx' = None
    BY <2>1, OpenTx, Zenon DEF AbsTx
  <2>3. QED
    BY <1>2, <2>1, <2>2, Zenon
<1>5. CASE WriteBlock \/ WriteFails \/ StoreCursor \/ FlushSync
  <2>1. /\ pc \notin {"idle", "down", "reconcile"} /\ pc' \notin {"idle", "down", "reconcile"}
        /\ Same
    BY <1>5 DEF WriteBlock, WriteFails, StoreCursor, FlushSync, cache
  <2>2. tx'.blocks = tx.blocks /\ tx'.remove = tx.remove /\ tx'.keys["meta"] = tx.keys["meta"]
    <3>1. CASE WriteBlock
      <4>1. tx' = [tx EXCEPT !.todo = Tail(@), !.keys[Head(tx.todo)] = Target]
            /\ tx.todo # <<>>
        BY <3>1 DEF WriteBlock
      <4>2. Head(tx.todo) \in Block
        BY <4>1, HeadTailProperties DEF DBInv, Types, Transaction
      <4>3. "meta" # Head(tx.todo)
        BY <4>2, Keys, Zenon
      <4>4. /\ tx'.blocks = tx.blocks /\ tx'.remove = tx.remove
            /\ tx'.keys = [tx.keys EXCEPT ![Head(tx.todo)] = Target]
        BY <4>1, Zenon DEF DBInv, Types, Transaction
      <4>5. QED
        BY <1>1, <4>3, <4>4, Keys, Zenon DEF Table
    <3>2. CASE StoreCursor
      <4>1. tx' = [tx EXCEPT !.keys["writeLoc"] = cursor]
        BY <3>2 DEF StoreCursor
      <4>2. QED
        BY <1>1, <4>1, Keys DEF DBInv, Types, Transaction, Table
    <3>3. CASE WriteFails \/ FlushSync
      BY <3>3 DEF WriteFails, FlushSync
    <3>4. QED
      BY <1>5, <3>1, <3>2, <3>3
  <2>3. AbsTx' = AbsTx
    <3>1. View(Latest', tx'.keys, tx'.remove)["meta"] = View(Latest, tx.keys, tx.remove)["meta"]
      BY <1>2, <2>1, <2>2, Keys, Zenon DEF View
    <3>2. QED
      BY <2>1, <2>2, <3>1, Zenon DEF AbsTx
  <2>4. QED
    BY <1>2, <2>1, <2>3
<1>6. CASE CommitCached
  <2>1. /\ pc = "commit" /\ pc' = "idle" /\ Merged /\ UNCHANGED ldb
    BY <1>6 DEF CommitCached
  <2>2. Latest' = View(Latest, tx.keys, tx.remove)
    <3>1. \A k \in Key : View(ldb, cachedKeys', cachedRemove')[k]
                          = View(Latest, tx.keys, tx.remove)[k]
      BY <2>1, MergedTable, Zenon DEF DBInv
    <3>2. Latest' = View(ldb, cachedKeys', cachedRemove')
      BY <2>1 DEF Latest
    <3>3. View(ldb, cachedKeys', cachedRemove') = View(Latest, tx.keys, tx.remove)
      <4> DEFINE u == View(ldb, cachedKeys', cachedRemove')
                 v == View(Latest, tx.keys, tx.remove)
      <4>1. u = [k \in Key |-> u[k]] /\ v = [k \in Key |-> v[k]]
        BY Zenon DEF View
      <4> HIDE DEF u, v
      <4>2. \A k \in Key : u[k] = v[k]
        BY <3>1 DEF u, v
      <4>3. u = v
        BY <4>1, <4>2
      <4>4. QED
        BY <4>3 DEF u, v
    <3>4. QED
      BY <3>2, <3>3
  <2>3. AbsState' = Store!Apply(AbsState, AbsTx)
    BY <2>1, <2>2, CommitApplies DEF Committing
  <2>4. AbsTx # None /\ AbsTx' = None /\ AbsSaved' = AbsSaved
    BY <2>1, OpenTx, Zenon DEF AbsTx, AbsSaved
  <2>5. QED
    BY <2>3, <2>4
<1>7. CASE FlushCache
  <2>1. /\ pc = "flush" /\ pc' = "clear" /\ ldb' = Latest
        /\ UNCHANGED <<cachedKeys, cachedRemove, tx>>
    BY <1>7 DEF FlushCache, cache
  <2>2. Latest' = Latest
    BY <1>1, <2>1, ViewSame, ZenonT(60) DEF Latest
  <2>3. QED
    BY <2>1, <2>2, Zenon DEF AbsState, AbsSaved, AbsTx
<1>8. CASE FlushClear
  <2>1. /\ pc = "clear" /\ pc' = "direct" /\ cachedKeys' = NoKeys /\ cachedRemove' = {}
        /\ UNCHANGED <<ldb, tx>>
    BY <1>8 DEF FlushClear
  <2>2. Latest' = ldb
    BY <1>1, <2>1, ViewSame, Zenon DEF Latest
  <2>3. ldb = Latest
    <3>1. \A k \in Key : ldb[k] = Latest[k]
      BY <2>1 DEF DBInv, Flushed
    <3>2. ldb = [k \in Key |-> ldb[k]] /\ Latest = [k \in Key |-> Latest[k]]
      BY <1>1, Zenon DEF Table
    <3>3. QED
      BY <3>1, <3>2
  <2>4. QED
    BY <2>1, <2>2, <2>3, Zenon DEF AbsState, AbsSaved, AbsTx
<1>9. CASE CommitDirect
  <2>1. /\ pc = "direct" /\ pc' = "idle" /\ ldb' = View(ldb, tx.keys, tx.remove)
        /\ cachedKeys = NoKeys /\ cachedRemove = {}
        /\ UNCHANGED <<cachedKeys, cachedRemove>>
    BY <1>9, Zenon DEF CommitDirect, cache, DBInv, Flushed
  <2>2. Latest = ldb /\ Latest' = ldb'
    <3>1. ldb' \in Table
      BY <1>1, <2>1, ViewTable, Zenon
    <3>2. QED
      BY <1>1, <2>1, <3>1, ViewSame, Zenon DEF Latest
  <2>3. AbsState' = Store!Apply(AbsState, AbsTx)
    BY <2>1, <2>2, CommitApplies DEF Committing
  <2>4. AbsTx # None /\ AbsTx' = None /\ AbsSaved = AbsState /\ AbsSaved' = AbsState'
    BY <2>1, <2>2, OpenTx, Zenon DEF AbsTx, AbsSaved, AbsState
  <2>5. QED
    BY <2>3, <2>4, Zenon
<1>10. CASE Reader \/ UNCHANGED vars
  BY <1>2, <1>10, Zenon DEF Reader, ReaderLdb, ReaderCache, ReaderCloses, cache, vars, AbsTx
<1>11. CASE OpenDB \/ Reconcile
  <2>1. pc \in {"idle", "down", "reconcile"} /\ pc' \in {"idle", "down", "reconcile"} /\ Same
    BY <1>11 DEF OpenDB, Reconcile, cache
  <2>2. QED
    BY <1>2, <2>1, Zenon DEF AbsTx
<1>12. CASE Crash \/ Close
  <2>1. /\ pc' = "down" /\ cachedKeys' = NoKeys /\ cachedRemove' = {}
        /\ ldb' = ldb \/ (pc = "idle" /\ ldb' = Latest)
    BY <1>12, Zenon DEF Crash, Close, GoDown
  <2>2. Latest' = ldb'
    BY <1>1, <2>1, ViewSame, Zenon DEF Latest
  <2>3. QED
    BY <2>1, <2>2, Zenon DEF AbsState, AbsSaved, AbsTx
<1>13. QED
  BY <1>3, <1>4, <1>5, <1>6, <1>7, <1>8, <1>9, <1>10, <1>11, <1>12, Zenon DEF Next, Write

\* The database implements TxStore: a transaction is visible, and survives a
\* crash, as a whole or not at all, whatever fails on the way.
THEOREM StoreImplemented == Spec => ImplementsTxStore
<1>1. Init => Store!Init
  <2> SUFFICES ASSUME Init PROVE Store!Init
    OBVIOUS
  <2>1. /\ pc = "idle" /\ cachedKeys = NoKeys /\ cachedRemove = {}
        /\ ldb = [NoKeys EXCEPT !["writeLoc"] = [file |-> 0, off |-> 0]]
    BY DEF Init
  <2>2. RowsOf(ldb) = {} /\ ldb["meta"] = None
    BY <2>1, Keys DEF RowsOf, NoKeys
  <2>3. Latest = ldb
    <3>1. ldb \in Table
      BY InitInv DEF DBInv, Types
    <3>2. QED
      BY <2>1, <3>1, ViewSame DEF Latest
  <2>4. QED
    BY <2>1, <2>2, <2>3, Zenon DEF Store!Init, Abstract
<1>2. DBInv /\ [Next]_vars => [Store!Next]_Store!vars
  <2> SUFFICES ASSUME DBInv, [Next]_vars PROVE [Store!Next]_Store!vars
    OBVIOUS
  <2>1. QED
    BY StoreStep, Zenon DEF Store!Next, Store!Begin, Store!Commit, Store!Abort, Store!Persist,
                     Store!Crash, Store!vars, AbsState, AbsSaved, AbsTx
<1>3. QED
  BY <1>1, <1>2, DBInvariant, PTL DEF Spec, ImplementsTxStore, Store!Spec

=============================================================================
