------------------------------ MODULE KVStore ------------------------------
(***************************************************************************)
(* The C++ key-value store (kvstore/src/kvstore.cpp): a memtable before a  *)
(* write-ahead log, a read cache, and the tables that full memtables are   *)
(* flushed to.                                                             *)
(*                                                                         *)
(* Every operation holds mutex_ from beginning to end, so it is one step,  *)
(* except where a crash in its middle leaves something of its own on disk: *)
(* a batch between two entries and a flush between its writes.             *)
(*                                                                         *)
(* As the source has it, opening a table loads no index (LoadIndex is a    *)
(* stub) and compaction selects no file: both are operators of their own   *)
(* here.  Keys are not empty strings.                                      *)
(***************************************************************************)
EXTENDS WAL, LRUCache, TableNames

CONSTANTS
  EntryBytes,   \* EntryBytes[c]: MemTable::EstimateSize of an entry holding c
  MemLimit,     \* memtable_size_mb
  MaxBatch,     \* entries of a batch
  TornTable,    \* a table file that is not complete
  MaxTables, MaxWrites, MaxCrashes, MaxFaults   \* bounds

ASSUME StoreAssumption ==
  /\ \A c \in Contents : EntryBytes[c] \in Nat \ {0}
  /\ MemLimit \in Nat \ {0}
  /\ MaxBatch \in Nat \ {0}
  /\ MaxTables \in 1 .. 99
  /\ {MaxWrites, MaxCrashes, MaxFaults} \subseteq Nat
  /\ TornTable # Missing
  /\ {TornTable, Missing} \cap [Keys -> Contents \cup {Missing}] = {}

VARIABLES
  memtable,    \* memtable_
  memSize,     \* its size_bytes_
  immutable,   \* immutable_memtable_; all Missing when it is null
  disk,        \* disk[i]: what the file "i.sst" holds, Missing if there is none
  sstables,    \* sstables_: the ids of the open tables
  nextId,      \* next_sstable_id_
  pc,          \* "down", "ready", or the step a batch, flush or shutdown is at
  closing,     \* the destructor is running
  left,        \* entries of the batch still to be put
  interrupted, \* history: an exception has left a flush since the store was opened
  past,        \* history: the values written to each key
  writes, crashes, faults   \* counted against their bounds

tableVars == <<disk, sstables, nextId>>
memVars == <<memtable, memSize, immutable>>
callVars == <<closing, left, interrupted>>
ctlVars == <<pc, callVars>>
boundVars == <<writes, crashes, faults>>
vars == <<walVars, cacheVars, tableVars, memVars, ctlVars, past, boundVars>>

Ids == 0 .. MaxTables - 1
Empty == [k \in Keys |-> Missing]

\* While an immutable memtable is being flushed.
Flushing == {"clear", "create", "write", "finish"}

Init ==
  /\ WALInit /\ CacheInit
  /\ memtable = Empty /\ memSize = 0 /\ immutable = Empty
  /\ disk = [i \in Ids |-> Missing]
  /\ sstables = <<>> /\ nextId = 0
  /\ pc = "ready" /\ closing = FALSE /\ left = 0 /\ interrupted = FALSE
  /\ past = [k \in Keys |-> {}]
  /\ writes = 0 /\ crashes = 0 /\ faults = 0

----------------------------------------------------------------------------
(* Reading.                                                                *)

\* Mutant of TableIndex: the index is loaded.
TableIndexLoaded(i) ==
  IF disk[i] = TornTable THEN {} ELSE {k \in Keys : disk[i][k] # Missing}

\* SSTable::LoadIndex and LoadBloomFilter load nothing: no key of a table that
\* was opened is between its first and its last.
TableIndex(i) == {}

\* The tables that hold a value for k, as positions in sstables_.
Holding(k) ==
  {n \in 1 .. Len(sstables) : k \in TableIndex(sstables[n]) /\ disk[sstables[n]][k] \in Values}

\* The loop over sstables_ from its end: the first value found.
TableGet(k) ==
  IF Holding(k) = {} THEN Missing ELSE disk[sstables[Max(Holding(k))]][k]

\* Below the cache.  A deletion mark is no value: the search goes on below it.
Lookup(k) ==
  IF memtable[k] \in Values THEN memtable[k]
  ELSE IF immutable[k] \in Values THEN immutable[k]
  ELSE TableGet(k)

\* What Get() would return now.
Visible(k) ==
  IF pc = "down" THEN Missing ELSE IF cached[k] # Missing THEN cached[k] ELSE Lookup(k)

\* What a deletion of k would uncover: the value in an immutable memtable that
\* outlived its flush.
Leftover(k) ==
  IF pc \in Flushing \/ immutable[k] \notin Values THEN Missing ELSE immutable[k]

Open == pc = "ready" /\ ~closing

Get(k) ==
  /\ Open
  /\ \/ CacheHit(k)
     \/ cached[k] = Missing /\ Lookup(k) # Missing /\ CachePut(k, Lookup(k))
  /\ UNCHANGED <<walVars, tableVars, memVars, ctlVars, past, boundVars>>

\* Mutant of ScanResult: a deletion mark is taken for a value.
ScanResultWithMarks ==
  [k \in Keys |-> IF memtable[k] = Missing THEN TableGet(k) ELSE memtable[k]]

\* Scan() over all keys: the tables, then the memtable over them.
ScanResult ==
  [k \in Keys |-> IF memtable[k] = Missing THEN TableGet(k)
                  ELSE IF memtable[k] = Tomb THEN Missing ELSE memtable[k]]

----------------------------------------------------------------------------
(* Writing.                                                                *)

\* Mutant of MemSet: the entry that is replaced stays counted.
MemSetCountsTwice(k, c) ==
  /\ memtable' = [memtable EXCEPT ![k] = c]
  /\ memSize' = memSize + EntryBytes[c]
  /\ UNCHANGED immutable

\* MemTable::Put and Delete.
MemSet(k, c) ==
  /\ memtable' = [memtable EXCEPT ![k] = c]
  /\ memSize' = memSize + EntryBytes[c]
                - (IF memtable[k] = Missing THEN 0 ELSE EntryBytes[memtable[k]])
  /\ UNCHANGED immutable

\* Mutant of Apply: the cache is forgotten.
ApplyLeavesCache(k, c) ==
  /\ WALAppend(k, c)
  /\ MemSet(k, c)
  /\ past' = [past EXCEPT ![k] = @ \cup ({c} \cap Values)]
  /\ writes < MaxWrites
  /\ writes' = writes + 1
  /\ UNCHANGED <<cacheVars, tableVars, crashes, faults>>

\* Log, then memtable, then cache.
Apply(k, c) ==
  /\ WALAppend(k, c)
  /\ MemSet(k, c)
  /\ CacheInvalidate(k)
  /\ past' = [past EXCEPT ![k] = @ \cup ({c} \cap Values)]
  /\ writes < MaxWrites
  /\ writes' = writes + 1
  /\ UNCHANGED <<tableVars, crashes, faults>>

\* A full memtable is flushed before the call returns.
FlushIfFull == pc' = IF memSize' >= MemLimit THEN "swap" ELSE "ready"

Put(k, v) ==
  /\ Open
  /\ Apply(k, v)
  /\ FlushIfFull
  /\ UNCHANGED callVars

Delete(k) ==
  /\ Open
  /\ Apply(k, Tomb)
  /\ UNCHANGED ctlVars

\* Put, Delete and a batch return false when the log does not take the record;
\* what a batch has put before stays, unflushed.
WriteFails ==
  /\ Open \/ pc = "batch"
  /\ \/ WALAppendRefused /\ UNCHANGED faults
     \/ WALAppendBreaks /\ faults < MaxFaults /\ faults' = faults + 1
  /\ pc' = "ready"
  /\ left' = 0
  /\ UNCHANGED <<cacheVars, tableVars, memVars, closing, interrupted, past, writes, crashes>>

\* A batch of n entries; an empty one only looks whether the memtable is full.
PutBatch(n) ==
  /\ Open
  /\ writes + n <= MaxWrites
  /\ left' = n
  /\ UNCHANGED <<walVars, cacheVars, tableVars, memVars, closing, interrupted, past, boundVars>>
  /\ IF n = 0 THEN FlushIfFull ELSE pc' = "batch"

\* Mutant of BatchPut: the loop runs once too often.
BatchPutOnceMore(k, v) ==
  /\ pc = "batch"
  /\ Apply(k, v)
  /\ left' = left - 1
  /\ IF left = 0 THEN FlushIfFull ELSE UNCHANGED pc
  /\ UNCHANGED <<closing, interrupted>>

BatchPut(k, v) ==
  /\ pc = "batch"
  /\ Apply(k, v)
  /\ left' = left - 1
  /\ IF left = 1 THEN FlushIfFull ELSE UNCHANGED pc
  /\ UNCHANGED <<closing, interrupted>>

----------------------------------------------------------------------------
(* Flushing.                                                               *)

Flush ==
  /\ Open
  /\ memtable # Empty
  /\ pc' = "swap"
  /\ UNCHANGED <<walVars, cacheVars, tableVars, memVars, callVars, past, boundVars>>

\* Mutant of SwapMemTable: the log is cleared before the memtable moves.
SwapMemTableClears ==
  /\ pc = "swap"
  /\ immutable' = memtable
  /\ memtable' = Empty
  /\ memSize' = 0
  /\ WALClear
  /\ pc' = "clear"
  /\ UNCHANGED <<cacheVars, tableVars, callVars, past, boundVars>>

SwapMemTable ==
  /\ pc = "swap"
  /\ immutable' = memtable
  /\ memtable' = Empty
  /\ memSize' = 0
  /\ pc' = "clear"
  /\ UNCHANGED <<walVars, cacheVars, tableVars, callVars, past, boundVars>>

\* Mutant of ClearLog: the log is left as it is.
ClearLogForgotten ==
  /\ pc = "clear"
  /\ pc' = "create"
  /\ UNCHANGED <<walVars, cacheVars, tableVars, memVars, callVars, past, boundVars>>

ClearLog ==
  /\ pc = "clear"
  /\ WALClear
  /\ pc' = "create"
  /\ UNCHANGED <<cacheVars, tableVars, memVars, callVars, past, boundVars>>

\* SSTable::Create opens the file.
CreateTable ==
  /\ pc = "create"
  /\ nextId < MaxTables
  /\ disk' = [disk EXCEPT ![nextId] = TornTable]
  /\ nextId' = nextId + 1
  /\ pc' = "write"
  /\ UNCHANGED <<walVars, cacheVars, sstables, memVars, callVars, past, boundVars>>

\* It cannot, and returns false; the id is used up all the same.
CreateFails ==
  /\ pc = "create"
  /\ nextId < MaxTables
  /\ faults < MaxFaults
  /\ faults' = faults + 1
  /\ nextId' = nextId + 1
  /\ pc' = "finish"
  /\ UNCHANGED <<walVars, cacheVars, disk, sstables, memVars, callVars, past, writes, crashes>>

\* Header, entries and index are written, and nobody looks whether it succeeded.
EntriesWritten ==
  \/ disk' = [disk EXCEPT ![nextId - 1] = immutable] /\ UNCHANGED faults
  \/ faults < MaxFaults /\ faults' = faults + 1 /\ UNCHANGED disk

\* Create returns true and the table is opened in either case.
WriteTable ==
  /\ pc = "write"
  /\ EntriesWritten
  /\ sstables' = Append(sstables, nextId - 1)
  /\ pc' = "finish"
  /\ UNCHANGED <<walVars, cacheVars, nextId, memVars, callVars, past, writes, crashes>>

\* SelectFilesForCompaction: its loop adds no file to the list.
SelectedForCompaction == {}

MaybeCompact == SelectedForCompaction = {} /\ UNCHANGED tableVars

\* Mutant of FinishFlush: the immutable memtable is not reset.
FinishFlushKeepsIt ==
  /\ pc = "finish"
  /\ MaybeCompact
  /\ pc' = IF closing THEN "close" ELSE "ready"
  /\ UNCHANGED <<walVars, cacheVars, memVars, callVars, past, boundVars>>

FinishFlush ==
  /\ pc = "finish"
  /\ immutable' = Empty
  /\ MaybeCompact
  /\ pc' = IF closing THEN "close" ELSE "ready"
  /\ UNCHANGED <<walVars, cacheVars, memtable, memSize, callVars, past, boundVars>>

----------------------------------------------------------------------------
(* Closing, crashing and opening again.                                    *)

\* ~KVStore: Flush(), and then the members are destroyed, the log closed.
Close ==
  /\ Open
  /\ closing' = TRUE
  /\ pc' = IF memtable = Empty THEN "close" ELSE "swap"
  /\ UNCHANGED <<walVars, cacheVars, tableVars, memVars, left, interrupted, past, boundVars>>

LoseMemory ==
  /\ memtable' = Empty /\ memSize' = 0 /\ immutable' = Empty
  /\ CacheClear
  /\ sstables' = <<>>
  /\ nextId' = 0
  /\ pc' = "down" /\ closing' = FALSE /\ left' = 0 /\ interrupted' = FALSE

CloseLog ==
  /\ pc = "close"
  /\ WALClose
  /\ LoseMemory
  /\ UNCHANGED <<disk, past, boundVars>>

Crash ==
  /\ pc # "down"
  /\ crashes < MaxCrashes
  /\ crashes' = crashes + 1
  /\ WALCut
  /\ LoseMemory
  /\ UNCHANGED <<disk, past, writes, faults>>

\* BloomFilter(n) negates an unsigned n, so that it converts a large negative
\* number to size_t, which is undefined.  A build that makes 0 of it (AArch64)
\* has a filter without bits, and Create goes on; one that makes 2^63 of it
\* (x86-64) throws from bits_.resize(): the table is on disk but not opened, and
\* the immutable memtable stays.  The exception leaves the call that flushed;
\* leaving the destructor, it ends the process.
FilterThrows ==
  /\ pc = "write"
  /\ EntriesWritten
  /\ UNCHANGED <<past, writes, crashes>>
  /\ \/ /\ ~closing
        /\ pc' = "ready"
        /\ interrupted' = TRUE
        /\ UNCHANGED <<walVars, cacheVars, sstables, nextId, memVars, closing, left>>
     \/ /\ closing
        /\ WALCut
        /\ LoseMemory

\* The keys that have an entry in a memtable.
Held(table) == {k \in Keys : table[k] # Missing}

SizeOf(table) == SumFunctionOnSet([k \in Held(table) |-> EntryBytes[table[k]]], Held(table))

\* The records of the same key that are read before the i-th.
Earlier(read, i) == {j \in read : j < i /\ wal[j].key = wal[i].key}

\* What the i-th record, put into the memtable after those before it, adds to
\* size_bytes_: its own entry, less the one that it replaces.
SizeAdded(read, i) ==
  EntryBytes[wal[i].content]
  - (IF Earlier(read, i) = {} THEN 0 ELSE EntryBytes[wal[Max(Earlier(read, i))].content])

\* size_bytes_ after RecoverFromWAL() has put one record after the other.
RecoveredSize(read) == SumFunctionOnSet([i \in read |-> SizeAdded(read, i)], read)

\* Mutant of Restart: tables are numbered by how many there are.
RestartCountsTables ==
  /\ pc = "down"
  /\ LET files == {i \in Ids : disk[i] # Missing}
     IN /\ sstables' = ByName(files)
        /\ nextId' = Cardinality(files)
  /\ \E read \in Readings : memtable' = Replay(read) /\ memSize' = RecoveredSize(read)
  /\ pc' = "ready"
  /\ UNCHANGED <<walVars, cacheVars, disk, immutable, callVars, past, boundVars>>

\* The constructor: LoadSSTables, then RecoverFromWAL; the log is not cleared.
\* With a torn record it may also throw, and the store stays down.
Restart ==
  /\ pc = "down"
  /\ LET files == {i \in Ids : disk[i] # Missing}
     IN /\ sstables' = ByName(files)
        /\ nextId' = IF files = {} THEN 0 ELSE Max(files) + 1
  /\ \E read \in Readings : memtable' = Replay(read) /\ memSize' = RecoveredSize(read)
  /\ pc' = "ready"
  /\ UNCHANGED <<walVars, cacheVars, disk, immutable, callVars, past, boundVars>>

----------------------------------------------------------------------------
Next ==
  \/ \E k \in Keys : Get(k) \/ Delete(k)
  \/ \E k \in Keys, v \in Values : Put(k, v) \/ BatchPut(k, v)
  \/ \E n \in 0 .. MaxBatch : PutBatch(n)
  \/ WriteFails
  \/ Flush \/ SwapMemTable \/ ClearLog \/ CreateTable \/ CreateFails \/ WriteTable
  \/ FilterThrows \/ FinishFlush
  \/ Close \/ CloseLog \/ Crash \/ Restart

Spec == Init /\ [][Next]_vars

----------------------------------------------------------------------------
Tables == [Keys -> Contents \cup {Missing}]

ValuesTypeOK ==
  /\ WALTypeOK
  /\ cached \in [Keys -> Values \cup {Missing}]
  /\ memtable \in Tables /\ immutable \in Tables
  /\ past \in [Keys -> SUBSET Values]
  /\ pc \in {"down", "ready", "batch", "swap", "close"} \cup Flushing

TypeOK ==
  /\ ValuesTypeOK
  /\ disk \in [Ids -> Tables \cup {Missing, TornTable}]
  /\ sstables \in Seq(Ids)
  /\ nextId \in 0 .. MaxTables
  /\ {closing, interrupted} \subseteq BOOLEAN
  /\ left \in 0 .. MaxBatch
  /\ pc = "batch" <=> left > 0

\* A cached value is what a search below the cache would find, unless nothing
\* is found there any more: no write, batch, flush or recovery leaves an older
\* value in the cache, nor a deleted one as long as no exception leaves a flush.
CacheCoherent ==
  \A k \in Keys : cached[k] # Missing =>
    /\ Lookup(k) \in {cached[k], Missing}
    /\ ~interrupted => memtable[k] # Tomb /\ immutable[k] # Tomb

\* The log can give back the memtable, entry for entry and deletion for
\* deletion, whenever an operation begins: through batches, failed writes,
\* flushes, and crashes that cut records off or in two.
LogMirrorsMemtable ==
  pc \in {"ready", "batch"} => \E read \in Readings : Replay(read) = memtable

\* The size that decides when to flush is the size of what the memtable holds.
MemSizeExact == memSize = SizeOf(memtable)

\* Up to the eleventh table the tables are searched from the newest to the
\* oldest, whatever flushes failed and however often the store was opened.
SearchedNewestFirst ==
  nextId <= 10 => \A m, n \in 1 .. Len(sstables) : m < n => sstables[m] < sstables[n]

\* Scan looks neither into the cache nor into an immutable memtable, and the
\* tables do not answer it.  So it may miss what Get finds; but then that key has
\* no value in the memtable, and the value Get returns is on a table.  A value it
\* does list is the one Get returns.
ScanAgreesWithGet ==
  Open => \A k \in Keys : ScanResult[k] # Visible(k) =>
    /\ ScanResult[k] = Missing /\ memtable[k] \notin Values
    /\ faults = 0 => \E i \in Ids : disk[i] \in Tables /\ disk[i][k] = Visible(k)

\* No table file is ever written over, across any number of restarts and
\* failed flushes.
TablesNeverOverwritten ==
  [][\A i \in Ids : disk[i] \in Tables => disk'[i] = disk[i]]_vars

\* The entry for k in the newest complete table that has one.
OnTables(k) ==
  LET ids == {i \in Ids : disk[i] \in Tables /\ disk[i][k] # Missing}
  IN IF ids = {} THEN Missing ELSE disk[Max(ids)][k]

\* The last entry for k that the store still has anywhere, a deletion included:
\* in memory or, when it is down, in the log, and below that in its tables.
Recorded(k) ==
  LET mem == IF pc = "down" THEN Replay(Whole) ELSE memtable
  IN IF mem[k] # Missing THEN mem[k]
     ELSE IF immutable[k] # Missing THEN immutable[k] ELSE OnTables(k)

\* No step loses or changes what is recorded for a key except a write to it and a
\* crash; and a crash only if a record of that key may still be in the buffer of
\* the log, or if the key is being flushed and the log is cleared but the table
\* not yet complete.  So a log that a crash tears gives back all records before
\* the tear, a flush that an exception leaves has lost nothing, and a shutdown
\* nothing either.  Not promised once a write has failed, nor of records behind a
\* torn one.  (What is recorded need not be what Get answers: TableIndex.)
RecordedStays ==
  [][faults' = 0 /\ (\A i \in 1 .. Len(wal) - 1 : wal[i] # TornRec) =>
       \A k \in Keys :
         \/ Recorded(k)' = Recorded(k)
         \/ wal' = Append(wal, [key |-> k, content |-> Recorded(k)'])
         \/ /\ crashes' = crashes + 1
            /\ \/ \E i \in walSynced + 1 .. Len(wal) : wal[i].key = k
               \/ pc \in {"create", "write"} /\ immutable[k] # Missing]_vars

\* As long as no exception leaves a flush, only a flush has an immutable
\* memtable; the memtable is empty meanwhile, and a store that is down holds
\* nothing.
FlushShape ==
  /\ pc \in Flushing \cup {"down"} => memtable = Empty
  /\ pc \notin Flushing /\ ~interrupted => immutable = Empty
  /\ pc = "down" => cached = Empty /\ ~interrupted

\* The log holds no value that was not once written to its key.
LogHoldsPast ==
  \A i \in 1 .. Len(wal) :
    wal[i] # TornRec => wal[i].content \in past[wal[i].key] \cup {Tomb}

\* The inductive invariant behind the refinement below.
KVInv == ValuesTypeOK /\ CacheCoherent /\ FlushShape /\ LogHoldsPast

\* The store implements the forgetful map.
Map == INSTANCE ForgetfulMap WITH
  up <- pc # "down",
  visible <- [k \in Keys |-> Visible(k)],
  leftover <- [k \in Keys |-> Leftover(k)]

\* As long as the store runs, Get never returns an older value, and a deleted one
\* only if it was left over by an interrupted flush; after a restart it returns
\* only values once written to that key.
MapSpec == Map!Spec

----------------------------------------------------------------------------
(* What comments, tests and documents say, checked by runs of their own.   *)

\* The log is there for crash recovery (PROJECT_STRUCTURE.md:227): however it is
\* read, it gives back the memtable.
LogRecoversMemtable ==
  pc = "ready" => \A read \in Readings : Replay(read) = memtable

\* A key whose last write is a deletion is not found
\* (kvstore/tests/test_kvstore.cpp:27).
DeletedIsGone == Open => \A k \in Keys : memtable[k] = Tomb => Visible(k) = Missing
=============================================================================
