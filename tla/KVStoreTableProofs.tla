------------------------- MODULE KVStoreTableProofs -------------------------
(***************************************************************************)
(* More proofs about KVStore, for any keys, values, sizes and bounds: what *)
(* the constructor makes of the files it finds, so that tables are never   *)
(* written over and are searched from the newest on; that the log can give *)
(* back the memtable, and that its running size is exact; what Scan misses *)
(* of what Get finds; and that only a crash loses what is recorded, and    *)
(* what it loses.                                                          *)
(***************************************************************************)
EXTENDS KVStoreProofs, TableNameLemmas

----------------------------------------------------------------------------
(* The tables.                                                             *)

\* Ids are given upwards, to files that are not there yet; up to the eleventh
\* table they are opened in that order.
TablesInv ==
  /\ disk \in [Ids -> Tables \cup {Missing, TornTable}]
  /\ sstables \in Seq(Ids)
  /\ nextId \in 0 .. MaxTables
  /\ pc # "down" => \A i \in Ids : disk[i] # Missing => i < nextId
  /\ \A n \in 1 .. Len(sstables) : sstables[n] < nextId
  /\ pc = "write" =>
       /\ nextId - 1 \in Ids /\ disk[nextId - 1] = TornTable
       /\ \A n \in 1 .. Len(sstables) : sstables[n] < nextId - 1
  /\ nextId <= 10 => Ascending(sstables)

\* The constructor opens the files in the order of their names, and goes on
\* numbering behind the last.
LEMMA RestartOrders ==
  ASSUME TablesInv, Restart
  PROVE  TablesInv'
<1> DEFINE files == {i \in Ids : disk[i] # Missing}
<1>1. /\ sstables' = ByName(files)
      /\ nextId' = IF files = {} THEN 0 ELSE Max(files) + 1
      /\ disk' = disk /\ pc' = "ready"
  BY DEF Restart
<1>2. files \in SUBSET Ids /\ files \in SUBSET Numbers
  BY StoreAssumption DEF Ids, Numbers
<1>3. nextId' \in 0 .. MaxTables /\ \A i \in files : i < nextId'
  <2>1. CASE files = {}
    BY <1>1, <2>1, StoreAssumption
  <2>2. CASE files # {}
    <3>1. MaxTables \in Nat /\ files \in SUBSET (0 .. MaxTables)
      BY <1>2, StoreAssumption DEF Ids
    <3>2. Max(files) \in files /\ \A j \in files : j <= Max(files)
      BY <2>2, <3>1, LastIsGreatest
    <3>3. nextId' = Max(files) + 1
      BY <1>1, <2>2
    <3> HIDE DEF files
    <3>4. \A j \in files : j \in 0 .. MaxTables - 1
      BY <1>2 DEF Ids
    <3>5. Max(files) \in 0 .. MaxTables - 1
      BY <3>2, <3>4, Zenon
    <3>6. nextId' \in 0 .. MaxTables /\ Max(files) \in Int
      BY <3>1, <3>3, <3>5
    <3>7. ASSUME NEW i \in files PROVE i < nextId'
      <4>1. i \in 0 .. MaxTables - 1 /\ i <= Max(files)
        BY <3>2, <3>4
      <4> QED
        BY <3>1, <3>3, <3>6, <4>1
    <3> QED
      BY <3>6, <3>7
  <2> QED
    BY <2>1, <2>2
<1>4. \A i \in Ids : disk'[i] # Missing => i < nextId'
  BY <1>1, <1>3
<1> HIDE DEF files
<1>5. sstables' \in Seq(Ids) /\ \A n \in 1 .. Len(sstables') : sstables'[n] \in files
  BY <1>1, <1>2, ByNamePlaces
<1>6. \A n \in 1 .. Len(sstables') : sstables'[n] < nextId'
  BY <1>3, <1>5
<1>7. ASSUME nextId' <= 10 PROVE Ascending(sstables')
  <2>1. \A i \in files : i < 10
    <3> SUFFICES ASSUME NEW i \in files PROVE i < 10
      OBVIOUS
    <3>1. i \in Nat /\ i < nextId' /\ nextId' \in Int
      BY <1>2, <1>3, StoreAssumption DEF Ids
    <3> QED
      BY <1>7, <3>1
  <2> QED
    BY <1>1, <1>2, <2>1, ByNameAscends
<1> QED
  BY <1>1, <1>3, <1>4, <1>5, <1>6, <1>7 DEF TablesInv

LEMMA TablesByAll ==
  ASSUME KVInv, TablesInv, [Next]_vars
  PROVE  /\ TablesInv'
         /\ \A i \in Ids : disk[i] \in Tables => disk'[i] = disk[i]
<1> USE DEF TablesInv
<1>1. CASE UNCHANGED tableVars /\ pc' \notin {"write", "down"} /\ pc # "down"
  BY <1>1 DEF tableVars, Ascending
<1>2. CASE UNCHANGED vars
  BY <1>2 DEF vars, tableVars, ctlVars, Ascending
<1>3. CASE CreateTable
  <2>1. /\ pc = "create" /\ nextId < MaxTables /\ pc' = "write"
        /\ disk' = [disk EXCEPT ![nextId] = TornTable] /\ nextId' = nextId + 1 /\ sstables' = sstables
    BY <1>3 DEF CreateTable
  <2>2. nextId \in Ids /\ nextId \in Nat /\ nextId' - 1 = nextId /\ nextId' \in 0 .. MaxTables
    BY <2>1, StoreAssumption DEF Ids
  <2>3. disk[nextId] = Missing
    BY <2>1, <2>2
  <2>4. Missing \notin Tables
    BY StoreAssumption DEF Tables
  <2>5. \A n \in 1 .. Len(sstables) : sstables[n] \in Ids
    OBVIOUS
  <2>6. \A i \in Ids : i \in Int
    BY DEF Ids
  <2>7. disk' \in [Ids -> Tables \cup {Missing, TornTable}] /\ disk'[nextId] = TornTable
    BY <2>1, <2>2
  <2>8. \A i \in Ids : disk'[i] # Missing => i < nextId'
    BY <2>1, <2>2, <2>6
  <2>9. \A n \in 1 .. Len(sstables) : sstables[n] < nextId'
    BY <2>1, <2>2, <2>5, <2>6
  <2>10. nextId' <= 10 => Ascending(sstables)
    BY <2>1, <2>2
  <2>11. \A i \in Ids : disk[i] \in Tables => disk'[i] = disk[i]
    BY <2>1, <2>3, <2>4
  <2> QED
    BY <2>1, <2>2, <2>7, <2>8, <2>9, <2>10, <2>11
<1>4. CASE CreateFails
  <2>1. /\ pc = "create" /\ nextId < MaxTables /\ pc' = "finish"
        /\ disk' = disk /\ nextId' = nextId + 1 /\ sstables' = sstables
    BY <1>4 DEF CreateFails
  <2>2. nextId' \in 0 .. MaxTables
    <3>1. MaxTables \in Nat /\ nextId \in 0 .. MaxTables
      BY StoreAssumption
    <3> QED
      BY <2>1, <3>1
  <2>3. \A n \in 1 .. Len(sstables) : sstables[n] \in Ids
    OBVIOUS
  <2>4. \A i \in Ids : i \in Int
    BY DEF Ids
  <2> QED
    BY <2>1, <2>2, <2>3, <2>4 DEF Ascending
<1>5. CASE WriteTable \/ FilterThrows
  <2>1. /\ pc = "write" /\ pc' \in {"finish", "ready", "down"}
        /\ disk' \in {disk, [disk EXCEPT ![nextId - 1] = immutable]}
        /\ \/ nextId' = nextId /\ sstables' \in {sstables, Append(sstables, nextId - 1)}
           \/ nextId' = 0 /\ sstables' = <<>> /\ pc' = "down"
        /\ pc' # "down" => nextId' = nextId
    BY <1>5 DEF WriteTable, FilterThrows, EntriesWritten, LoseMemory
  <2>2. immutable \in Tables /\ TornTable \notin Tables
    BY StoreAssumption DEF KVInv, ValuesTypeOK, Tables
  <2>3. nextId - 1 \in Ids /\ nextId \in Nat /\ disk[nextId - 1] = TornTable
    BY <2>1
  <2>4. /\ disk' \in [Ids -> Tables \cup {Missing, TornTable}]
        /\ \A i \in Ids : disk[i] \in Tables => disk'[i] = disk[i]
    BY <2>1, <2>2, <2>3
  <2>5. \A i \in Ids : disk'[i] # Missing => i < nextId
    <3>1. nextId - 1 < nextId
      BY <2>3
    <3> QED
      BY <2>1, <2>3, <3>1
  <2>6. nextId <= 10 => Ascending(Append(sstables, nextId - 1))
    <3>1. Ids \in SUBSET Nat
      BY DEF Ids
    <3> QED
      BY <2>1, <2>3, <3>1, AppendAscends
  <2>7. \A n \in 1 .. Len(Append(sstables, nextId - 1)) : Append(sstables, nextId - 1)[n] < nextId
    <3>1. nextId - 1 < nextId /\ Len(sstables) \in Nat
      BY <2>3
    <3>2. \A n \in 1 .. Len(sstables) : sstables[n] < nextId
      OBVIOUS
    <3>3. /\ Len(Append(sstables, nextId - 1)) = Len(sstables) + 1
          /\ Append(sstables, nextId - 1)[Len(sstables) + 1] = nextId - 1
          /\ \A n \in 1 .. Len(sstables) : Append(sstables, nextId - 1)[n] = sstables[n]
      BY <2>3
    <3> QED
      BY <3>1, <3>2, <3>3
  <2>8. CASE nextId' = nextId /\ sstables' \in {sstables, Append(sstables, nextId - 1)}
    <3>1. sstables' \in Seq(Ids)
      BY <2>3, <2>8
    <3>2. \A n \in 1 .. Len(sstables') : sstables'[n] < nextId'
      BY <2>7, <2>8
    <3>3. nextId' <= 10 => Ascending(sstables')
      BY <2>6, <2>8
    <3> QED
      BY <2>1, <2>4, <2>5, <2>8, <3>1, <3>2, <3>3
  <2>9. CASE nextId' = 0 /\ sstables' = <<>> /\ pc' = "down"
    <3>1. sstables' \in Seq(Ids) /\ Len(sstables') = 0 /\ nextId' \in 0 .. MaxTables
      BY <2>9, StoreAssumption
    <3> QED
      BY <2>4, <2>9, <3>1 DEF Ascending
  <2> QED
    BY <2>1, <2>8, <2>9
<1>6. CASE CloseLog \/ Crash
  <2>1. disk' = disk /\ nextId' = 0 /\ sstables' = <<>> /\ pc' = "down"
    BY <1>6 DEF CloseLog, Crash, LoseMemory
  <2>2. sstables' \in Seq(Ids) /\ Len(sstables') = 0 /\ nextId' \in 0 .. MaxTables
    BY <2>1, StoreAssumption
  <2> QED
    BY <2>1, <2>2 DEF Ascending
<1>7. CASE Restart
  BY <1>7, RestartOrders DEF Restart
<1>8. ASSUME \/ \E k \in Keys : Get(k) \/ Delete(k)
             \/ \E k \in Keys, v \in Values : Put(k, v) \/ BatchPut(k, v)
             \/ \E n \in 0 .. MaxBatch : PutBatch(n)
             \/ WriteFails
             \/ Flush \/ SwapMemTable \/ ClearLog \/ FinishFlush \/ Close
      PROVE  UNCHANGED tableVars /\ pc' \notin {"write", "down"} /\ pc # "down"
  BY <1>8 DEF Get, Delete, Put, BatchPut, PutBatch, Apply, Open, FlushIfFull, WriteFails, Flush,
       SwapMemTable, ClearLog, FinishFlush, MaybeCompact, Close, ctlVars
<1> QED
  BY <1>1, <1>2, <1>3, <1>4, <1>5, <1>6, <1>7, <1>8 DEF Next

----------------------------------------------------------------------------
(* The calls.                                                              *)

CallsInv ==
  /\ {closing, interrupted} \subseteq BOOLEAN
  /\ left \in 0 .. MaxBatch
  /\ pc = "batch" <=> left > 0

LEMMA CallsByAll ==
  ASSUME CallsInv, [Next]_vars
  PROVE  CallsInv'
<1> USE DEF CallsInv
<1>1. MaxBatch \in Nat /\ left \in Nat
  BY StoreAssumption
<1>2. ASSUME left' = 0, pc' # "batch", {closing', interrupted'} \subseteq BOOLEAN PROVE CallsInv'
  BY <1>1, <1>2
<1>3. ASSUME \/ UNCHANGED vars \/ Flush \/ SwapMemTable \/ ClearLog \/ CreateTable \/ CreateFails
             \/ WriteTable \/ FilterThrows \/ FinishFlush \/ Close \/ CloseLog \/ Crash \/ Restart
             \/ WriteFails
             \/ \E k \in Keys : Get(k) \/ Delete(k)
             \/ \E k \in Keys, v \in Values : Put(k, v)
      PROVE  CallsInv'
  <2>1. \/ left' = 0 /\ pc' # "batch"
        \/ left' = left /\ pc' = pc
        \/ left' = left /\ pc # "batch" /\ pc' # "batch"
    BY <1>3 DEF vars, ctlVars, callVars, Flush, SwapMemTable, ClearLog, CreateTable, CreateFails, WriteTable,
         FilterThrows, FinishFlush, Close, CloseLog, Crash, Restart, LoseMemory, WriteFails, Get, Delete,
         Put, FlushIfFull, Open
  <2>2. {closing', interrupted'} \subseteq BOOLEAN
    <3>1. closing' \in {closing, TRUE, FALSE} /\ interrupted' \in {interrupted, TRUE, FALSE}
      BY <1>3 DEF vars, ctlVars, callVars, Flush, SwapMemTable, ClearLog, CreateTable, CreateFails, WriteTable,
         FilterThrows, FinishFlush, Close, CloseLog, Crash, Restart, LoseMemory, WriteFails, Get, Delete,
         Put, FlushIfFull, Open
    <3> QED
      BY <3>1, Zenon
  <2> QED
    BY <1>1, <1>2, <2>1, <2>2
<1>4. ASSUME NEW n \in 0 .. MaxBatch, PutBatch(n) PROVE CallsInv'
  <2>1. /\ left' = n /\ closing' = closing /\ interrupted' = interrupted
        /\ n = 0 => pc' \in {"swap", "ready"}
        /\ n # 0 => pc' = "batch"
    BY <1>4 DEF PutBatch, FlushIfFull
  <2> QED
    BY <1>1, <2>1
<1>5. ASSUME NEW k \in Keys, NEW v \in Values, BatchPut(k, v) PROVE CallsInv'
  <2>1. /\ pc = "batch" /\ left' = left - 1 /\ closing' = closing /\ interrupted' = interrupted
        /\ left = 1 => pc' \in {"swap", "ready"}
        /\ left # 1 => pc' = pc
    BY <1>5 DEF BatchPut, FlushIfFull
  <2> QED
    BY <1>1, <2>1
<1> QED
  BY <1>3, <1>4, <1>5 DEF Next

----------------------------------------------------------------------------
(* The log and the memtable.                                               *)

Mirrored == \E read \in Readings : Replay(read) = memtable

\* From its clearing to the end of the flush the log is empty, and so is the
\* memtable then.
MirrorInv ==
  /\ pc \in {"ready", "batch", "swap", "close"} => Mirrored
  /\ pc = "clear" => \E read \in Readings : Replay(read) = immutable
  /\ pc \in {"create", "write", "finish"} => wal = <<>>

\* A record that is put behind the others is read back, as the last of its key.
LEMMA MirroredByApply ==
  ASSUME KVInv, Mirrored, NEW k \in Keys, NEW c \in Contents, Apply(k, c)
  PROVE  Mirrored'
<1> DEFINE L == Len(wal)
           rec == [key |-> k, content |-> c]
<1>1. wal \in Seq(Records \cup {TornRec}) /\ memtable \in Tables /\ rec \in Records
  BY DEF KVInv, ValuesTypeOK, WALTypeOK, Records
<1>2. wal' = Append(wal, rec) /\ memtable' = [memtable EXCEPT ![k] = c]
  BY DEF Apply, WALAppend, MemSet
<1>3. /\ L \in Nat /\ Len(wal') = L + 1 /\ wal'[L + 1] = rec
      /\ \A i \in 1 .. L : wal'[i] = wal[i]
  BY <1>1, <1>2
<1>4. PICK read \in Readings : Replay(read) = memtable
  BY DEF Mirrored
<1>5. read \subseteq 1 .. L /\ read \subseteq Whole
  BY DEF Readings, Whole
<1>6. PICK more : more = read \cup {L + 1}
  OBVIOUS
<1>7. Whole' = Whole \cup {L + 1}
  <2>1. rec # TornRec
    BY <1>1, WALAssumption
  <2>2. 1 .. Len(wal') = (1 .. L) \cup {L + 1}
    BY <1>3
  <2> HIDE DEF L, rec
  <2> QED
    BY <1>3, <2>1, <2>2 DEF Whole, L
<1>8. more \in Readings'
  <2>1. more \in SUBSET Whole'
    BY <1>5, <1>7, <1>6
  <2>2. ASSUME NEW i \in Whole' PROVE /\ (\A j \in 1 .. i : wal'[j] # TornRec) => i \in more
                                      /\ i - 1 \in more => i \in more
    <3>1. CASE i = L + 1
      BY <1>6, <3>1
    <3>2. CASE i # L + 1
      <4>1. i \in Whole /\ i \in 1 .. L
        BY <1>7, <2>2, <3>2 DEF Whole
      <4>2. \A j \in 1 .. i : j \in 1 .. L /\ wal'[j] = wal[j]
        BY <1>3, <4>1
      <4>3. (\A j \in 1 .. i : wal[j] # TornRec) => i \in read
        BY <4>1 DEF Readings
      <4>4. i - 1 \in read => i \in read
        BY <4>1 DEF Readings
      <4>5. i - 1 # L + 1
        BY <1>3, <4>1
      <4> QED
        BY <1>6, <4>2, <4>3, <4>4, <4>5
    <3> QED
      BY <3>1, <3>2
  <2> QED
    BY <2>1, <2>2 DEF Readings
<1>9. ASSUME NEW j \in Keys PROVE Replay(more)'[j] = memtable'[j]
  <2> DEFINE of == {i \in read : wal[i].key = j}
             now == {i \in more : wal'[i].key = j}
  <2>1. Replay(more)'[j] = IF now = {} THEN Missing ELSE wal'[Max(now)].content
    BY DEF Replay
  <2>2. memtable[j] = IF of = {} THEN Missing ELSE wal[Max(of)].content
    BY <1>4 DEF Replay
  <2>3. CASE j = k
    <3>1. L + 1 \in now
      BY <1>3, <1>6, <2>3
    <3>2. now \in SUBSET (0 .. L + 1) /\ L + 1 \in Nat
      <4>1. L \in Nat
        BY <1>3
      <4>2. read \subseteq 1 .. L
        BY <1>5
      <4> HIDE DEF L
      <4>3. more \subseteq 0 .. L + 1
        BY <1>6, <4>1, <4>2
      <4>4. now \subseteq more
        OBVIOUS
      <4> HIDE DEF now
      <4> QED
        BY <4>1, <4>3, <4>4
    <3> HIDE DEF now, L
    <3>3. Max(now) \in now /\ \A i \in now : i <= Max(now)
      BY <3>1, <3>2, LastIsGreatest
    <3>4. Max(now) \in 0 .. L + 1
      BY <3>2, <3>3, Zenon
    <3>5. L + 1 <= Max(now)
      BY <3>1, <3>3
    <3>6. Max(now) = L + 1
      BY <3>2, <3>4, <3>5
    <3>7. Replay(more)'[j] = c
      BY <1>3, <2>1, <3>1, <3>6
    <3>8. memtable'[j] = c
      BY <1>1, <1>2, <2>3 DEF Tables
    <3> QED
      BY <3>7, <3>8
  <2>4. CASE j # k
    <3>1. now = of
      <4>1. ASSUME NEW i \in more, wal'[i].key = j PROVE i \in read /\ wal[i].key = j
        <5>1. i # L + 1
          BY <1>3, <2>4, <4>1
        <5>2. i \in read /\ i \in 1 .. L
          BY <1>5, <1>6, <5>1
        <5> QED
          BY <1>3, <4>1, <5>2
      <4>2. ASSUME NEW i \in read, wal[i].key = j PROVE i \in more /\ wal'[i].key = j
        <5>1. i \in 1 .. L
          BY <1>5
        <5> QED
          BY <1>3, <1>6, <4>2, <5>1
      <4> QED
        BY <4>1, <4>2
    <3>2. of # {} => Max(of) \in 1 .. L
      <4>1. of \in SUBSET (1 .. L)
        BY <1>5
      <4> QED
        BY <1>3, <4>1, LastPosition
    <3>3. memtable'[j] = memtable[j]
      BY <1>1, <1>2, <2>4 DEF Tables
    <3> HIDE DEF of, now
    <3> QED
      BY <1>3, <2>1, <2>2, <3>1, <3>2, <3>3
  <2> QED
    BY <2>3, <2>4
<1>10. Replay(more)' = memtable'
  <2>1. memtable' \in [Keys -> Contents \cup {Missing}]
    BY <1>1, <1>2 DEF Tables
  <2>2. Replay(more)' = [j \in Keys |-> Replay(more)'[j]]
    BY DEF Replay
  <2>3. memtable' = [j \in Keys |-> memtable'[j]]
    BY <2>1
  <2> QED
    BY <1>9, <2>2, <2>3
<1> QED
  BY <1>8, <1>10 DEF Mirrored

\* A failing write leaves at most a torn record, which is not read.
LEMMA MirroredByTear ==
  ASSUME KVInv, Mirrored, wal' = Append(wal, TornRec), memtable' = memtable
  PROVE  Mirrored'
<1> DEFINE L == Len(wal)
<1>1. wal \in Seq(Records \cup {TornRec})
  BY DEF KVInv, ValuesTypeOK, WALTypeOK
<1>2. /\ L \in Nat /\ Len(wal') = L + 1 /\ wal'[L + 1] = TornRec
      /\ \A i \in 1 .. L : wal'[i] = wal[i]
  BY <1>1
<1>3. PICK read \in Readings : Replay(read) = memtable
  BY DEF Mirrored
<1>4. Whole' = Whole /\ Whole \subseteq 1 .. L /\ read \subseteq Whole
  <2>1. 1 .. Len(wal') = (1 .. L) \cup {L + 1}
    BY <1>2
  <2> HIDE DEF L
  <2> QED
    BY <1>2, <1>3, <2>1 DEF Whole, L, Readings
<1>5. read \in Readings'
  <2>1. ASSUME NEW i \in Whole PROVE /\ (\A j \in 1 .. i : wal'[j] # TornRec) => i \in read
                                     /\ i - 1 \in read => i \in read
    <3>1. \A j \in 1 .. i : j \in 1 .. L /\ wal'[j] = wal[j]
      BY <1>2, <1>4, <2>1
    <3> QED
      BY <2>1, <3>1 DEF Readings
  <2> QED
    BY <1>4, <2>1 DEF Readings
<1>6. ASSUME NEW j \in Keys PROVE Replay(read)'[j] = Replay(read)[j]
  <2> DEFINE of == {i \in read : wal[i].key = j}
  <2>1. of = {i \in read : wal'[i].key = j}
    BY <1>2, <1>4
  <2>2. of # {} => Max(of) \in 1 .. L
    <3>1. of \in SUBSET (1 .. L)
      BY <1>4
    <3> QED
      BY <1>2, <3>1, LastPosition
  <2>3. Replay(read)[j] = IF of = {} THEN Missing ELSE wal[Max(of)].content
    BY DEF Replay
  <2>4. Replay(read)'[j] = IF of = {} THEN Missing ELSE wal'[Max(of)].content
    BY <2>1 DEF Replay
  <2> HIDE DEF of
  <2> QED
    BY <1>2, <2>2, <2>3, <2>4
<1>7. Replay(read)' = memtable'
  <2>1. Replay(read)' = [j \in Keys |-> Replay(read)'[j]] /\ Replay(read) = [j \in Keys |-> Replay(read)[j]]
    BY DEF Replay
  <2> QED
    BY <1>3, <1>6, <2>1
<1> QED
  BY <1>5, <1>7 DEF Mirrored

\* An empty log gives back an empty memtable.
LEMMA MirroredByNothing ==
  ASSUME wal' = <<>>, memtable' = Empty
  PROVE  Mirrored'
<1>1. Len(wal') = 0 /\ 1 .. 0 = {}
  OBVIOUS
<1>2. Whole' = {}
  BY <1>1 DEF Whole
<1>3. {} \in Readings'
  BY <1>2 DEF Readings
<1>4. Replay({})' = memtable'
  BY DEF Replay, Empty
<1> QED
  BY <1>3, <1>4 DEF Mirrored

LEMMA MirrorByAll ==
  ASSUME KVInv, MirrorInv, [Next]_vars
  PROVE  MirrorInv'
<1> USE DEF MirrorInv
<1>1. ASSUME UNCHANGED <<wal, memtable>>, Mirrored PROVE Mirrored'
  <2>1. PICK read \in Readings : Replay(read) = memtable
    BY <1>1 DEF Mirrored
  <2>2. read \in Readings' /\ Replay(read)' = Replay(read)
    BY <1>1 DEF Readings, Whole, Replay
  <2> QED
    BY <1>1, <2>1, <2>2 DEF Mirrored
<1>2. ASSUME NEW k \in Keys, NEW v \in Values, Put(k, v) \/ BatchPut(k, v) PROVE MirrorInv'
  <2>1. PICK c \in Contents : Apply(k, c)
    BY <1>2 DEF Put, BatchPut, Contents
  <2>2. pc \in {"ready", "batch"} /\ pc' \in {"ready", "batch", "swap"}
    BY <1>2 DEF Put, BatchPut, Open, FlushIfFull
  <2> QED
    BY <2>1, <2>2, MirroredByApply
<1>3. ASSUME \E k \in Keys : Delete(k) PROVE MirrorInv'
  <2>1. PICK k \in Keys : Delete(k)
    BY <1>3
  <2>2. Apply(k, Tomb) /\ Tomb \in Contents /\ pc = "ready" /\ pc' = "ready"
    BY <2>1 DEF Delete, Open, ctlVars, Contents
  <2> QED
    BY <2>2, MirroredByApply
<1>4. ASSUME WriteFails PROVE MirrorInv'
  <2>1. /\ pc \in {"ready", "batch"} /\ pc' = "ready" /\ memtable' = memtable
        /\ wal' \in {wal, Append(wal, TornRec)}
    BY <1>4 DEF WriteFails, WALAppendRefused, WALAppendBreaks, walVars, memVars, Open
  <2> QED
    BY <1>1, <2>1, MirroredByTear
<1>5. ASSUME \/ \E k \in Keys : Get(k)
             \/ \E n \in 0 .. MaxBatch : PutBatch(n)
             \/ Flush \/ Close \/ UNCHANGED vars
      PROVE  MirrorInv'
  <2>1. /\ UNCHANGED <<wal, memtable, immutable>>
        /\ pc' = pc \/ (pc = "ready" /\ pc' \in {"ready", "batch", "swap", "close"})
    BY <1>5 DEF Get, PutBatch, FlushIfFull, Flush, Close, Open, vars, walVars, memVars, ctlVars
  <2>2. ASSUME pc = "clear" PROVE (\E read \in Readings : Replay(read) = immutable)'
    <3>1. PICK read \in Readings : Replay(read) = immutable
      BY <2>2
    <3>2. read \in Readings' /\ Replay(read)' = Replay(read)
      BY <2>1 DEF Readings, Whole, Replay
    <3> QED
      BY <2>1, <3>1, <3>2
  <2> QED
    BY <1>1, <2>1, <2>2
<1>6. ASSUME CloseLog \/ Crash PROVE MirrorInv'
  <2>1. pc' = "down"
    BY <1>6 DEF CloseLog, Crash, LoseMemory
  <2> QED
    BY <2>1
<1>10. ASSUME SwapMemTable PROVE MirrorInv'
  <2>1. pc = "swap" /\ pc' = "clear" /\ wal' = wal /\ immutable' = memtable
    BY <1>10 DEF SwapMemTable, walVars
  <2>2. PICK read \in Readings : Replay(read) = memtable
    BY <2>1 DEF Mirrored
  <2>3. read \in Readings' /\ Replay(read)' = Replay(read)
    BY <2>1 DEF Readings, Whole, Replay
  <2> QED
    BY <2>1, <2>2, <2>3
<1>7. ASSUME ClearLog \/ CreateTable \/ CreateFails \/ WriteTable PROVE MirrorInv'
  <2>1. /\ pc' \in {"create", "write", "finish"}
        /\ wal' = <<>> \/ (pc \in {"create", "write", "finish"} /\ wal' = wal)
    BY <1>7 DEF ClearLog, CreateTable, CreateFails, WriteTable, WALClear, walVars
  <2> QED
    BY <2>1
<1>8. ASSUME FilterThrows \/ FinishFlush PROVE MirrorInv'
  <2>1. /\ pc \in {"write", "finish"} /\ pc' \in {"ready", "down", "close"}
        /\ pc' # "down" => wal' = wal /\ memtable' = memtable
    BY <1>8 DEF FilterThrows, FinishFlush, LoseMemory, walVars, memVars
  <2>2. memtable = Empty /\ wal = <<>>
    BY <2>1 DEF KVInv, FlushShape, Flushing
  <2> QED
    BY <2>1, <2>2, MirroredByNothing
<1>9. ASSUME Restart PROVE MirrorInv'
  <2>1. PICK read \in Readings : memtable' = Replay(read)
    BY <1>9 DEF Restart
  <2>2. wal' = wal /\ pc' = "ready"
    BY <1>9 DEF Restart, walVars
  <2>3. read \in Readings' /\ Replay(read)' = Replay(read)
    BY <2>2 DEF Readings, Whole, Replay
  <2> QED
    BY <2>1, <2>2, <2>3 DEF Mirrored
<1> QED
  BY <1>2, <1>3, <1>4, <1>5, <1>6, <1>7, <1>8, <1>9, <1>10 DEF Next

----------------------------------------------------------------------------
(* The theorems.                                                           *)

\* The tables keep their order and their numbers, the calls their types.
LEMMA TablesAlways == Spec => [](TablesInv /\ CallsInv)
<1>1. Init => TablesInv /\ CallsInv
  <2> SUFFICES ASSUME Init PROVE TablesInv /\ CallsInv
    OBVIOUS
  <2>1. /\ disk = [i \in Ids |-> Missing] /\ sstables = <<>> /\ nextId = 0 /\ pc = "ready"
        /\ closing = FALSE /\ interrupted = FALSE /\ left = 0
    BY DEF Init
  <2>2. sstables \in Seq(Ids) /\ Len(sstables) = 0 /\ nextId \in 0 .. MaxTables
    BY <2>1, StoreAssumption
  <2>3. TablesInv
    BY <2>1, <2>2 DEF TablesInv, Ascending
  <2>4. left \in 0 .. MaxBatch /\ ~(left > 0) /\ pc # "batch"
    BY <2>1, StoreAssumption
  <2> QED
    BY <2>1, <2>3, <2>4 DEF CallsInv
<1>2. KVInv /\ TablesInv /\ CallsInv /\ [Next]_vars => TablesInv' /\ CallsInv'
  BY TablesByAll, CallsByAll
<1> QED
  BY <1>1, <1>2, StoreInvariance, PTL DEF Spec

\* Every variable of the store keeps its type: the constructor opens only files
\* that are there, and a batch counts down to its end.
THEOREM StoreTypes == Spec => []TypeOK
<1>1. KVInv /\ TablesInv /\ CallsInv => TypeOK
  BY DEF KVInv, TablesInv, CallsInv, TypeOK
<1> QED
  BY <1>1, StoreInvariance, TablesAlways, PTL

\* A complete table file is never written over, through any number of flushes
\* that fail or throw, crashes and restarts.
THEOREM NeverOverwritten == Spec => TablesNeverOverwritten
<1>1. KVInv /\ TablesInv /\ [Next]_vars => [\A i \in Ids : disk[i] \in Tables => disk'[i] = disk[i]]_vars
  BY TablesByAll
<1> QED
  BY <1>1, StoreInvariance, TablesAlways, PTL DEF Spec, TablesNeverOverwritten

\* Up to the eleventh table the order of the file names is that of the tables'
\* ages: a search meets the newest first, also after a restart.
THEOREM NewestFirst == Spec => []SearchedNewestFirst
<1>1. TablesInv => SearchedNewestFirst
  BY DEF TablesInv, Ascending, SearchedNewestFirst
<1> QED
  BY <1>1, TablesAlways, PTL

\* The log can give back what memory holds.
LEMMA MirrorsAlways == Spec => []MirrorInv
<1>1. Init => MirrorInv
  <2> SUFFICES ASSUME Init PROVE MirrorInv
    OBVIOUS
  <2>1. wal = <<>> /\ memtable = Empty /\ pc = "ready"
    BY DEF Init, WALInit
  <2>2. Whole = {}
    BY <2>1 DEF Whole
  <2>3. {} \in Readings
    BY <2>2 DEF Readings
  <2>4. Replay({}) = memtable
    BY <2>1 DEF Replay, Empty
  <2> QED
    BY <2>1, <2>3, <2>4 DEF MirrorInv, Mirrored
<1>2. KVInv /\ MirrorInv /\ [Next]_vars => MirrorInv'
  BY MirrorByAll
<1> QED
  BY <1>1, <1>2, StoreInvariance, PTL DEF Spec

\* Whenever a call begins, the log can give back the memtable, however often it
\* was cut, torn or read back before.
THEOREM LogGivesBack == Spec => []LogMirrorsMemtable
<1>1. MirrorInv => LogMirrorsMemtable
  BY DEF MirrorInv, Mirrored, LogMirrorsMemtable
<1> QED
  BY <1>1, MirrorsAlways, PTL

----------------------------------------------------------------------------
(* The size of the memtable.                                               *)

LEMMA EmptySize == IsFiniteSet(Held(Empty)) /\ SizeOf(Empty) = 0
<1>1. Held(Empty) = {}
  BY DEF Held, Empty
<1> QED
  BY <1>1, SumEmpty, FS_EmptySet DEF SizeOf

\* An entry that is set adds its own size, and takes away that of the one it
\* replaces.
LEMMA SizeSet ==
  ASSUME NEW table \in Tables, IsFiniteSet(Held(table)), NEW k \in Keys, NEW c \in Contents
  PROVE  LET set == [table EXCEPT ![k] = c]
         IN /\ IsFiniteSet(Held(set))
            /\ SizeOf(set) = SizeOf(table) + EntryBytes[c]
                             - (IF table[k] = Missing THEN 0 ELSE EntryBytes[table[k]])
<1> DEFINE set == [table EXCEPT ![k] = c]
           others == Held(table) \ {k}
           f == [j \in Held(table) |-> EntryBytes[table[j]]]
           g == [j \in Held(set) |-> EntryBytes[set[j]]]
<1>1. /\ set[k] = c /\ \A j \in Keys : j # k => set[j] = table[j]
      /\ \A j \in Keys : table[j] \in Contents \cup {Missing}
  BY DEF Tables
<1>2. Held(set) = Held(table) \cup {k}
  BY <1>1, EntriesAssumption DEF Held
<1>3. IsFiniteSet(Held(set)) /\ IsFiniteSet(others)
  BY <1>2, FS_AddElement, FS_Subset
<1>4. k \in Held(set) /\ Held(set) \ {k} = others
  BY <1>2
<1>5. /\ \A j \in Held(set) : g[j] \in Nat
      /\ \A j \in Held(table) : f[j] \in Nat
  BY <1>1, StoreAssumption, EntriesAssumption DEF Held
<1>6. \A j \in others : f[j] = g[j]
  BY <1>1, <1>2 DEF Held
<1>7. g[k] = EntryBytes[c] /\ (k \in Held(table) => f[k] = EntryBytes[table[k]])
  BY <1>1, <1>4
<1>8. SizeOf(set) = SumFunctionOnSet(g, Held(set)) /\ SizeOf(table) = SumFunctionOnSet(f, Held(table))
  BY DEF SizeOf
<1>9. k \in Held(table) <=> table[k] # Missing
  BY DEF Held
<1> HIDE DEF f, g, set, others
<1>10. SumFunctionOnSet(g, Held(set)) = g[k] + SumFunctionOnSet(g, others)
  BY <1>3, <1>4, <1>5, SumElement
<1>11. SumFunctionOnSet(g, others) = SumFunctionOnSet(f, others)
  BY <1>3, <1>6, SumSame
<1>12. SumFunctionOnSet(f, others) \in Nat
  <2>1. \A j \in others : f[j] \in Nat
    BY <1>5 DEF others
  <2> QED
    BY <1>3, <2>1, SumNat
<1>13. g[k] \in Nat
  BY <1>4, <1>5
<1>14. SizeOf(set) = EntryBytes[c] + SumFunctionOnSet(f, others) /\ EntryBytes[c] \in Nat
  BY <1>7, <1>8, <1>10, <1>11, <1>13
<1>15. CASE table[k] = Missing
  <2>1. others = Held(table)
    BY <1>9, <1>15 DEF others
  <2> QED
    BY <1>3, <1>8, <1>12, <1>14, <1>15, <2>1 DEF set
<1>16. CASE table[k] # Missing
  <2>1. SumFunctionOnSet(f, Held(table)) = f[k] + SumFunctionOnSet(f, others)
    BY <1>5, <1>9, <1>16, SumElement DEF others
  <2>2. f[k] = EntryBytes[table[k]] /\ f[k] \in Nat
    BY <1>5, <1>7, <1>9, <1>16
  <2>3. SizeOf(table) = EntryBytes[table[k]] + SumFunctionOnSet(f, others) /\ EntryBytes[table[k]] \in Nat
    BY <1>8, <2>1, <2>2
  <2>4. SizeOf(set) = SizeOf(table) + EntryBytes[c] - EntryBytes[table[k]]
    BY <1>12, <1>14, <2>3
  <2> QED
    BY <1>3, <1>16, <2>4 DEF set
<1> QED
  BY <1>15, <1>16

\* A recovered memtable has entries for finitely many keys.
LEMMA ReplayFinite ==
  ASSUME WALTypeOK, NEW read \in SUBSET Whole
  PROVE  IsFiniteSet(Held(Replay(read)))
<1>1. IsFiniteSet(1 .. Len(wal)) /\ read \in SUBSET (1 .. Len(wal))
  <2>1. Len(wal) \in Nat
    BY DEF WALTypeOK
  <2> QED
    BY <2>1, FS_Interval DEF Whole
<1>2. IsFiniteSet(read)
  BY <1>1, FS_Subset
<1> DEFINE keys == {wal[i].key : i \in read}
           f == [i \in read |-> wal[i].key]
<1>3. f \in Surjection(read, keys)
  BY DEF Surjection
<1>4. IsFiniteSet(keys)
  <2> HIDE DEF f, keys
  <2> QED
    BY <1>2, <1>3, FS_Surjection
<1>5. Held(Replay(read)) \in SUBSET keys
  BY DEF Held, Replay
<1> HIDE DEF keys
<1> QED
  BY <1>4, <1>5, FS_Subset

\* The last of some records is put into what those before it have made.
LEMMA ReplayLast ==
  ASSUME WALTypeOK, NEW read \in SUBSET Whole, NEW last \in read, \A i \in read : i <= last
  PROVE  LET before == read \ {last}
             made == Replay(before)
             k == wal[last].key
         IN /\ made \in Tables /\ k \in Keys /\ wal[last].content \in Contents
            /\ Replay(read) = [made EXCEPT ![k] = wal[last].content]
            /\ SizeAdded(read, last) = EntryBytes[wal[last].content]
                                       - (IF made[k] = Missing THEN 0 ELSE EntryBytes[made[k]])
<1> DEFINE before == read \ {last}
           made == Replay(before)
           k == wal[last].key
           Of(set, j) == {i \in set : wal[i].key = j}
<1>1. Len(wal) \in Nat /\ read \in SUBSET (1 .. Len(wal)) /\ \A i \in read : wal[i] \in Records
  BY DEF WALTypeOK, Whole
<1>2. \A i \in read : wal[i].key \in Keys /\ wal[i].content \in Contents
  BY <1>1 DEF Records
<1>3. \A set \in SUBSET read : \A j : Of(set, j) # {} => Max(Of(set, j)) \in Of(set, j)
  <2> SUFFICES ASSUME NEW set \in SUBSET read, NEW j, Of(set, j) # {}
               PROVE  Max(Of(set, j)) \in Of(set, j)
    OBVIOUS
  <2>1. Of(set, j) \in SUBSET (1 .. Len(wal))
    BY <1>1
  <2> QED
    BY <1>1, <2>1, LastPosition
<1>4. \A set : \A j \in Keys :
        Replay(set)[j] = IF Of(set, j) = {} THEN Missing ELSE wal[Max(Of(set, j))].content
  BY DEF Replay
<1>5. \A j \in Keys : made[j] \in Contents \cup {Missing}
  <2> SUFFICES ASSUME NEW j \in Keys PROVE made[j] \in Contents \cup {Missing}
    OBVIOUS
  <2>1. CASE Of(before, j) = {}
    BY <1>4, <2>1
  <2>2. CASE Of(before, j) # {}
    <3>1. Max(Of(before, j)) \in read
      BY <1>3, <2>2
    <3> QED
      BY <1>2, <1>4, <2>2, <3>1
  <2> QED
    BY <2>1, <2>2
<1>6. made \in Tables
  <2>1. made = [j \in Keys |-> made[j]]
    BY DEF Replay
  <2> HIDE DEF made
  <2> QED
    BY <1>5, <2>1 DEF Tables
<1>7. k \in Keys /\ wal[last].content \in Contents
  BY <1>2
<1>8. Replay(read)[k] = wal[last].content
  <2>1. last \in Of(read, k) /\ \A i \in Of(read, k) : i <= last
    OBVIOUS
  <2>2. Of(read, k) \in SUBSET (0 .. Len(wal))
    <3>1. Of(read, k) \subseteq read /\ \A i \in read : i \in 0 .. Len(wal)
      BY <1>1
    <3> HIDE DEF Of, k
    <3> QED
      BY <3>1
  <2>3. Max(Of(read, k)) = last
    <3> HIDE DEF Of, k
    <3> QED
      BY <1>1, <2>1, <2>2, GreatestIs
  <2>4. Of(read, k) # {}
    BY <2>1
  <2> HIDE DEF Of, k
  <2> QED
    BY <1>4, <1>7, <2>3, <2>4
<1>9. \A j \in Keys : j # k => Replay(read)[j] = made[j]
  <2> SUFFICES ASSUME NEW j \in Keys, j # k PROVE Replay(read)[j] = made[j]
    OBVIOUS
  <2>1. Of(read, j) = Of(before, j)
    OBVIOUS
  <2> HIDE DEF Of
  <2> QED
    BY <1>4, <2>1
<1>10. Replay(read) = [made EXCEPT ![k] = wal[last].content]
  <2>1. Replay(read) = [j \in Keys |-> Replay(read)[j]] /\ made = [j \in Keys |-> made[j]]
    BY DEF Replay
  <2> HIDE DEF made, k
  <2> QED
    BY <1>7, <1>8, <1>9, <2>1
<1>11. Earlier(read, last) = Of(before, k)
  <2>1. \A i \in read : i # last <=> i < last
    <3>1. \A i \in read : i \in Nat /\ i <= last
      BY <1>1
    <3> QED
      BY <3>1
  <2> QED
    BY <2>1 DEF Earlier
<1>12. made[k] = Missing <=> Of(before, k) = {}
  <2>1. CASE Of(before, k) # {}
    <3>1. Max(Of(before, k)) \in read
      BY <1>3, <2>1
    <3>2. wal[Max(Of(before, k))].content # Missing
      BY <1>2, <3>1, EntriesAssumption
    <3> QED
      BY <1>4, <1>7, <2>1, <3>2
  <2>2. CASE Of(before, k) = {}
    BY <1>4, <1>7, <2>2
  <2> QED
    BY <2>1, <2>2
<1>13. Of(before, k) # {} => made[k] = wal[Max(Of(before, k))].content
  BY <1>4, <1>7
<1>14. SizeAdded(read, last) = EntryBytes[wal[last].content]
                               - (IF made[k] = Missing THEN 0 ELSE EntryBytes[made[k]])
  <2> HIDE DEF Of, made, k, before
  <2> QED
    BY <1>11, <1>12, <1>13 DEF SizeAdded
<1> QED
  BY <1>6, <1>7, <1>10, <1>14

\* Put one after the other, some records make a memtable of the size that was
\* counted: were there records of which this is not so, take as few as possible;
\* without the last of them it is so.
LEMMA RecoveredSizeIs ==
  ASSUME WALTypeOK, NEW read \in SUBSET Whole
  PROVE  RecoveredSize(read) = SizeOf(Replay(read))
<1> DEFINE bad == {set \in SUBSET read : RecoveredSize(set) # SizeOf(Replay(set))}
<1>1. SUFFICES ASSUME bad # {} PROVE FALSE
  OBVIOUS
<1>2. Len(wal) \in Nat /\ read \in SUBSET (1 .. Len(wal)) /\ IsFiniteSet(read)
  <2>1. Len(wal) \in Nat /\ read \in SUBSET (1 .. Len(wal))
    BY DEF WALTypeOK, Whole
  <2>2. IsFiniteSet(1 .. Len(wal))
    BY <2>1, FS_Interval
  <2> QED
    BY <2>1, <2>2, FS_Subset
<1>3. bad \in SUBSET SUBSET read
  OBVIOUS
<1> HIDE DEF bad
<1>4. PICK set \in bad : \A less \in SUBSET set : less # set => less \notin bad
  BY <1>1, <1>2, <1>3, SmallestSubset
<1>5. set \in SUBSET read /\ RecoveredSize(set) # SizeOf(Replay(set))
  BY DEF bad
<1>6. set # {}
  <2>1. RecoveredSize({}) = 0
    BY SumEmpty DEF RecoveredSize
  <2>2. Replay({}) = Empty
    BY DEF Replay, Empty
  <2> QED
    BY <1>5, <2>1, <2>2, EmptySize
<1>7. set \in SUBSET (0 .. Len(wal)) /\ set \in SUBSET Whole /\ IsFiniteSet(set)
  <2>1. \A i \in read : i \in 0 .. Len(wal)
    BY <1>2
  <2> QED
    BY <1>2, <1>5, <2>1, FS_Subset
<1>8. PICK last \in set : \A i \in set : i <= last
  BY <1>2, <1>6, <1>7, LastIsGreatest
<1> DEFINE before == set \ {last}
           made == Replay(before)
           k == wal[last].key
           c == wal[last].content
           f == [i \in set |-> SizeAdded(set, i)]
           g == [i \in before |-> SizeAdded(before, i)]
<1>9. RecoveredSize(before) = SizeOf(made)
  <2>1. before \notin bad /\ before \in SUBSET read
    BY <1>4, <1>5
  <2> QED
    BY <2>1 DEF bad
<1>10. /\ made \in Tables /\ k \in Keys /\ c \in Contents
       /\ Replay(set) = [made EXCEPT ![k] = c]
       /\ SizeAdded(set, last) = EntryBytes[c] - (IF made[k] = Missing THEN 0 ELSE EntryBytes[made[k]])
  BY <1>7, <1>8, ReplayLast
<1>11. IsFiniteSet(Held(made))
  <2>1. before \in SUBSET Whole
    BY <1>7
  <2> QED
    BY <2>1, ReplayFinite
<1>12. \A i \in set : SizeAdded(set, i) \in Int
  <2> SUFFICES ASSUME NEW i \in set PROVE SizeAdded(set, i) \in Int
    OBVIOUS
  <2>1. \A j \in set : wal[j].content \in Contents
    BY <1>7 DEF WALTypeOK, Whole, Records
  <2>2. Earlier(set, i) # {} => Max(Earlier(set, i)) \in set
    <3>1. Earlier(set, i) \in SUBSET (0 .. Len(wal)) /\ Earlier(set, i) \subseteq set
      BY <1>7 DEF Earlier
    <3> QED
      BY <1>2, <3>1, LastNumber
  <2> QED
    BY <2>1, <2>2, StoreAssumption DEF SizeAdded
<1>13. \A i \in before : f[i] = g[i]
  <2> SUFFICES ASSUME NEW i \in before PROVE SizeAdded(set, i) = SizeAdded(before, i)
    OBVIOUS
  <2>1. i \in Nat /\ last \in Nat /\ ~(last < i)
    BY <1>7, <1>8
  <2>2. Earlier(set, i) = Earlier(before, i)
    BY <2>1 DEF Earlier
  <2> QED
    BY <2>2 DEF SizeAdded
<1>14. RecoveredSize(set) = f[last] + RecoveredSize(before)
  <2>1. RecoveredSize(set) = SumFunctionOnSet(f, set) /\ RecoveredSize(before) = SumFunctionOnSet(g, before)
    BY DEF RecoveredSize
  <2>2. \A i \in set : f[i] \in Int
    BY <1>12
  <2>3. IsFiniteSet(before)
    BY <1>7, FS_Subset
  <2> HIDE DEF f, g
  <2>4. SumFunctionOnSet(f, set) = f[last] + SumFunctionOnSet(f, before)
    BY <1>7, <2>2, SumElement
  <2>5. SumFunctionOnSet(f, before) = SumFunctionOnSet(g, before)
    BY <1>13, <2>3, SumSame
  <2> QED
    BY <2>1, <2>4, <2>5
<1>15. SizeOf(Replay(set)) = SizeOf(made) + EntryBytes[c]
                             - (IF made[k] = Missing THEN 0 ELSE EntryBytes[made[k]])
  <2> HIDE DEF made, k, c
  <2> QED
    BY <1>10, <1>11, SizeSet
<1>16. f[last] = EntryBytes[c] - (IF made[k] = Missing THEN 0 ELSE EntryBytes[made[k]])
  BY <1>10
<1>17. SizeOf(made) \in Int
  <2>1. \A j \in Held(made) : EntryBytes[made[j]] \in Int
    <3>1. \A j \in Keys : made[j] \in Contents \cup {Missing}
      BY <1>10 DEF Tables
    <3> HIDE DEF made
    <3>2. \A j \in Held(made) : made[j] \in Contents
      BY <3>1 DEF Held
    <3> QED
      BY <3>2, StoreAssumption
  <2> DEFINE h == [j \in Held(made) |-> EntryBytes[made[j]]]
  <2>2. \A j \in Held(made) : h[j] \in Int
    BY <2>1
  <2>3. SizeOf(made) = SumFunctionOnSet(h, Held(made))
    BY DEF SizeOf
  <2> HIDE DEF h, made
  <2> QED
    BY <1>11, <2>2, <2>3, SumInt
<1>18. EntryBytes[c] \in Int /\ (made[k] # Missing => EntryBytes[made[k]] \in Int)
  <2>1. made[k] # Missing => made[k] \in Contents
    BY <1>10 DEF Tables
  <2> QED
    BY <1>10, <2>1, StoreAssumption
<1> HIDE DEF made, k, c, f
<1>19. RecoveredSize(set) = SizeOf(Replay(set))
  BY <1>9, <1>14, <1>15, <1>16, <1>17, <1>18
<1> QED
  BY <1>5, <1>19

SizeInv == IsFiniteSet(Held(memtable)) /\ MemSizeExact

LEMMA SizeByAll ==
  ASSUME KVInv, SizeInv, [Next]_vars
  PROVE  SizeInv'
<1>1. memtable \in Tables /\ IsFiniteSet(Held(memtable)) /\ memSize = SizeOf(memtable)
  BY DEF KVInv, ValuesTypeOK, SizeInv, MemSizeExact
<1>2. ASSUME UNCHANGED <<memtable, memSize>>
      PROVE  SizeInv'
  BY <1>1, <1>2 DEF SizeInv, MemSizeExact
<1>3. ASSUME memtable' = Empty, memSize' = 0
      PROVE  SizeInv'
  BY <1>3, EmptySize DEF SizeInv, MemSizeExact
<1>4. ASSUME NEW k \in Keys, NEW c \in Contents, Apply(k, c)
      PROVE  SizeInv'
  <2>1. /\ memtable' = [memtable EXCEPT ![k] = c]
        /\ memSize' = memSize + EntryBytes[c]
                      - (IF memtable[k] = Missing THEN 0 ELSE EntryBytes[memtable[k]])
    BY <1>4 DEF Apply, MemSet
  <2>2. IsFiniteSet(Held(memtable')) /\ memSize' = SizeOf(memtable')
    BY <1>1, <2>1, SizeSet
  <2> QED
    BY <2>2 DEF SizeInv, MemSizeExact
<1>5. CASE Restart
  <2>1. PICK read \in Readings : memtable' = Replay(read) /\ memSize' = RecoveredSize(read)
    BY <1>5 DEF Restart
  <2>4. WALTypeOK /\ read \in SUBSET Whole
    BY DEF KVInv, ValuesTypeOK, Readings
  <2>2. IsFiniteSet(Held(memtable'))
    BY <2>1, <2>4, ReplayFinite
  <2>3. memSize' = SizeOf(memtable')
    BY <2>1, <2>4, RecoveredSizeIs
  <2> QED
    BY <2>2, <2>3 DEF SizeInv, MemSizeExact
<1>6. CASE Next
  <2>1. ASSUME NEW k \in Keys, Get(k) \/ Delete(k)
        PROVE  SizeInv'
    BY <1>2, <1>4, <2>1 DEF Get, Delete, memVars, Contents
  <2>2. ASSUME NEW k \in Keys, NEW v \in Values, Put(k, v) \/ BatchPut(k, v)
        PROVE  SizeInv'
    BY <1>4, <2>2 DEF Put, BatchPut, Contents
  <2>3. CASE SwapMemTable \/ CloseLog \/ Crash
    BY <1>3, <2>3 DEF SwapMemTable, CloseLog, Crash, LoseMemory
  <2>4. CASE FilterThrows
    BY <1>2, <1>3, <2>4 DEF FilterThrows, LoseMemory, memVars
  <2>5. CASE \/ \E n \in 0 .. MaxBatch : PutBatch(n)
             \/ WriteFails \/ Flush \/ ClearLog \/ CreateTable \/ CreateFails
             \/ WriteTable \/ FinishFlush \/ Close
    BY <1>2, <2>5 DEF PutBatch, WriteFails, Flush, ClearLog, CreateTable, CreateFails,
                      WriteTable, FinishFlush, Close, memVars
  <2> QED
    BY <1>5, <1>6, <2>1, <2>2, <2>3, <2>4, <2>5 DEF Next
<1> QED
  BY <1>2, <1>6 DEF vars, memVars

\* The running size that decides when to flush is the size of what the memtable
\* holds: overwriting, swapping, crashing and recovering do not make it drift.
THEOREM SizeAlwaysExact == Spec => []MemSizeExact
<1>1. Init => SizeInv
  BY EmptySize DEF Init, SizeInv, MemSizeExact
<1>2. KVInv /\ SizeInv /\ [Next]_vars => SizeInv'
  BY SizeByAll
<1>3. SizeInv => MemSizeExact
  BY DEF SizeInv
<1> QED
  BY <1>1, <1>2, <1>3, StoreInvariance, PTL DEF Spec

----------------------------------------------------------------------------
(* What is recorded.                                                       *)

SavedOn(files, k, c) == \E i \in Ids : files[i] \in Tables /\ files[i][k] = c

\* As long as no write has failed, an immutable memtable that outlives its flush
\* is the newest table, and a cached value that has left memory is on some table.
SavedInv ==
  /\ faults \in Nat
  /\ faults = 0 => walGood = TRUE
  /\ faults = 0 /\ pc \notin {"clear", "create", "write"} =>
       immutable = Empty \/ (nextId - 1 \in Ids /\ disk[nextId - 1] = immutable)
  /\ faults = 0 => \A k \in Keys :
       cached[k] \in {Missing, memtable[k], immutable[k]} \/ SavedOn(disk, k, cached[k])

\* What holds of the newest table holds of an immutable memtable on it.
LEMMA LeftOnTable ==
  ASSUME KVInv, SavedInv, faults = 0, pc \notin {"clear", "create", "write"},
         NEW k \in Keys, immutable[k] # Missing
  PROVE  /\ nextId - 1 \in Ids /\ disk[nextId - 1] = immutable /\ immutable \in Tables
         /\ SavedOn(disk, k, immutable[k])
<1>1. immutable # Empty /\ immutable \in Tables
  BY DEF Empty, KVInv, ValuesTypeOK
<1>2. nextId - 1 \in Ids /\ disk[nextId - 1] = immutable
  BY <1>1 DEF SavedInv
<1> QED
  BY <1>1, <1>2 DEF SavedOn

LEMMA SavedByAll ==
  ASSUME KVInv, TablesInv, SavedInv, [Next]_vars
  PROVE  SavedInv'
<1>1. \A k, c : SavedOn(disk, k, c) => SavedOn(disk', k, c)
  BY TablesByAll DEF SavedOn
<1>2. ASSUME UNCHANGED <<disk, nextId, walGood, memtable, immutable>>,
             faults' \in Nat, faults' = 0 => faults = 0,
             pc' \notin {"clear", "create", "write"} => pc \notin {"clear", "create", "write"},
             \A k \in Keys : cached'[k] \in {cached[k], Missing, memtable[k], immutable[k]}
      PROVE  SavedInv'
  <2>1. ASSUME faults' = 0, NEW k \in Keys
        PROVE  cached'[k] \in {Missing, memtable[k], immutable[k]} \/ SavedOn(disk', k, cached'[k])
    <3>1. cached[k] \in {Missing, memtable[k], immutable[k]} \/ SavedOn(disk', k, cached[k])
      BY <1>1, <1>2, <2>1 DEF SavedInv
    <3>2. cached'[k] \in {cached[k], Missing, memtable[k], immutable[k]}
      BY <1>2
    <3> QED
      BY <3>1, <3>2
  <2> QED
    BY <1>2, <2>1 DEF SavedInv
<1>3. ASSUME NEW k \in Keys, Get(k) PROVE SavedInv'
  <2>1. /\ UNCHANGED <<disk, nextId, walGood, memtable, immutable, faults, pc>>
        /\ CacheHit(k) \/ (Lookup(k) # Missing /\ CachePut(k, Lookup(k)))
    BY <1>3 DEF Get, tableVars, walVars, memVars, boundVars, ctlVars
  <2>2. Lookup(k) \in {Missing, memtable[k], immutable[k]}
    BY LookupIs DEF Below
  <2>3. \A j \in Keys : cached'[j] \in {cached[j], Missing} \/ (j = k /\ cached'[j] = Lookup(k))
    <3>1. CASE CacheHit(k)
      BY <3>1 DEF CacheHit
    <3>2. CASE Lookup(k) # Missing /\ CachePut(k, Lookup(k))
      BY <3>2, LookupTyped, CachePutFacts DEF KVInv
    <3> QED
      BY <2>1, <3>1, <3>2
  <2> QED
    BY <1>2, <2>1, <2>2, <2>3 DEF SavedInv
<1>4. ASSUME NEW k \in Keys, NEW c \in Contents, Apply(k, c), pc' \notin Flushing, pc \notin Flushing
      PROVE  SavedInv'
  <2>1. /\ UNCHANGED <<disk, nextId, walGood, immutable, faults>>
        /\ memtable' = [memtable EXCEPT ![k] = c] /\ memtable \in Tables
        /\ cached' = [cached EXCEPT ![k] = Missing] /\ cached \in [Keys -> Values \cup {Missing}]
    BY <1>4 DEF Apply, WALAppend, MemSet, CacheInvalidate, tableVars, KVInv, ValuesTypeOK
  <2>2. ASSUME faults = 0, NEW j \in Keys
        PROVE  cached'[j] \in {Missing, memtable'[j], immutable[j]} \/ SavedOn(disk', j, cached'[j])
    <3>1. CASE j = k
      BY <2>1, <3>1
    <3>2. CASE j # k
      <4>1. cached'[j] = cached[j] /\ memtable'[j] = memtable[j]
        BY <2>1, <3>2 DEF Tables
      <4> QED
        BY <1>1, <2>2, <4>1 DEF SavedInv
    <3> QED
      BY <3>1, <3>2
  <2> QED
    BY <1>4, <2>1, <2>2 DEF SavedInv, Flushing
<1>5. ASSUME WriteFails PROVE SavedInv'
  <2>1. /\ UNCHANGED <<disk, nextId, memtable, immutable, cached>>
        /\ pc \in {"ready", "batch"} /\ pc' = "ready"
        /\ faults' \in Nat /\ (faults' = 0 => faults = 0 /\ walGood' = walGood)
    BY <1>5 DEF WriteFails, WALAppendRefused, Open, walVars, cacheVars, memVars, tableVars, SavedInv
  <2> QED
    BY <1>1, <2>1 DEF SavedInv
<1>6. ASSUME SwapMemTable PROVE SavedInv'
  <2>1. /\ pc = "swap" /\ pc' = "clear" /\ immutable' = memtable /\ memtable' = Empty
        /\ UNCHANGED <<disk, nextId, walGood, cached, faults>>
    BY <1>6 DEF SwapMemTable, walVars, cacheVars, tableVars, boundVars
  <2>2. ASSUME faults = 0, NEW k \in Keys
        PROVE  cached[k] \in {Missing, memtable[k]} \/ SavedOn(disk', k, cached[k])
    <3>1. CASE cached[k] = immutable[k] /\ immutable[k] # Missing
      BY <1>1, <2>1, <2>2, <3>1, LeftOnTable
    <3>2. CASE cached[k] # immutable[k] \/ immutable[k] = Missing
      BY <1>1, <2>2, <3>2 DEF SavedInv
    <3> QED
      BY <3>1, <3>2
  <2> QED
    BY <2>1, <2>2 DEF SavedInv
<1>7. ASSUME ClearLog \/ CreateTable \/ CreateFails PROVE SavedInv'
  <2>1. /\ pc' \in {"create", "write"} \/ faults' # 0
        /\ UNCHANGED <<memtable, immutable, cached>>
        /\ faults' \in Nat /\ (faults' = 0 => faults = 0)
        /\ walGood' = walGood \/ walGood' = TRUE
    <3>1. CASE ClearLog
      BY <3>1 DEF ClearLog, WALClear, cacheVars, memVars, boundVars, SavedInv
    <3>2. CASE CreateTable
      BY <3>2 DEF CreateTable, walVars, cacheVars, memVars, boundVars, SavedInv
    <3>3. CASE CreateFails
      BY <3>3 DEF CreateFails, walVars, cacheVars, memVars, SavedInv
    <3> QED
      BY <1>7, <3>1, <3>2, <3>3
  <2>2. ASSUME faults' = 0, NEW k \in Keys
        PROVE  cached'[k] \in {Missing, memtable'[k], immutable'[k]} \/ SavedOn(disk', k, cached'[k])
    BY <1>1, <2>1, <2>2 DEF SavedInv
  <2> QED
    BY <2>1, <2>2 DEF SavedInv
<1>8. ASSUME LoseMemory, faults' \in Nat, walGood' = TRUE \/ faults' # 0 PROVE SavedInv'
  <2>1. immutable' = Empty /\ \A k \in Keys : cached'[k] = Missing
    BY <1>8 DEF LoseMemory, CacheClear, Empty
  <2> QED
    BY <1>8, <2>1 DEF SavedInv
<1>9. ASSUME WriteTable \/ (FilterThrows /\ pc' = "ready") PROVE SavedInv'
  <2>1. /\ pc = "write" /\ EntriesWritten
        /\ UNCHANGED <<nextId, walGood, memtable, immutable, cached>>
    BY <1>9 DEF WriteTable, FilterThrows, LoseMemory, walVars, cacheVars, memVars
  <2>2. faults' \in Nat /\ (faults' = 0 => faults = 0 /\ disk' = [disk EXCEPT ![nextId - 1] = immutable])
    BY <2>1 DEF EntriesWritten, SavedInv
  <2>3. faults' = 0 => nextId - 1 \in Ids /\ disk'[nextId - 1] = immutable
    BY <2>1, <2>2 DEF TablesInv
  <2>4. ASSUME faults' = 0, NEW k \in Keys
        PROVE  cached'[k] \in {Missing, memtable'[k], immutable'[k]} \/ SavedOn(disk', k, cached'[k])
    BY <1>1, <2>1, <2>2, <2>4 DEF SavedInv
  <2> QED
    BY <2>1, <2>2, <2>3, <2>4 DEF SavedInv
<1>10. ASSUME FinishFlush PROVE SavedInv'
  <2>1. /\ pc = "finish" /\ immutable' = Empty
        /\ UNCHANGED <<disk, nextId, walGood, memtable, cached, faults>>
    BY <1>10 DEF FinishFlush, MaybeCompact, walVars, cacheVars, tableVars, boundVars
  <2>2. ASSUME faults = 0, NEW k \in Keys
        PROVE  cached[k] \in {Missing, memtable[k]} \/ SavedOn(disk', k, cached[k])
    <3>1. CASE cached[k] = immutable[k] /\ immutable[k] # Missing
      BY <1>1, <2>1, <2>2, <3>1, LeftOnTable
    <3>2. CASE cached[k] # immutable[k] \/ immutable[k] = Missing
      BY <1>1, <2>2, <3>2 DEF SavedInv
    <3> QED
      BY <3>1, <3>2
  <2> QED
    BY <2>1, <2>2 DEF SavedInv
<1>11. ASSUME CloseLog \/ Crash \/ (FilterThrows /\ pc' = "down") PROVE SavedInv'
  <2>1. LoseMemory /\ faults' \in Nat /\ (faults' = 0 => faults = 0)
    BY <1>11 DEF CloseLog, Crash, FilterThrows, EntriesWritten, boundVars, SavedInv
  <2>2. walGood' = TRUE \/ walGood' = walGood
    BY <1>11 DEF CloseLog, Crash, FilterThrows, WALCut, WALClose
  <2> QED
    BY <1>8, <2>1, <2>2 DEF SavedInv
<1>12. ASSUME Restart PROVE SavedInv'
  <2>1. /\ pc = "down" /\ immutable = Empty /\ cached = Empty
        /\ UNCHANGED <<walGood, immutable, cached, faults>>
    BY <1>12 DEF Restart, walVars, cacheVars, boundVars, KVInv, FlushShape, Flushing
  <2>2. \A k \in Keys : cached'[k] = Missing
    BY <2>1 DEF Empty
  <2> QED
    BY <2>1, <2>2 DEF SavedInv
<1>13. ASSUME \/ \E n \in 0 .. MaxBatch : PutBatch(n)
              \/ Flush \/ Close \/ UNCHANGED vars
       PROVE  SavedInv'
  <2>1. /\ UNCHANGED <<disk, nextId, walGood, memtable, immutable, cached, faults>>
        /\ pc' = pc \/ (pc = "ready" /\ pc' \notin Flushing)
    BY <1>13 DEF PutBatch, FlushIfFull, Flush, Close, Open, vars, walVars, cacheVars, memVars, tableVars,
         ctlVars, boundVars, Flushing
  <2> QED
    BY <1>2, <2>1 DEF SavedInv, Flushing
<1>14. ASSUME NEW k \in Keys, NEW v \in Values, Put(k, v) \/ BatchPut(k, v) PROVE SavedInv'
  BY <1>4, <1>14 DEF Put, BatchPut, Open, FlushIfFull, Contents, Flushing
<1>15. ASSUME NEW k \in Keys, Delete(k) PROVE SavedInv'
  BY <1>4, <1>15 DEF Delete, Open, ctlVars, Contents, Flushing
<1>16. FilterThrows => pc' \in {"ready", "down"}
  BY DEF FilterThrows, LoseMemory
<1> QED
  BY <1>3, <1>5, <1>6, <1>7, <1>9, <1>10, <1>11, <1>12, <1>13, <1>14, <1>15, <1>16 DEF Next

\* A value that Get finds and Scan does not is on a table.
THEOREM ScanAgrees == Spec => []ScanAgreesWithGet
<1>1. Init => SavedInv
  BY DEF Init, WALInit, CacheInit, SavedInv, Empty
<1>2. KVInv /\ TablesInv /\ SavedInv /\ [Next]_vars => SavedInv'
  BY SavedByAll
<1>3. KVInv /\ SavedInv => ScanAgreesWithGet
  <2> SUFFICES ASSUME KVInv, SavedInv, Open, NEW k \in Keys, ScanResult[k] # Visible(k)
               PROVE  /\ ScanResult[k] = Missing /\ memtable[k] \notin Values
                      /\ faults = 0 => SavedOn(disk, k, Visible(k))
    BY DEF ScanAgreesWithGet, SavedOn
  <2>1. ScanResult[k] = IF memtable[k] \in Values THEN memtable[k] ELSE Missing
    BY NoTableAnswers, EntriesAssumption DEF ScanResult, KVInv, ValuesTypeOK, Tables, Contents
  <2>2. Visible(k) = IF cached[k] # Missing THEN cached[k] ELSE Lookup(k)
    BY DEF Open, Visible
  <2>3. memtable[k] \in Values => Lookup(k) = memtable[k] /\ memtable[k] # Missing
    BY EntriesAssumption DEF Lookup, Contents
  <2>4. memtable[k] \notin Values
    BY <2>1, <2>2, <2>3 DEF KVInv, CacheCoherent
  <2>5. Visible(k) # Missing
    BY <2>1, <2>4
  <2>6. ASSUME faults = 0 PROVE SavedOn(disk, k, Visible(k))
    <3>1. pc \notin {"clear", "create", "write"}
      BY DEF Open
    <3>2. CASE Visible(k) = immutable[k]
      BY <2>5, <2>6, <3>1, <3>2, LeftOnTable
    <3>3. CASE Visible(k) # immutable[k]
      <4>1. Lookup(k) \in {immutable[k], Missing}
        BY <2>4, LookupIs DEF Below
      <4>2. Visible(k) = cached[k] /\ cached[k] # Missing
        BY <2>2, <2>5, <3>3, <4>1
      <4>3. cached[k] # memtable[k]
        BY <2>4, <4>2 DEF KVInv, ValuesTypeOK
      <4> QED
        BY <2>6, <3>3, <4>2, <4>3 DEF SavedInv
    <3> QED
      BY <3>2, <3>3
  <2> QED
    BY <2>1, <2>4, <2>6
<1> QED
  BY <1>1, <1>2, <1>3, StoreInvariance, TablesAlways, PTL DEF Spec

\* The tables that have an entry for k.
Having(files, k) == {i \in Ids : files[i] \in Tables /\ files[i][k] # Missing}

LEMMA HavingLast ==
  ASSUME NEW files, NEW k, Having(files, k) # {}
  PROVE  Max(Having(files, k)) \in Having(files, k)
<1>1. MaxTables \in Nat /\ \A i \in Having(files, k) : i \in 0 .. MaxTables
  BY StoreAssumption DEF Having, Ids
<1>2. Having(files, k) \in SUBSET (0 .. MaxTables)
  BY <1>1
<1> QED
  BY <1>1, <1>2, LastNumber

LEMMA OnTablesIs ==
  ASSUME NEW k
  PROVE  /\ OnTables(k) = (IF Having(disk, k) = {} THEN Missing ELSE disk[Max(Having(disk, k))][k])
         /\ OnTables(k)' = (IF Having(disk', k) = {} THEN Missing ELSE disk'[Max(Having(disk', k))][k])
BY DEF OnTables, Having

\* The newest table answers first.
LEMMA NewestIs ==
  ASSUME NEW files, NEW k, NEW n \in Ids, files[n] \in Tables, files[n][k] # Missing,
         \A i \in Ids : files[i] # Missing => i <= n
  PROVE  Having(files, k) # {} /\ Max(Having(files, k)) = n
<1>1. Missing \notin Tables
  BY StoreAssumption DEF Tables
<1>2. n \in Having(files, k) /\ \A i \in Having(files, k) : i <= n
  BY <1>1 DEF Having
<1>3. MaxTables \in Nat /\ \A i \in Having(files, k) : i \in 0 .. MaxTables
  BY StoreAssumption DEF Having, Ids
<1>4. Having(files, k) \in SUBSET (0 .. MaxTables)
  BY <1>3
<1> QED
  BY <1>2, <1>3, <1>4, GreatestIs

\* What the tables have for k stays if none that has an entry comes or goes.
LEMMA SameTables ==
  ASSUME NEW k, Having(disk', k) = Having(disk, k),
         \A i \in Ids : disk[i] \in Tables => disk'[i] = disk[i]
  PROVE  OnTables(k)' = OnTables(k)
<1>1. CASE Having(disk, k) = {}
  BY <1>1, OnTablesIs
<1>2. CASE Having(disk, k) # {}
  <2>1. Max(Having(disk, k)) \in Having(disk, k)
    BY <1>2, HavingLast
  <2>2. disk'[Max(Having(disk, k))] = disk[Max(Having(disk, k))]
    BY <2>1 DEF Having
  <2> QED
    BY <1>2, <2>2, OnTablesIs
<1> QED
  BY <1>1, <1>2

\* If at most the last record is torn, the log can be read in one way only.
LEMMA OneReading ==
  ASSUME WALTypeOK, \A i \in 1 .. Len(wal) - 1 : wal[i] # TornRec, NEW read \in Readings
  PROVE  read = Whole
<1>1. ASSUME NEW i \in Whole PROVE i \in read
  <2>1. Len(wal) \in Nat /\ i \in 1 .. Len(wal) /\ wal[i] # TornRec
    BY DEF WALTypeOK, Whole
  <2>2. ASSUME NEW j \in 1 .. i PROVE wal[j] # TornRec
    <3>1. j = i \/ j \in 1 .. Len(wal) - 1
      BY <2>1
    <3> QED
      BY <2>1, <3>1
  <2> QED
    BY <2>2 DEF Readings
<1> QED
  BY <1>1 DEF Readings

\* A cut log gives back the same for a key of which no record was in the buffer.
LEMMA CutKeeps ==
  ASSUME WALTypeOK, WALCut, NEW k \in Keys, ~ \E i \in walSynced + 1 .. Len(wal) : wal[i].key = k
  PROVE  Replay(Whole)'[k] = Replay(Whole)[k]
<1> DEFINE of == {i \in Whole : wal[i].key = k}
           now == {i \in Whole' : wal'[i].key = k}
<1>1. Len(wal) \in Nat /\ walSynced \in 0 .. Len(wal) /\ wal \in Seq(Records \cup {TornRec})
  BY DEF WALTypeOK
<1>2. PICK n \in walSynced .. Len(wal), torn \in {<<>>, <<TornRec>>} : wal' = SubSeq(wal, 1, n) \o torn
  BY <1>1 DEF WALCut
<1>3. n \in 0 .. Len(wal) /\ walSynced <= n
  BY <1>1, <1>2
<1>4. SubSeq(wal, 1, n) \in Seq(Records \cup {TornRec}) /\ Len(SubSeq(wal, 1, n)) = n
      /\ \A i \in 1 .. n : SubSeq(wal, 1, n)[i] = wal[i]
  BY <1>1, <1>3
<1>5. /\ n <= Len(wal') /\ Len(wal') \in Nat
      /\ \A i \in 1 .. n : wal'[i] = wal[i]
      /\ \A i \in 1 .. Len(wal') : i > n => wal'[i] = TornRec
  <2>1. CASE torn = <<>>
    BY <1>1, <1>2, <1>3, <1>4, <2>1
  <2>2. CASE torn = <<TornRec>>
    <3>1. /\ Len(wal') = n + 1 /\ wal'[n + 1] = TornRec
          /\ \A i \in 1 .. n : wal'[i] = wal[i]
      <4> DEFINE front == SubSeq(wal, 1, n)
                 S == Records \cup {TornRec}
      <4>1. wal' = Append(front, TornRec)
        <5>1. front \in Seq(S) /\ wal' = front \o <<TornRec>>
          BY <1>2, <1>4, <2>2
        <5> HIDE DEF front
        <5> QED
          BY <5>1
      <4>2. front \in Seq(S) /\ Len(front) = n /\ \A i \in 1 .. n : front[i] = wal[i]
        BY <1>4
      <4> HIDE DEF front
      <4> QED
        BY <1>3, <4>1, <4>2
    <3> QED
      BY <1>1, <1>3, <3>1
  <2> QED
    BY <1>2, <2>1, <2>2
<1>6. now = of
  <2>1. ASSUME NEW i \in of PROVE i \in now
    <3>1. i \in 1 .. Len(wal) /\ wal[i] # TornRec /\ wal[i].key = k
      BY DEF Whole
    <3>2. i \in 1 .. n
      BY <1>1, <1>3, <3>1
    <3> QED
      BY <1>3, <1>5, <3>1, <3>2 DEF Whole
  <2>2. ASSUME NEW i \in now PROVE i \in of
    <3>1. i \in 1 .. Len(wal') /\ wal'[i] # TornRec /\ wal'[i].key = k
      BY DEF Whole
    <3>2. i \in 1 .. n /\ i \in 1 .. Len(wal)
      BY <1>3, <1>5, <3>1
    <3> QED
      BY <1>5, <3>1, <3>2 DEF Whole
  <2> QED
    BY <2>1, <2>2
<1>7. of # {} => Max(of) \in of /\ of \subseteq 1 .. n
  <2>1. of \in SUBSET (1 .. Len(wal))
    BY DEF Whole
  <2>2. of # {} => Max(of) \in of
    <3> HIDE DEF of
    <3> QED
      BY <1>1, <2>1, LastPosition
  <2>3. \A i \in of : i \in 1 .. n
    BY <1>1, <1>3 DEF Whole
  <2> QED
    BY <2>2, <2>3
<1>8. Replay(Whole)[k] = (IF of = {} THEN Missing ELSE wal[Max(of)].content)
  BY DEF Replay
<1>9. Replay(Whole)'[k] = (IF now = {} THEN Missing ELSE wal'[Max(now)].content)
  BY DEF Replay
<1> HIDE DEF of, now
<1> QED
  BY <1>5, <1>6, <1>7, <1>8, <1>9

\* What an immutable memtable that outlives its flush holds, the tables have.
LEMMA LeftIsNewest ==
  ASSUME KVInv, TablesInv, SavedInv, faults = 0, pc \notin {"clear", "create", "write", "down"},
         NEW k \in Keys, immutable[k] # Missing
  PROVE  OnTables(k) = immutable[k]
<1>1. nextId - 1 \in Ids /\ disk[nextId - 1] = immutable /\ immutable \in Tables
  BY LeftOnTable
<1>2. \A i \in Ids : disk[i] # Missing => i <= nextId - 1
  <2>1. \A i \in Ids : i \in Int
    BY DEF Ids
  <2>2. nextId \in Int
    BY DEF TablesInv
  <2> QED
    BY <2>1, <2>2 DEF TablesInv
<1> QED
  BY <1>1, <1>2, NewestIs, OnTablesIs

\* What is on disk for k: in the log, or else in the tables.
OnDisk(k) == IF Replay(Whole)[k] # Missing THEN Replay(Whole)[k] ELSE OnTables(k)

\* Between flushes, and in one until the log is cleared, what is recorded for k is
\* on disk, or on its way there in the buffer of the log; after that, if k is not
\* among the keys that are flushed.
LEMMA RecordedOnDisk ==
  ASSUME KVInv, TablesInv, MirrorInv, SavedInv, faults = 0,
         \A i \in 1 .. Len(wal) - 1 : wal[i] # TornRec,
         NEW k \in Keys, ~(pc \in {"create", "write"} /\ immutable[k] # Missing)
  PROVE  Recorded(k) = OnDisk(k)
<1> DEFINE mem == IF pc = "down" THEN Replay(Whole) ELSE memtable
<1>1. Recorded(k) = IF mem[k] # Missing THEN mem[k] ELSE IF immutable[k] # Missing THEN immutable[k] ELSE OnTables(k)
  BY DEF Recorded
<1>2. WALTypeOK
  BY DEF KVInv, ValuesTypeOK
<1>3. Empty[k] = Missing
  BY DEF Empty
<1>4. ASSUME immutable[k] # Missing, pc \notin {"clear", "create", "write", "down"}
      PROVE  OnTables(k) = immutable[k]
  BY <1>4, LeftIsNewest
<1>5. CASE pc = "down"
  <2>1. immutable[k] = Missing
    BY <1>3, <1>5 DEF KVInv, FlushShape, Flushing
  <2> QED
    BY <1>1, <1>5, <2>1 DEF OnDisk
<1>6. CASE pc \in {"ready", "batch", "swap", "close"}
  <2>1. PICK read \in Readings : Replay(read) = memtable
    BY <1>6 DEF MirrorInv, Mirrored
  <2>2. Replay(Whole) = memtable
    BY <1>2, <2>1, OneReading
  <2> QED
    BY <1>1, <1>4, <1>6, <2>2 DEF OnDisk
<1>7. CASE pc = "clear"
  <2>1. PICK read \in Readings : Replay(read) = immutable
    BY <1>7 DEF MirrorInv
  <2>2. Replay(Whole) = immutable
    BY <1>2, <2>1, OneReading
  <2>3. memtable[k] = Missing
    BY <1>3, <1>7 DEF KVInv, FlushShape, Flushing
  <2> QED
    BY <1>1, <1>7, <2>2, <2>3 DEF OnDisk
<1>8. CASE pc \in {"create", "write", "finish"}
  <2>1. wal = <<>>
    BY <1>8 DEF MirrorInv
  <2>2. Replay(Whole)[k] = Missing
    <3>1. Whole = {}
      BY <2>1 DEF Whole
    <3> QED
      BY <3>1 DEF Replay
  <2>3. memtable[k] = Missing
    BY <1>3, <1>8 DEF KVInv, FlushShape, Flushing
  <2>4. pc # "finish" => immutable[k] = Missing
    BY <1>8
  <2> QED
    BY <1>1, <1>4, <1>8, <2>2, <2>3, <2>4 DEF OnDisk
<1> QED
  BY <1>5, <1>6, <1>7, <1>8 DEF KVInv, ValuesTypeOK, Flushing

\* No step takes a fault back.
LEMMA FaultsStay ==
  ASSUME SavedInv, [Next]_vars, faults' = 0
  PROVE  faults = 0
<1>1. faults' = faults \/ faults' = faults + 1
  BY DEF Next, vars, boundVars, Get, Delete, Put, BatchPut, Apply, PutBatch, WriteFails, Flush, SwapMemTable,
         ClearLog, CreateTable, CreateFails, WriteTable, FilterThrows, EntriesWritten, FinishFlush, Close,
         CloseLog, Crash, Restart
<1> QED
  BY <1>1 DEF SavedInv

\* What a step may do to what is recorded for k.
KeptOrWritten(k) ==
  \/ Recorded(k)' = Recorded(k)
  \/ wal' = Append(wal, [key |-> k, content |-> Recorded(k)'])
  \/ /\ crashes' = crashes + 1
     /\ \/ \E i \in walSynced + 1 .. Len(wal) : wal[i].key = k
        \/ pc \in {"create", "write"} /\ immutable[k] # Missing

LEMMA RecordedByAll ==
  ASSUME KVInv, TablesInv, MirrorInv, SavedInv, [Next]_vars, faults' = 0,
         \A i \in 1 .. Len(wal) - 1 : wal[i] # TornRec, NEW k \in Keys
  PROVE  KeptOrWritten(k)
<1>1. faults = 0
  BY FaultsStay
<1>2. /\ pc # "down" => Recorded(k) = IF memtable[k] # Missing THEN memtable[k]
                                      ELSE IF immutable[k] # Missing THEN immutable[k] ELSE OnTables(k)
      /\ pc' # "down" => Recorded(k)' = IF memtable'[k] # Missing THEN memtable'[k]
                                        ELSE IF immutable'[k] # Missing THEN immutable'[k] ELSE OnTables(k)'
      /\ pc' = "down" /\ immutable'[k] = Missing =>
           Recorded(k)' = IF Replay(Whole)'[k] # Missing THEN Replay(Whole)'[k] ELSE OnTables(k)'
  BY DEF Recorded
<1>3. disk' = disk => OnTables(k)' = OnTables(k)
  BY OnTablesIs
<1>4. Empty[k] = Missing /\ WALTypeOK
  BY DEF Empty, KVInv, ValuesTypeOK
<1>5. \A i \in Ids : disk[i] \in Tables => disk'[i] = disk[i]
  BY TablesByAll
<1>6. TornTable \notin Tables /\ Missing \notin Tables
  BY StoreAssumption DEF Tables
<1>7. ASSUME UNCHANGED <<memtable, immutable, disk>>, pc # "down", pc' # "down" PROVE KeptOrWritten(k)
  BY <1>2, <1>3, <1>7 DEF KeptOrWritten
<1>8. ASSUME NEW j \in Keys, NEW c \in Contents, Apply(j, c), pc # "down", pc' # "down" PROVE KeptOrWritten(k)
  <2>1. /\ memtable' = [memtable EXCEPT ![j] = c] /\ memtable \in Tables
        /\ wal' = Append(wal, [key |-> j, content |-> c])
        /\ UNCHANGED <<immutable, disk>>
    BY <1>8 DEF Apply, MemSet, WALAppend, tableVars, KVInv, ValuesTypeOK
  <2>2. CASE j = k
    <3>1. memtable'[k] = c /\ c # Missing
      BY <2>1, <2>2, EntriesAssumption DEF Tables
    <3> QED
      BY <1>2, <1>8, <2>1, <2>2, <3>1 DEF KeptOrWritten
  <2>3. CASE j # k
    <3>1. memtable'[k] = memtable[k]
      BY <2>1, <2>3 DEF Tables
    <3> QED
      BY <1>2, <1>3, <1>8, <2>1, <3>1 DEF KeptOrWritten
  <2> QED
    BY <2>2, <2>3
<1>9. ASSUME SwapMemTable PROVE KeptOrWritten(k)
  <2>1. pc = "swap" /\ pc' = "clear" /\ memtable' = Empty /\ immutable' = memtable /\ disk' = disk
    BY <1>9 DEF SwapMemTable, tableVars
  <2>2. immutable[k] # Missing => OnTables(k) = immutable[k]
    BY <1>1, <2>1, LeftIsNewest
  <2> QED
    BY <1>2, <1>3, <1>4, <2>1, <2>2 DEF KeptOrWritten
<1>10. ASSUME CreateTable PROVE KeptOrWritten(k)
  <2>1. /\ pc = "create" /\ pc' = "write" /\ UNCHANGED <<memtable, immutable>>
        /\ disk' = [disk EXCEPT ![nextId] = TornTable] /\ disk \in [Ids -> Tables \cup {Missing, TornTable}]
    BY <1>10 DEF CreateTable, memVars, TablesInv
  <2>2. nextId \in Ids => disk[nextId] = Missing
    BY <2>1 DEF TablesInv, Ids
  <2>3. Having(disk', k) = Having(disk, k)
    BY <1>6, <2>1, <2>2 DEF Having
  <2>4. OnTables(k)' = OnTables(k)
    BY <1>5, <2>3, SameTables
  <2> QED
    BY <1>2, <2>1, <2>4 DEF KeptOrWritten
<1>11. ASSUME WriteTable \/ FilterThrows PROVE KeptOrWritten(k)
  <2>1. /\ pc = "write"
        /\ disk' = [disk EXCEPT ![nextId - 1] = immutable]
        /\ \/ pc' \in {"finish", "ready"} /\ UNCHANGED <<memtable, immutable>>
           \/ pc' = "down" /\ immutable' = Empty /\ WALCut
    BY <1>11, <1>1 DEF WriteTable, FilterThrows, EntriesWritten, LoseMemory, memVars
  <2>2. /\ disk \in [Ids -> Tables \cup {Missing, TornTable}]
        /\ nextId - 1 \in Ids /\ disk[nextId - 1] = TornTable /\ immutable \in Tables
    BY <2>1 DEF TablesInv, KVInv, ValuesTypeOK
  <2>3. immutable[k] = Missing => OnTables(k)' = OnTables(k)
    <3>1. immutable[k] = Missing => Having(disk', k) = Having(disk, k)
      BY <1>6, <2>1, <2>2 DEF Having
    <3> QED
      BY <1>5, <3>1, SameTables
  <2>4. immutable[k] # Missing => OnTables(k)' = immutable[k]
    <3>1. disk'[nextId - 1] = immutable
      BY <2>1, <2>2
    <3>2. \A i \in Ids : disk'[i] # Missing => i <= nextId - 1
      <4>1. nextId \in Int /\ \A i \in Ids : i \in Int
        BY DEF TablesInv, Ids
      <4>2. \A i \in Ids : disk[i] # Missing => i < nextId
        BY <2>1 DEF TablesInv
      <4> QED
        BY <2>1, <2>2, <4>1, <4>2
    <3> QED
      BY <2>2, <3>1, <3>2, NewestIs, OnTablesIs
  <2>5. memtable[k] = Missing
    BY <1>4, <2>1 DEF KVInv, FlushShape, Flushing
  <2>6. pc' = "down" => Replay(Whole)'[k] = Missing
    <3>1. wal = <<>>
      BY <2>1 DEF MirrorInv
    <3>2. Len(wal) = 0 /\ Whole = {} /\ walSynced = 0
      BY <1>4, <3>1 DEF Whole, WALTypeOK
    <3>3. Replay(Whole)[k] = Missing
      BY <3>2 DEF Replay
    <3>4. ~ \E i \in walSynced + 1 .. Len(wal) : wal[i].key = k
      BY <3>2
    <3> QED
      BY <1>4, <2>1, <3>3, <3>4, CutKeeps
  <2> QED
    BY <1>2, <1>4, <2>1, <2>3, <2>4, <2>5, <2>6 DEF KeptOrWritten
<1>12. ASSUME FinishFlush PROVE KeptOrWritten(k)
  <2>1. /\ pc = "finish" /\ pc' \in {"close", "ready"} /\ immutable' = Empty
        /\ memtable' = memtable /\ disk' = disk
    BY <1>12 DEF FinishFlush, MaybeCompact, tableVars
  <2>2. immutable[k] # Missing => OnTables(k) = immutable[k]
    BY <1>1, <2>1, LeftIsNewest
  <2> QED
    BY <1>2, <1>3, <1>4, <2>1, <2>2 DEF KeptOrWritten
<1>13. ASSUME CloseLog PROVE KeptOrWritten(k)
  <2>1. pc = "close" /\ pc' = "down" /\ immutable' = Empty /\ disk' = disk /\ wal' = wal
    BY <1>1, <1>13 DEF CloseLog, LoseMemory, WALClose, SavedInv
  <2>2. Recorded(k) = OnDisk(k)
    BY <1>1, <2>1, RecordedOnDisk
  <2>3. Replay(Whole)' = Replay(Whole)
    BY <2>1 DEF Replay, Whole
  <2> QED
    BY <1>2, <1>3, <1>4, <2>1, <2>2, <2>3 DEF KeptOrWritten, OnDisk
<1>14. ASSUME Crash PROVE KeptOrWritten(k)
  <2>1. pc # "down" /\ pc' = "down" /\ immutable' = Empty /\ disk' = disk /\ WALCut /\ crashes' = crashes + 1
    BY <1>14 DEF Crash, LoseMemory
  <2>2. CASE \/ \E i \in walSynced + 1 .. Len(wal) : wal[i].key = k
             \/ pc \in {"create", "write"} /\ immutable[k] # Missing
    BY <2>1, <2>2 DEF KeptOrWritten
  <2>3. CASE ~ \/ \E i \in walSynced + 1 .. Len(wal) : wal[i].key = k
               \/ pc \in {"create", "write"} /\ immutable[k] # Missing
    <3>1. Recorded(k) = OnDisk(k)
      BY <1>1, <2>3, RecordedOnDisk
    <3>2. Replay(Whole)'[k] = Replay(Whole)[k]
      BY <1>4, <2>1, <2>3, CutKeeps
    <3> QED
      BY <1>2, <1>3, <1>4, <2>1, <3>1, <3>2 DEF KeptOrWritten, OnDisk
  <2> QED
    BY <2>2, <2>3
<1>15. ASSUME Restart PROVE KeptOrWritten(k)
  <2>1. PICK read \in Readings : memtable' = Replay(read)
    BY <1>15 DEF Restart
  <2>2. pc = "down" /\ pc' = "ready" /\ immutable' = immutable /\ disk' = disk
    BY <1>15 DEF Restart
  <2>3. read = Whole
    BY <1>4, OneReading
  <2>4. Recorded(k) = OnDisk(k) /\ immutable[k] = Missing
    BY <1>1, <1>4, <2>2, RecordedOnDisk DEF KVInv, FlushShape, Flushing
  <2> QED
    BY <1>2, <1>3, <2>1, <2>2, <2>3, <2>4 DEF KeptOrWritten, OnDisk
<1>16. ASSUME UNCHANGED vars PROVE KeptOrWritten(k)
  <2>1. UNCHANGED <<wal, pc, memtable, immutable, disk>>
    BY <1>16 DEF vars, walVars, ctlVars, memVars, tableVars
  <2>2. Replay(Whole)' = Replay(Whole)
    BY <2>1 DEF Replay, Whole
  <2> QED
    BY <1>3, <2>1, <2>2 DEF Recorded, KeptOrWritten
<1>17. ASSUME NEW j \in Keys, NEW v \in Values, Put(j, v) \/ BatchPut(j, v) PROVE KeptOrWritten(k)
  BY <1>8, <1>17 DEF Put, BatchPut, Open, FlushIfFull, Contents
<1>18. ASSUME NEW j \in Keys, Delete(j) PROVE KeptOrWritten(k)
  BY <1>8, <1>18 DEF Delete, Open, ctlVars, Contents
<1>19. ASSUME \/ \E j \in Keys : Get(j)
              \/ \E n \in 0 .. MaxBatch : PutBatch(n)
              \/ WriteFails \/ Flush \/ ClearLog \/ Close
       PROVE  KeptOrWritten(k)
  <2>1. UNCHANGED <<memtable, immutable, disk>> /\ pc # "down" /\ pc' # "down"
    BY <1>19 DEF Get, PutBatch, FlushIfFull, WriteFails, Flush, ClearLog, Close, Open, memVars, tableVars, ctlVars
  <2> QED
    BY <1>7, <2>1
<1>20. ~CreateFails
  BY <1>1 DEF CreateFails
<1> QED
  BY <1>9, <1>10, <1>11, <1>12, <1>13, <1>14, <1>15, <1>16, <1>17, <1>18, <1>19, <1>20 DEF Next

\* For any keys, values, sizes, flushes, interrupted flushes, batches, crashes and
\* restarts: what is recorded for a key stays, but for writes to it and for what a
\* crash finds in the buffer of the log or between the log and a table.
THEOREM NothingElseLost == Spec => RecordedStays
<1>1. Init => SavedInv
  BY DEF Init, WALInit, CacheInit, SavedInv, Empty
<1>2. KVInv /\ TablesInv /\ SavedInv /\ [Next]_vars => SavedInv'
  BY SavedByAll
<1>3. KVInv /\ TablesInv /\ MirrorInv /\ SavedInv /\ [Next]_vars =>
        [faults' = 0 /\ (\A i \in 1 .. Len(wal) - 1 : wal[i] # TornRec) =>
           \A k \in Keys : KeptOrWritten(k)]_vars
  BY RecordedByAll
<1> QED
  BY <1>1, <1>2, <1>3, StoreInvariance, TablesAlways, MirrorsAlways, PTL DEF Spec, RecordedStays, KeptOrWritten
=============================================================================
