----------------------------- MODULE LSMEngine -----------------------------
(***************************************************************************)
(* The LSM engine (kvstore/src/lsm_engine.cpp): the second store of the    *)
(* repository, which compacts in a background thread.  It is not built,    *)
(* and it calls a memtable, log and table class that the other files do    *)
(* not have; they are external here and do what the engine expects: the    *)
(* log keeps what was appended, a table answers for its keys, and opening  *)
(* a table file that is not complete throws.                               *)
(*                                                                         *)
(* Each call holds mu_ to its end, so nobody sees a flush or a compaction  *)
(* half done, except a crash.  Its steps are the moments at which a crash  *)
(* or an exception leaves something of its own.                            *)
(*                                                                         *)
(* remove(k) puts the string "__TOMBSTONE__", here Tomb.  Deleting a       *)
(* table's file, SSTable::remove(), is taken not to throw.                 *)
(***************************************************************************)
EXTENDS Entries, TableNames, SequencesExt

CONSTANTS
  EntryBytes,   \* EntryBytes[c]: what an entry holding c adds to a memtable
  FlushAt,      \* bytes at which should_flush() says so
  Level0Max,    \* 4 in the source
  TornTable,    \* a table file that is not complete
  MaxTables, MaxWrites, MaxMishaps   \* bounds

ASSUME EngineAssumption ==
  /\ EntryBytes \in [Contents -> Nat \ {0}]
  /\ FlushAt \in Nat \ {0}
  /\ Level0Max \in Nat
  /\ MaxTables \in 1 .. 99
  /\ {MaxWrites, MaxMishaps} \subseteq Nat

Table == [Keys -> Contents \cup {Missing}]
Empty == [k \in Keys |-> Missing]
Ids == 0 .. MaxTables - 1

ASSUME MarksAssumption ==
  /\ TornTable # Missing
  /\ {TornTable, Missing} \cap [level : {0, 1}, data : Table] = {}

VARIABLES
  mem,        \* active_memtable_
  imm,        \* immutable_memtable_, Empty when it is null
  wal,        \* the last record of each key in the log
  disk,       \* disk[i]: the file "sstable_i.sst", Missing if there is none
  sstables,   \* sstables_: the ids of the open tables
  nextId,     \* next_sstable_id_
  pc,         \* "down", "ready" (mu_ is free), or what its holder does next
  running,    \* running_
  thread,     \* where compaction_thread_ is
  closing,    \* close() waits for the thread
  past,       \* history: the values written to each key
  damaged,    \* history: a table could not be created or opened
  writes, mishaps   \* counted against their bounds: calls; crashes and exceptions

dataVars == <<mem, imm, wal>>
tableVars == <<disk, sstables, nextId>>
ctlVars == <<pc, running, thread, closing>>
histVars == <<past, damaged>>
boundVars == <<writes, mishaps>>
vars == <<dataVars, tableVars, ctlVars, histVars, boundVars>>

Init ==
  /\ mem = Empty /\ imm = Empty /\ wal = Empty
  /\ disk = [i \in Ids |-> Missing]
  /\ sstables = <<>> /\ nextId = 0
  /\ pc = "ready" /\ running = TRUE /\ thread = "sleep" /\ closing = FALSE
  /\ past = [k \in Keys |-> {}] /\ damaged = FALSE
  /\ writes = 0 /\ mishaps = 0

Mishap == mishaps < MaxMishaps /\ mishaps' = mishaps + 1

----------------------------------------------------------------------------
(* Reading.                                                                *)

\* The value in the last table of the list that has the key.
Newest(tables, k) ==
  LET at == {n \in 1 .. Len(tables) : disk[tables[n]].data[k] # Missing}
  IN IF at = {} THEN Missing ELSE disk[tables[Max(at)]].data[k]

\* get(): a mark left by remove() is answered like a value.
GetAnswer(k) ==
  IF mem[k] # Missing THEN mem[k]
  ELSE IF imm[k] # Missing THEN imm[k]
  ELSE Newest(sstables, k)

----------------------------------------------------------------------------
(* Writing and flushing.                                                   *)

Full(table) ==
  SumFunctionOnSet([k \in Keys |-> IF table[k] = Missing THEN 0 ELSE EntryBytes[table[k]]], Keys)
    >= FlushAt

\* put() and remove(): the log, then the memtable.
Put(k, c) ==
  /\ pc = "ready"
  /\ writes < MaxWrites
  /\ writes' = writes + 1
  /\ wal' = [wal EXCEPT ![k] = c]
  /\ mem' = [mem EXCEPT ![k] = c]
  /\ past' = [past EXCEPT ![k] = @ \cup ({c} \cap Values)]
  /\ pc' = IF Full(mem') THEN "flush" ELSE "ready"
  /\ UNCHANGED <<imm, tableVars, running, thread, closing, damaged, mishaps>>

\* generate_sstable_filename(), and create() opens the file.
NewFile ==
  /\ nextId < MaxTables
  /\ disk' = [disk EXCEPT ![nextId] = TornTable]
  /\ nextId' = nextId + 1

FlushStart ==
  /\ pc = "flush"
  /\ NewFile
  /\ imm' = mem
  /\ mem' = Empty
  /\ pc' = "write"
  /\ UNCHANGED <<wal, sstables, running, thread, closing, histVars, boundVars>>

FlushWrite ==
  /\ pc = "write"
  /\ disk' = [disk EXCEPT ![nextId - 1] = [level |-> 0, data |-> imm]]
  /\ sstables' = Append(sstables, nextId - 1)
  /\ pc' = "clear"
  /\ UNCHANGED <<dataVars, nextId, running, thread, closing, histVars, boundVars>>

\* Creating the table or opening it throws out of put() or close(): the
\* immutable memtable stays, and the next flush replaces it.
FlushFails ==
  /\ pc = "write"
  /\ Mishap
  /\ disk' \in {disk, [disk EXCEPT ![nextId - 1] = [level |-> 0, data |-> imm]]}
  /\ damaged' = TRUE
  /\ pc' = "ready"
  /\ UNCHANGED <<dataVars, sstables, nextId, running, thread, closing, past, writes>>

FlushEnd ==
  /\ pc = "clear"
  /\ imm' = Empty
  /\ wal' = Empty
  /\ pc' = "ready"
  /\ UNCHANGED <<mem, tableVars, running, thread, closing, histVars, boundVars>>

----------------------------------------------------------------------------
(* Compaction, by the thread or by a client's compact().                   *)

\* level0_tables, as positions in sstables_.
Level0 == {n \in 1 .. Len(sstables) : disk[sstables[n]].level = 0}

TooMany == Cardinality(Level0) > Level0Max

\* Mutant of Merged: the first table that has the key wins.
MergedOldest ==
  [k \in Keys |->
     LET at == {n \in Level0 : disk[sstables[n]].data[k] \in Values}
     IN IF at = {} THEN Missing ELSE disk[sstables[Min(at)]].data[k]]

\* The loop over level0_tables: marks are skipped, and do not take away what
\* an older table has put into merged_data.
Merged ==
  [k \in Keys |->
     LET at == {n \in Level0 : disk[sstables[n]].data[k] \in Values}
     IN IF at = {} THEN Missing ELSE disk[sstables[Max(at)]].data[k]]

\* The loop of compact_background() after a compaction.
ThreadGoesOn == thread' = IF running THEN "sleep" ELSE "ended"

MergeStart ==
  /\ pc = "ready"
  /\ TooMany
  /\ NewFile
  /\ pc' = "merge"
  /\ UNCHANGED <<dataVars, sstables, running, closing, histVars, boundVars>>

MergeWrite ==
  /\ pc = "merge"
  /\ disk' = [disk EXCEPT ![nextId - 1] = [level |-> 1, data |-> Merged]]
  /\ pc' = "remove"
  /\ UNCHANGED <<dataVars, sstables, nextId, running, thread, closing, histVars, boundVars>>

\* The holder of mu_ returns from compact(): the thread, or else a client.
Release ==
  /\ pc' = "ready"
  /\ IF thread = "compact" THEN ThreadGoesOn ELSE UNCHANGED thread
  /\ UNCHANGED <<dataVars, nextId, running, closing, past, writes>>

\* create() throws.
MergeFails ==
  /\ pc = "merge"
  /\ Mishap
  /\ Release
  /\ UNCHANGED <<disk, sstables, damaged>>

\* Mutants of RemoveTable: the file is deleted and stays open; the newest table
\* goes first.
RemoveTableLeavesOpen ==
  /\ pc = "remove"
  /\ Level0 # {}
  /\ disk' = [disk EXCEPT ![sstables[Min(Level0)]] = Missing]
  /\ UNCHANGED <<dataVars, sstables, nextId, ctlVars, histVars, boundVars>>

RemoveTableBackwards ==
  /\ pc = "remove"
  /\ Level0 # {}
  /\ disk' = [disk EXCEPT ![sstables[Max(Level0)]] = Missing]
  /\ sstables' = RemoveAt(sstables, Max(Level0))
  /\ UNCHANGED <<dataVars, nextId, ctlVars, histVars, boundVars>>

\* remove_if goes through sstables_ from its beginning.
RemoveTable ==
  /\ pc = "remove"
  /\ Level0 # {}
  /\ disk' = [disk EXCEPT ![sstables[Min(Level0)]] = Missing]
  /\ sstables' = RemoveAt(sstables, Min(Level0))
  /\ UNCHANGED <<dataVars, nextId, ctlVars, histVars, boundVars>>

\* Mutant of MergeEnd: the new table is not added.
MergeEndForgets ==
  /\ pc = "remove"
  /\ Level0 = {}
  /\ Release
  /\ UNCHANGED <<disk, sstables, damaged, mishaps>>

MergeEnd ==
  /\ pc = "remove"
  /\ Level0 = {}
  /\ sstables' = Append(sstables, nextId - 1)
  /\ Release
  /\ UNCHANGED <<disk, damaged, mishaps>>

\* Opening the new table throws, when the old ones are gone.
OpenFails ==
  /\ pc = "remove"
  /\ Level0 = {}
  /\ Mishap
  /\ damaged' = TRUE
  /\ Release
  /\ UNCHANGED <<disk, sstables>>

\* A client's compact().
Compact == MergeStart /\ UNCHANGED thread

----------------------------------------------------------------------------
(* The thread.                                                             *)

\* The end of a sleep.
Wake ==
  /\ thread = "sleep"
  /\ thread' = IF running THEN "want" ELSE "ended"
  /\ UNCHANGED <<dataVars, tableVars, pc, running, closing, histVars, boundVars>>

\* Mutant of ThreadCompact: a compaction that is not needed yet ends the thread.
ThreadCompactOrEnds ==
  /\ thread = "want"
  /\ pc = "ready"
  /\ \/ MergeStart /\ thread' = "compact"
     \/ ~TooMany /\ thread' = "ended"
        /\ UNCHANGED <<dataVars, tableVars, pc, running, closing, histVars, boundVars>>

\* compact() gets mu_.
ThreadCompact ==
  /\ thread = "want"
  /\ pc = "ready"
  /\ \/ MergeStart /\ thread' = "compact"
     \/ ~TooMany /\ ThreadGoesOn
        /\ UNCHANGED <<dataVars, tableVars, pc, running, closing, histVars, boundVars>>

----------------------------------------------------------------------------
(* Closing, crashing and opening again.                                    *)

\* Mutant of Close: running_ is not set.
CloseForgets ==
  /\ pc # "down"
  /\ ~closing
  /\ closing' = TRUE
  /\ UNCHANGED <<dataVars, tableVars, pc, running, thread, histVars, boundVars>>

\* close() until it waits for the thread.
Close ==
  /\ pc # "down"
  /\ ~closing
  /\ running' = FALSE
  /\ closing' = TRUE
  /\ UNCHANGED <<dataVars, tableVars, pc, thread, histVars, boundVars>>

\* The thread has ended, and close() gets mu_.
Closed ==
  /\ closing
  /\ thread = "ended"
  /\ pc = "ready"
  /\ closing' = FALSE
  /\ pc' = IF mem # Empty THEN "flush" ELSE "ready"
  /\ UNCHANGED <<dataVars, tableVars, running, thread, histVars, boundVars>>

LoseMemory ==
  /\ mem' = Empty /\ imm' = Empty
  /\ sstables' = <<>> /\ nextId' = 0
  /\ pc' = "down" /\ running' = FALSE /\ thread' = "ended" /\ closing' = FALSE

\* The destructor has closed the engine.
Exit ==
  /\ pc = "ready"
  /\ ~running /\ ~closing
  /\ thread = "ended"
  /\ mem = Empty
  /\ LoseMemory
  /\ UNCHANGED <<wal, disk, histVars, boundVars>>

Crash ==
  /\ pc # "down"
  /\ Mishap
  /\ LoseMemory
  /\ UNCHANGED <<wal, disk, histVars, writes>>

\* The files that open; an incomplete one is skipped.
Complete == {i \in Ids : disk[i] \notin {Missing, TornTable}}

Loadable == ByName(Complete)

\* The constructor.
Restart ==
  /\ pc = "down"
  /\ mem' = wal
  /\ sstables' = Loadable
  /\ nextId' = IF Complete = {} THEN 0 ELSE Max(Complete) + 1
  /\ pc' = "ready" /\ running' = TRUE /\ thread' = "sleep"
  /\ UNCHANGED <<imm, wal, disk, closing, histVars, boundVars>>

----------------------------------------------------------------------------
ThreadStep == Wake \/ ThreadCompact

\* The steps of whoever holds mu_.
HolderStep ==
  FlushStart \/ FlushWrite \/ FlushEnd \/ MergeWrite \/ RemoveTable \/ MergeEnd

Fault == FlushFails \/ MergeFails \/ OpenFails \/ Crash

Next ==
  \/ \E k \in Keys, c \in Contents : Put(k, c)
  \/ Compact \/ Close \/ Closed \/ Exit \/ Restart
  \/ ThreadStep \/ HolderStep \/ Fault

Spec == Init /\ [][Next]_vars

\* Threads run, whoever holds mu_ goes on, and a waiting thread gets it in the
\* end (writes are bounded, so it is not taken from it for ever).
FairSpec ==
  Spec /\ WF_vars(ThreadStep) /\ WF_vars(HolderStep) /\ WF_vars(Closed)

----------------------------------------------------------------------------
EngineTypeOK ==
  /\ mem \in Table /\ imm \in Table /\ wal \in Table
  /\ disk \in [Ids -> [level : {0, 1}, data : Table] \cup {Missing, TornTable}]
  /\ sstables \in Seq(Ids)
  /\ \A n \in 1 .. Len(sstables) : disk[sstables[n]] \notin {Missing, TornTable}
  /\ nextId \in 0 .. MaxTables
  /\ pc \in {"down", "ready", "flush", "write", "clear", "merge", "remove"}
  /\ running \in BOOLEAN /\ closing \in BOOLEAN /\ damaged \in BOOLEAN
  /\ thread \in {"sleep", "want", "compact", "ended"}
  /\ past \in [Keys -> SUBSET Values]

\* A table whose number has two digits, so that names and numbers disagree.
Overgrown == \E i \in Complete : i >= 10

\* Whenever mu_ is free, what a restart would load is what is open: the same
\* tables, in the same order until there is an eleventh, and the memtable is in
\* the log.  Flushes, compactions and crashes at each of their steps must leave it
\* so, as long as every table could be created and opened.
MemoryMatchesDisk ==
  pc = "ready" /\ ~damaged =>
    /\ mem = wal /\ imm = Empty
    /\ Range(sstables) = Range(Loadable)
    /\ ~Overgrown => sstables = Loadable

\* Tables are open once each; numbers are given upwards, and until there is an
\* eleventh table they are open in that order.
TablesInOrder ==
  /\ IsInjective(sstables)
  /\ ~Overgrown => Ascending(sstables)
  /\ pc # "down" => \A i \in Complete : i < nextId
  /\ pc = "down" => sstables = <<>> /\ mem = Empty /\ imm = Empty
  /\ pc \in {"write", "merge"} => nextId - 1 \in Ids \ Complete
  /\ pc = "clear" => nextId - 1 \in Complete /\ disk[nextId - 1].data = imm
  /\ pc = "remove" => nextId - 1 \in Complete \ Range(sstables) /\ disk[nextId - 1].level = 1

\* Every complete file is open, or the table that a compaction has just written;
\* the log has what is in memory.
NothingForgotten ==
  /\ pc # "down" => Complete = Range(sstables) \cup (IF pc = "remove" THEN {nextId - 1} ELSE {})
  /\ pc \in {"ready", "flush", "merge", "remove"} => mem = wal /\ imm = Empty
  /\ pc \in {"write", "clear"} => mem = Empty /\ imm = wal

\* An older table of level 0 that a compaction has not removed yet is no
\* contradiction: what it and its like say last of a key, the merged table says.
MergesCoverOlder ==
  \A q \in Complete : disk[q].level = 1 => \A k \in Keys :
    LET older == {p \in Complete : p < q /\ disk[p].level = 0 /\ disk[p].data[k] \in Values}
    IN older # {} => disk[q].data[k] = disk[Max(older)].data[k]

\* No memtable, log or table has a value that was not once written to its key.
HoldsPast ==
  \A k \in Keys :
    /\ {mem[k], imm[k], wal[k]} \subseteq past[k] \cup {Missing, Tomb}
    /\ \A i \in Complete : disk[i].data[k] \in past[k] \cup {Missing, Tomb}

\* The inductive invariant behind MemoryMatchesDisk and the refinement below.
EngineInv ==
  /\ TablesInOrder /\ HoldsPast
  /\ ~damaged => NothingForgotten /\ (~Overgrown => MergesCoverOlder)

\* The value in the complete table with the last name that has the key: what a
\* search would find after a restart.
LastNamed(k) ==
  LET at == {i \in Complete : disk[i].data[k] # Missing}
  IN IF at = {} THEN Missing
     ELSE disk[CHOOSE i \in at : \A j \in at \ {i} : NameLess(j, i)].data[k]

\* What get answers; while the engine is down or removes merged tables, what
\* it would answer after a restart.
Answer(k) ==
  IF pc = "down" THEN IF wal[k] # Missing THEN wal[k] ELSE LastNamed(k)
  ELSE IF pc = "remove" THEN IF mem[k] # Missing THEN mem[k] ELSE LastNamed(k)
  ELSE GetAnswer(k)

Map ==
  INSTANCE RevivingMap
    WITH value <- [k \in Keys |-> Answer(k)], damaged <- damaged \/ Overgrown

\* A key that is not removed reads as it was last written, through flushes,
\* compactions and crashes between any two of their steps, until a table could not
\* be created or opened or an eleventh table is complete; from then on it reads as
\* absent, removed or some value once written to it.
RevivingMapSpec == Map!Spec

\* close() returns: it does not wait for a thread that waits for it, and the
\* thread sees that it should end.
CloseReturns == closing ~> ~closing

\* Tables do not pile up while the thread is there.
CompactionCatchesUp ==
  (pc = "ready" /\ TooMany) ~> (~running \/ ~TooMany)

----------------------------------------------------------------------------
(* What the header and a comment say, each checked by a run of its own.    *)

\* remove() deletes the key (kvstore/include/lsm_engine.h:71): without another
\* put, it does not come back with a value.
RemovedStaysRemoved ==
  [][\A k \in Keys : Answer(k) = Tomb /\ Answer(k)' \in Values => writes' # writes]_vars

\* get() checks the tables from newest to oldest (kvstore/src/lsm_engine.cpp:66):
\* of a key that is not in memory it answers what the table with the greatest
\* number that has the key says.
NewestTableAnswers ==
  pc = "ready" =>
    \A k \in Keys : mem[k] = Missing /\ imm[k] = Missing =>
      LET at == {i \in Range(sstables) : disk[i].data[k] # Missing}
      IN at # {} => GetAnswer(k) = disk[Max(at)].data[k]
=============================================================================
