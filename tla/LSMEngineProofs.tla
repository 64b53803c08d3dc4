--------------------------- MODULE LSMEngineProofs --------------------------
(***************************************************************************)
(* Proofs about LSMEngine, for any keys, values, sizes and bounds: tables  *)
(* are open once each and, until there is an eleventh, in the order of     *)
(* their numbers; no complete file is forgotten and none opened that is    *)
(* gone; and flushes, compactions, crashes and restarts keep what was last *)
(* written to a key until there is an eleventh table.                      *)
(***************************************************************************)
EXTENDS LSMEngine, TableNameLemmas

----------------------------------------------------------------------------
(* The files.                                                              *)

Tables == [level : {0, 1}, data : Table]

LEMMA CompleteIs ==
  ASSUME EngineTypeOK
  PROVE  /\ Complete \in SUBSET Ids /\ Complete \in SUBSET Numbers /\ Ids \subseteq Nat
         /\ \A i \in Ids : i \in Complete <=> disk[i] \in Tables
         /\ \A n \in 1 .. Len(sstables) : sstables[n] \in Complete
<1>1. {TornTable, Missing} \cap Tables = {}
  BY MarksAssumption DEF Tables
<1>2. \A i \in Ids : i \in Complete <=> disk[i] \in Tables
  BY <1>1 DEF Complete, EngineTypeOK, Tables
<1>3. Complete \in SUBSET Ids
  BY DEF Complete
<1>4. Complete \in SUBSET Numbers /\ Ids \subseteq Nat
  BY <1>3, EngineAssumption DEF Ids, Numbers
<1>5. \A n \in 1 .. Len(sstables) : sstables[n] \in Complete
  <2> SUFFICES ASSUME NEW n \in 1 .. Len(sstables) PROVE sstables[n] \in Complete
    OBVIOUS
  <2>1. sstables[n] \in Ids /\ disk[sstables[n]] \notin {Missing, TornTable}
    BY DEF EngineTypeOK
  <2> QED
    BY <2>1 DEF Complete
<1> QED
  BY <1>2, <1>3, <1>4, <1>5

\* What a table says of a key.
LEMMA TableSays ==
  ASSUME EngineTypeOK, NEW i \in Complete, NEW k \in Keys
  PROVE  /\ disk[i].level \in {0, 1} /\ disk[i].data \in Table
         /\ disk[i].data[k] \in Contents \cup {Missing}
<1>1. disk[i] \in Tables
  BY CompleteIs
<1> QED
  BY <1>1 DEF Tables, Table

\* A step that changes one file.
LEMMA OneFile ==
  ASSUME EngineTypeOK, NEW i \in Ids, NEW v, disk' = [disk EXCEPT ![i] = v]
  PROVE  /\ disk'[i] = v /\ \A j \in Ids : j # i => disk'[j] = disk[j]
         /\ v \in {Missing, TornTable} => Complete' = Complete \ {i}
         /\ v \in Tables => Complete' = Complete \cup {i}
<1>1. disk'[i] = v /\ \A j \in Ids : j # i => disk'[j] = disk[j]
  BY DEF EngineTypeOK
<1>2. {TornTable, Missing} \cap Tables = {}
  BY MarksAssumption DEF Tables
<1> QED
  BY <1>1, <1>2 DEF Complete

\* The tables that a compaction goes through.
LEMMA Level0Is ==
  ASSUME EngineTypeOK
  PROVE  /\ Len(sstables) \in Nat /\ Level0 \in SUBSET (1 .. Len(sstables))
         /\ \A n \in Level0 : sstables[n] \in Complete /\ disk[sstables[n]].level = 0
<1>1. Len(sstables) \in Nat
  BY DEF EngineTypeOK
<1> QED
  BY <1>1, CompleteIs DEF Level0

\* What it merges are values of these tables.
LEMMA MergedIs ==
  ASSUME EngineTypeOK
  PROVE  /\ Merged \in Table
         /\ \A k \in Keys :
              LET at == {n \in Level0 : disk[sstables[n]].data[k] \in Values}
              IN /\ at = {} => Merged[k] = Missing
                 /\ at # {} => /\ Max(at) \in at /\ \A n \in at : n <= Max(at)
                               /\ Merged[k] = disk[sstables[Max(at)]].data[k] /\ Merged[k] \in Values
<1>1. ASSUME NEW k \in Keys
      PROVE  LET at == {n \in Level0 : disk[sstables[n]].data[k] \in Values}
             IN /\ at = {} => Merged[k] = Missing
                /\ at # {} => /\ Max(at) \in at /\ \A n \in at : n <= Max(at)
                              /\ Merged[k] = disk[sstables[Max(at)]].data[k] /\ Merged[k] \in Values
  <2> DEFINE at == {n \in Level0 : disk[sstables[n]].data[k] \in Values}
  <2>1. Merged[k] = IF at = {} THEN Missing ELSE disk[sstables[Max(at)]].data[k]
    BY DEF Merged
  <2>2. Len(sstables) \in Nat /\ at \in SUBSET (0 .. Len(sstables))
    BY Level0Is
  <2>3. \A n \in at : disk[sstables[n]].data[k] \in Values
    OBVIOUS
  <2> HIDE DEF at
  <2>4. at # {} => Max(at) \in at /\ \A n \in at : n <= Max(at)
    BY <2>2, LastIsGreatest
  <2>5. /\ at = {} => Merged[k] = Missing
        /\ at # {} => /\ Max(at) \in at /\ \A n \in at : n <= Max(at)
                      /\ Merged[k] = disk[sstables[Max(at)]].data[k] /\ Merged[k] \in Values
    BY <2>1, <2>3, <2>4
  <2> QED
    BY <2>5 DEF at
<1>2. \A k \in Keys : Merged[k] \in Contents \cup {Missing}
  <2> SUFFICES ASSUME NEW k \in Keys PROVE Merged[k] \in Contents \cup {Missing}
    OBVIOUS
  <2>1. Merged[k] = Missing \/ Merged[k] \in Values
    BY <1>1
  <2> QED
    BY <2>1 DEF Contents
<1>3. Merged = [k \in Keys |-> Merged[k]]
  BY DEF Merged
<1>4. Merged \in Table
  BY <1>2, <1>3 DEF Table
<1> QED
  BY <1>1, <1>4

----------------------------------------------------------------------------
(* The steps.                                                              *)

\* The thread's and a closing client's steps leave data and tables alone.
LEMMA StepKinds ==
  ASSUME [Next]_vars
  PROVE  \/ UNCHANGED <<dataVars, tableVars, pc, histVars>>
         \/ \E k \in Keys, c \in Contents : Put(k, c)
         \/ MergeStart \/ Closed \/ Exit \/ Crash \/ Restart
         \/ FlushStart \/ FlushWrite \/ FlushEnd \/ FlushFails
         \/ MergeWrite \/ RemoveTable \/ MergeEnd \/ MergeFails \/ OpenFails
<1>1. CASE UNCHANGED vars \/ Wake \/ Close
  BY <1>1 DEF vars, dataVars, tableVars, ctlVars, histVars, Wake, Close
<1>2. CASE ThreadCompact \/ Compact
  BY <1>2 DEF ThreadCompact, Compact, dataVars, tableVars, histVars
<1> QED
  BY <1>1, <1>2 DEF Next, ThreadStep, HolderStep, Fault

LEMMA ControlTyped ==
  ASSUME EngineTypeOK, [Next]_vars
  PROVE  /\ pc' \in {"down", "ready", "flush", "write", "clear", "merge", "remove"}
         /\ running' \in BOOLEAN /\ closing' \in BOOLEAN /\ damaged' \in BOOLEAN
         /\ thread' \in {"sleep", "want", "compact", "ended"}
         /\ past' \in [Keys -> SUBSET Values]
<1> USE DEF EngineTypeOK
<1>1. CASE \E k \in Keys, c \in Contents : Put(k, c)
  BY <1>1 DEF Put
<1>2. CASE UNCHANGED vars
  BY <1>2 DEF vars, ctlVars, histVars
<1>3. CASE Compact \/ ThreadCompact
  BY <1>3 DEF Compact, ThreadCompact, MergeStart, ThreadGoesOn, histVars
<1>4. CASE Close \/ Closed \/ Wake
  BY <1>4 DEF Close, Closed, Wake, histVars
<1>5. CASE Exit \/ Crash \/ Restart
  BY <1>5 DEF Exit, Crash, Restart, LoseMemory, histVars
<1>6. CASE FlushStart \/ FlushWrite \/ FlushEnd \/ FlushFails
  BY <1>6 DEF FlushStart, FlushWrite, FlushEnd, FlushFails, histVars
<1>7. CASE MergeWrite \/ RemoveTable
  BY <1>7 DEF MergeWrite, RemoveTable, ctlVars, histVars
<1>8. CASE MergeEnd \/ MergeFails \/ OpenFails
  BY <1>8 DEF MergeEnd, MergeFails, OpenFails, Release, ThreadGoesOn
<1> QED
  BY <1>1, <1>2, <1>3, <1>4, <1>5, <1>6, <1>7, <1>8 DEF Next, ThreadStep, HolderStep, Fault

\* What a new file leaves as it was.
LEMMA NewFileIs ==
  ASSUME EngineTypeOK, pc # "down", TablesInOrder, NewFile
  PROVE  /\ nextId \in Ids /\ nextId' = nextId + 1 /\ nextId' \in 0 .. MaxTables /\ nextId' - 1 = nextId
         /\ nextId \notin Complete /\ Complete' = Complete
         /\ disk'[nextId] = TornTable /\ \A i \in Ids : i # nextId => disk'[i] = disk[i]
         /\ disk' = [disk EXCEPT ![nextId] = TornTable]
<1>1. nextId < MaxTables /\ disk' = [disk EXCEPT ![nextId] = TornTable] /\ nextId' = nextId + 1
  BY DEF NewFile
<1>2. nextId \in Nat /\ nextId \in Ids /\ nextId' \in 0 .. MaxTables /\ nextId' - 1 = nextId
  BY <1>1, EngineAssumption DEF EngineTypeOK, Ids
<1>3. nextId \notin Complete
  BY <1>2 DEF TablesInOrder
<1>4. /\ disk'[nextId] = TornTable /\ \A i \in Ids : i # nextId => disk'[i] = disk[i]
      /\ Complete' = Complete \ {nextId}
  BY <1>1, <1>2, OneFile
<1> QED
  BY <1>1, <1>2, <1>3, <1>4

\* The table that a step writes is a new one.
LEMMA NewTableIs ==
  ASSUME EngineTypeOK, TablesInOrder, pc \in {"write", "merge"},
         NEW v, v \in Tables, disk' = [disk EXCEPT ![nextId - 1] = v]
  PROVE  /\ nextId - 1 \in Ids /\ nextId - 1 \notin Complete
         /\ Complete' = Complete \cup {nextId - 1}
         /\ disk'[nextId - 1] = v /\ \A i \in Ids : i # nextId - 1 => disk'[i] = disk[i]
         /\ \A i \in Complete : disk'[i] = disk[i] /\ i < nextId - 1
<1>1. nextId - 1 \in Ids \ Complete
  BY DEF TablesInOrder
<1>2. /\ disk'[nextId - 1] = v /\ \A i \in Ids : i # nextId - 1 => disk'[i] = disk[i]
      /\ Complete' = Complete \cup {nextId - 1}
  BY <1>1, OneFile
<1>3. \A i \in Complete : i \in Nat /\ i < nextId /\ i # nextId - 1 /\ i \in Ids
  BY <1>1, CompleteIs DEF TablesInOrder
<1>4. nextId \in Nat
  BY EngineAssumption DEF EngineTypeOK
<1>5. \A i \in Complete : disk'[i] = disk[i] /\ i < nextId - 1
  <2> SUFFICES ASSUME NEW i \in Complete PROVE disk'[i] = disk[i] /\ i < nextId - 1
    OBVIOUS
  <2>1. i \in Nat /\ i < nextId /\ i # nextId - 1 /\ i \in Ids
    BY <1>3
  <2> QED
    BY <1>2, <1>4, <2>1
<1> QED
  BY <1>1, <1>2, <1>5

\* The table that a compaction takes away first, and what stays open.
LEMMA RemovedIs ==
  ASSUME EngineTypeOK, TablesInOrder, RemoveTable
  PROVE  \E p \in Level0 :
           /\ \A n \in Level0 : p <= n
           /\ sstables[p] \in Complete /\ disk[sstables[p]].level = 0
           /\ sstables' = RemoveAt(sstables, p)
           /\ sstables' \in Seq(Ids) /\ Len(sstables') = Len(sstables) - 1
           /\ \A n \in 1 .. Len(sstables) - 1 :
                sstables'[n] = IF n < p THEN sstables[n] ELSE sstables[n + 1]
           /\ IsInjective(sstables') /\ Range(sstables') = Range(sstables) \ {sstables[p]}
           /\ disk' = [disk EXCEPT ![sstables[p]] = Missing]
           /\ Complete' = Complete \ {sstables[p]}
           /\ \A i \in Ids : i # sstables[p] => disk'[i] = disk[i]
<1> DEFINE p == Min(Level0)
<1>1. /\ Level0 # {} /\ disk' = [disk EXCEPT ![sstables[p]] = Missing]
      /\ sstables' = RemoveAt(sstables, p)
  BY DEF RemoveTable
<1>2. p \in Level0 /\ \A n \in Level0 : p <= n
  BY <1>1, Level0Is, FirstPosition
<1> HIDE DEF p
<1>3. sstables[p] \in Complete /\ disk[sstables[p]].level = 0 /\ sstables[p] \in Ids /\ p \in 1 .. Len(sstables)
  BY <1>2, Level0Is, CompleteIs
<1>4. /\ Complete' = Complete \ {sstables[p]}
      /\ \A i \in Ids : i # sstables[p] => disk'[i] = disk[i]
  BY <1>1, <1>3, OneFile
<1>5. /\ sstables' \in Seq(Ids) /\ Len(sstables') = Len(sstables) - 1
      /\ \A n \in 1 .. Len(sstables) - 1 :
           sstables'[n] = IF n < p THEN sstables[n] ELSE sstables[n + 1]
  <2>1. sstables \in Seq(Ids)
    BY DEF EngineTypeOK
  <2>2. /\ RemoveAt(sstables, p) \in Seq(Ids) /\ Len(RemoveAt(sstables, p)) = Len(sstables) - 1
        /\ \A n \in 1 .. Len(sstables) - 1 :
             RemoveAt(sstables, p)[n] = IF n < p THEN sstables[n] ELSE sstables[n + 1]
    BY <1>3, <2>1, RemoveAtShape
  <2> QED
    BY <1>1, <2>2
<1>6. IsInjective(sstables') /\ Range(sstables') = Range(sstables) \ {sstables[p]}
  BY <1>1, <1>3, RemoveAtLeaves DEF EngineTypeOK, TablesInOrder
<1> QED
  BY <1>1, <1>2, <1>3, <1>4, <1>5, <1>6

\* What the constructor opens.
LEMMA LoadableIs ==
  ASSUME EngineTypeOK
  PROVE  /\ Loadable \in Seq(Complete) /\ IsInjective(Loadable) /\ Range(Loadable) = Complete
         /\ (\A i \in Complete : i < 10) => Ascending(Loadable)
<1>1. Complete \in SUBSET Numbers
  BY CompleteIs
<1>2. Loadable = ByName(Complete)
  BY DEF Loadable
<1>3. Loadable \in Seq(Complete) /\ Range(Loadable) = Complete
  BY <1>1, <1>2, ByNamePlaces, ByNameHasAll
<1>4. (\A i \in Complete : i < 10) => Ascending(Loadable)
  BY <1>1, <1>2, ByNameAscends
<1>5. \A m, n \in 1 .. Len(Loadable) : m < n => Loadable[m] # Loadable[n]
  BY <1>1, <1>2, ByNameOrder
<1>6. DOMAIN Loadable = 1 .. Len(Loadable) /\ Len(Loadable) \in Nat
  BY <1>3
<1>7. \A m, n \in 1 .. Len(Loadable) : Loadable[m] = Loadable[n] => m = n
  BY <1>5, <1>6
<1>8. IsInjective(Loadable)
  BY <1>6, <1>7 DEF IsInjective
<1> QED
  BY <1>3, <1>4, <1>8

\* And how it goes on numbering.
LEMMA RestartIs ==
  ASSUME EngineTypeOK, Restart
  PROVE  /\ nextId' \in 0 .. MaxTables /\ \A i \in Complete : i < nextId'
         /\ sstables' = Loadable /\ disk' = disk /\ Complete' = Complete
<1>1. /\ nextId' = IF Complete = {} THEN 0 ELSE Max(Complete) + 1
      /\ sstables' = Loadable /\ disk' = disk
  BY DEF Restart
<1>2. MaxTables \in Nat \ {0} /\ Complete \in SUBSET (0 .. MaxTables - 1)
  BY CompleteIs, EngineAssumption DEF Ids
<1>3. CASE Complete = {}
  BY <1>1, <1>2, <1>3 DEF Complete
<1>4. CASE Complete # {}
  <2>1. MaxTables - 1 \in Nat
    BY <1>2
  <2>2. Max(Complete) \in Complete /\ \A j \in Complete : j <= Max(Complete)
    BY <1>2, <1>4, <2>1, LastIsGreatest
  <2>3. Max(Complete) \in 0 .. MaxTables - 1
    BY <1>2, <2>2, Zenon
  <2>4. nextId' = Max(Complete) + 1
    BY <1>1, <1>4
  <2>5. ASSUME NEW i \in Complete PROVE i < nextId'
    <3>1. i \in 0 .. MaxTables - 1 /\ i <= Max(Complete)
      BY <1>2, <2>2, Zenon
    <3> QED
      BY <1>2, <2>3, <2>4, <3>1
  <2>6. nextId' \in 0 .. MaxTables
    BY <1>2, <2>3, <2>4
  <2>7. Complete' = Complete
    BY <1>1 DEF Complete
  <2> QED
    BY <1>1, <2>5, <2>6, <2>7
<1> QED
  BY <1>3, <1>4

----------------------------------------------------------------------------
(* Types.                                                                  *)

\* Which tables are open.
OpenTyped ==
  /\ sstables \in Seq(Ids)
  /\ \A n \in 1 .. Len(sstables) : disk[sstables[n]] \notin {Missing, TornTable}

LEMMA EmptyTyped == Empty \in Table /\ \A k \in Keys : Empty[k] = Missing
BY DEF Empty, Table

LEMMA MemoryTyped ==
  ASSUME EngineTypeOK, [Next]_vars
  PROVE  mem' \in Table /\ imm' \in Table /\ wal' \in Table
<1>1. mem \in Table /\ imm \in Table /\ wal \in Table /\ Empty \in Table
  BY EmptyTyped DEF EngineTypeOK
<1>2. ASSUME NEW k \in Keys, NEW c \in Contents, Put(k, c)
      PROVE  mem' \in Table /\ imm' \in Table /\ wal' \in Table
  BY <1>1, <1>2 DEF Put, Table
<1>3. CASE UNCHANGED dataVars
  BY <1>1, <1>3 DEF dataVars
<1>4. CASE FlushStart \/ FlushEnd \/ FlushFails
  BY <1>1, <1>4 DEF FlushStart, FlushEnd, FlushFails, dataVars
<1>5. CASE Exit \/ Crash \/ Restart
  BY <1>1, <1>5 DEF Exit, Crash, Restart, LoseMemory
<1>6. CASE Closed \/ MergeStart \/ FlushWrite \/ MergeWrite \/ RemoveTable \/ MergeEnd
           \/ MergeFails \/ OpenFails
  BY <1>3, <1>6 DEF Closed, MergeStart, FlushWrite, MergeWrite, RemoveTable, MergeEnd, MergeFails,
                    OpenFails, Release, dataVars
<1> QED
  BY <1>2, <1>3, <1>4, <1>5, <1>6, StepKinds DEF dataVars

LEMMA TablesTyped ==
  ASSUME EngineTypeOK, TablesInOrder, [Next]_vars
  PROVE  /\ disk' \in [Ids -> Tables \cup {Missing, TornTable}]
         /\ OpenTyped' /\ nextId' \in 0 .. MaxTables
<1>1. disk \in [Ids -> Tables \cup {Missing, TornTable}] /\ OpenTyped /\ nextId \in 0 .. MaxTables
  BY DEF EngineTypeOK, OpenTyped, Tables
<1>2. \A n \in 1 .. Len(sstables) : sstables[n] \in Complete /\ sstables[n] \in Ids
  BY CompleteIs
<1>3. {TornTable, Missing} \cap Tables = {}
  BY MarksAssumption DEF Tables
<1>4. imm \in Table /\ Merged \in Table
  BY MergedIs DEF EngineTypeOK
<1>5. CASE UNCHANGED tableVars
  BY <1>1, <1>5 DEF tableVars, OpenTyped
<1>6. CASE FlushStart \/ MergeStart
  <2>1. NewFile /\ pc # "down" /\ sstables' = sstables
    BY <1>6 DEF FlushStart, MergeStart
  <2>2. /\ disk' = [disk EXCEPT ![nextId] = TornTable] /\ nextId' \in 0 .. MaxTables
        /\ nextId \in Ids /\ nextId \notin Complete
        /\ \A i \in Ids : i # nextId => disk'[i] = disk[i]
    BY <2>1, NewFileIs
  <2>3. disk' \in [Ids -> Tables \cup {Missing, TornTable}]
    BY <1>1, <2>2
  <2>4. \A n \in 1 .. Len(sstables) : disk'[sstables[n]] = disk[sstables[n]]
    BY <1>2, <2>2
  <2> QED
    BY <1>1, <2>1, <2>2, <2>3, <2>4 DEF OpenTyped
<1>7. CASE FlushWrite \/ FlushFails \/ MergeWrite
  <2>1. \E v \in Tables :
          /\ pc \in {"write", "merge"} /\ nextId' = nextId
          /\ \/ disk' = [disk EXCEPT ![nextId - 1] = v] /\ sstables' \in {sstables, Append(sstables, nextId - 1)}
             \/ disk' = disk /\ sstables' = sstables
    <3>1. [level |-> 0, data |-> imm] \in Tables /\ [level |-> 1, data |-> Merged] \in Tables
      BY <1>4 DEF Tables
    <3>2. CASE FlushWrite
      BY <3>1, <3>2 DEF FlushWrite
    <3>3. CASE FlushFails
      BY <3>1, <3>3 DEF FlushFails
    <3>4. CASE MergeWrite
      BY <3>1, <3>4 DEF MergeWrite
    <3> QED
      BY <1>7, <3>2, <3>3, <3>4
  <2>2. CASE disk' = disk /\ sstables' = sstables
    BY <1>1, <2>1, <2>2 DEF OpenTyped
  <2>3. ASSUME NEW v \in Tables, disk' = [disk EXCEPT ![nextId - 1] = v],
               sstables' \in {sstables, Append(sstables, nextId - 1)}, pc \in {"write", "merge"},
               nextId' = nextId
        PROVE  /\ disk' \in [Ids -> Tables \cup {Missing, TornTable}]
               /\ OpenTyped' /\ nextId' \in 0 .. MaxTables
    <3>1. /\ nextId - 1 \in Ids /\ disk'[nextId - 1] = v
          /\ \A i \in Complete : disk'[i] = disk[i]
      BY <2>3, NewTableIs
    <3>2. disk' \in [Ids -> Tables \cup {Missing, TornTable}]
      BY <1>1, <2>3, <3>1
    <3>3. \A n \in 1 .. Len(sstables) : disk'[sstables[n]] \notin {Missing, TornTable}
      BY <1>1, <1>2, <3>1 DEF OpenTyped
    <3>4. sstables \in Seq(Ids) /\ Len(sstables) \in Nat
      BY <1>1 DEF OpenTyped
    <3>5. CASE sstables' = sstables
      BY <1>1, <2>3, <3>2, <3>3, <3>4, <3>5 DEF OpenTyped
    <3>6. CASE sstables' = Append(sstables, nextId - 1)
      <4>1. sstables' \in Seq(Ids)
        BY <3>1, <3>4, <3>6
      <4>2. \A n \in 1 .. Len(sstables') :
              (n \in 1 .. Len(sstables) /\ sstables'[n] = sstables[n]) \/ sstables'[n] = nextId - 1
        BY <3>1, <3>4, <3>6
      <4>3. \A n \in 1 .. Len(sstables') : disk'[sstables'[n]] \notin {Missing, TornTable}
        BY <1>3, <3>1, <3>3, <4>2
      <4> QED
        BY <1>1, <2>3, <3>2, <4>1, <4>3 DEF OpenTyped
    <3> QED
      BY <2>3, <3>5, <3>6
  <2> QED
    BY <2>1, <2>2, <2>3
<1>8. CASE RemoveTable
  <2>1. PICK p \in Level0 :
          /\ sstables[p] \in Complete
          /\ sstables' \in Seq(Ids) /\ Range(sstables') = Range(sstables) \ {sstables[p]}
          /\ disk' = [disk EXCEPT ![sstables[p]] = Missing]
          /\ Complete' = Complete \ {sstables[p]}
    BY <1>8, RemovedIs
  <2>2. nextId' = nextId /\ disk' \in [Ids -> Tables \cup {Missing, TornTable}]
    BY <1>1, <1>8, <2>1 DEF RemoveTable
  <2>3. \A n \in 1 .. Len(sstables') : sstables'[n] \in Range(sstables')
    BY <2>1 DEF Range
  <2>4. Range(sstables) \subseteq Complete
    BY <1>1, <1>2 DEF Range, OpenTyped
  <2>5. \A n \in 1 .. Len(sstables') : sstables'[n] \in Complete'
    BY <2>1, <2>3, <2>4
  <2>6. \A n \in 1 .. Len(sstables') : disk'[sstables'[n]] \notin {Missing, TornTable}
    BY <2>5 DEF Complete
  <2> QED
    BY <1>1, <2>1, <2>2, <2>6 DEF OpenTyped
<1>9. CASE MergeEnd
  <2>1. disk' = disk /\ nextId' = nextId /\ sstables' = Append(sstables, nextId - 1) /\ nextId - 1 \in Complete
    BY <1>9 DEF MergeEnd, Release, TablesInOrder
  <2>2. nextId - 1 \in Ids /\ disk[nextId - 1] \notin {Missing, TornTable}
    BY <2>1 DEF Complete
  <2>3. sstables \in Seq(Ids) /\ Len(sstables) \in Nat
    BY <1>1 DEF OpenTyped
  <2>4. sstables' \in Seq(Ids)
    BY <2>1, <2>2, <2>3
  <2>5. \A n \in 1 .. Len(sstables') :
          (n \in 1 .. Len(sstables) /\ sstables'[n] = sstables[n]) \/ sstables'[n] = nextId - 1
    BY <2>1, <2>2, <2>3
  <2>6. \A n \in 1 .. Len(sstables') : disk'[sstables'[n]] \notin {Missing, TornTable}
    BY <1>1, <2>1, <2>2, <2>5 DEF OpenTyped
  <2> QED
    BY <1>1, <2>1, <2>4, <2>6 DEF OpenTyped
<1>10. CASE Exit \/ Crash
  <2>1. disk' = disk /\ nextId' = 0 /\ sstables' = <<>>
    BY <1>10 DEF Exit, Crash, LoseMemory
  <2>2. 0 \in 0 .. MaxTables /\ <<>> \in Seq(Ids) /\ Len(<<>>) = 0
    BY EngineAssumption
  <2> QED
    BY <1>1, <2>1, <2>2 DEF OpenTyped
<1>11. CASE Restart
  <2>1. nextId' \in 0 .. MaxTables /\ sstables' = Loadable /\ disk' = disk
    BY <1>11, RestartIs
  <2>2. Loadable \in Seq(Complete) /\ Complete \in SUBSET Ids
    BY LoadableIs, CompleteIs
  <2>3. sstables' \in Seq(Ids) /\ \A n \in 1 .. Len(sstables') : sstables'[n] \in Complete
    BY <2>1, <2>2
  <2> QED
    BY <1>1, <2>1, <2>3 DEF OpenTyped, Complete
<1>12. CASE Closed \/ FlushEnd \/ MergeFails \/ OpenFails \/ \E k \in Keys, c \in Contents : Put(k, c)
  BY <1>5, <1>12 DEF Closed, FlushEnd, MergeFails, OpenFails, Release, Put, tableVars
<1> QED
  BY <1>5, <1>6, <1>7, <1>8, <1>9, <1>10, <1>11, <1>12, StepKinds DEF tableVars

LEMMA TypesKept ==
  ASSUME EngineTypeOK, TablesInOrder, [Next]_vars
  PROVE  EngineTypeOK'
<1>1. mem' \in Table /\ imm' \in Table /\ wal' \in Table
  BY MemoryTyped
<1>2. /\ disk' \in [Ids -> Tables \cup {Missing, TornTable}]
      /\ OpenTyped' /\ nextId' \in 0 .. MaxTables
  BY TablesTyped
<1> QED
  BY <1>1, <1>2, ControlTyped DEF EngineTypeOK, OpenTyped, Tables

----------------------------------------------------------------------------
(* The order of the tables.                                                *)

\* A new table is not yet open, and comes behind those that are.
LEMMA NewComesLast ==
  ASSUME EngineTypeOK, TablesInOrder, nextId - 1 \in Ids, nextId - 1 \notin Range(sstables),
         pc # "down"
  PROVE  /\ IsInjective(Append(sstables, nextId - 1))
         /\ ~Overgrown => Ascending(Append(sstables, nextId - 1))
         /\ Range(Append(sstables, nextId - 1)) = Range(sstables) \cup {nextId - 1}
<1> DEFINE new == nextId - 1
           more == Append(sstables, new)
<1>1. /\ sstables \in Seq(Ids) /\ Len(sstables) \in Nat /\ DOMAIN sstables = 1 .. Len(sstables)
      /\ Ids \in SUBSET Nat /\ nextId \in Nat
  BY CompleteIs, EngineAssumption DEF EngineTypeOK
<1>2. \A n \in 1 .. Len(sstables) : sstables[n] \in Nat /\ sstables[n] < nextId /\ sstables[n] # new
  <2> SUFFICES ASSUME NEW n \in 1 .. Len(sstables)
               PROVE  sstables[n] \in Nat /\ sstables[n] < nextId /\ sstables[n] # new
    OBVIOUS
  <2>1. sstables[n] \in Complete
    BY CompleteIs
  <2>2. sstables[n] \in Nat /\ sstables[n] < nextId
    BY <2>1, CompleteIs DEF TablesInOrder
  <2>3. sstables[n] \in Range(sstables)
    BY <1>1 DEF Range
  <2> QED
    BY <2>2, <2>3
<1>3. new \in Ids /\ new = nextId - 1
  OBVIOUS
<1> HIDE DEF new
<1>4. \A n \in 1 .. Len(sstables) : sstables[n] < new
  BY <1>1, <1>2, <1>3
<1>5. /\ Len(more) = Len(sstables) + 1 /\ DOMAIN more = 1 .. Len(sstables) + 1
      /\ \A n \in 1 .. Len(sstables) : more[n] = sstables[n]
      /\ more[Len(sstables) + 1] = new
  BY <1>1, <1>3
<1>6. \A m, n \in 1 .. Len(sstables) : sstables[m] = sstables[n] => m = n
  BY <1>1 DEF TablesInOrder, IsInjective
<1> HIDE DEF more
<1>7. IsInjective(more)
  <2> SUFFICES ASSUME NEW m \in 1 .. Len(sstables) + 1, NEW n \in 1 .. Len(sstables) + 1, more[m] = more[n]
               PROVE  m = n
    BY <1>5 DEF IsInjective
  <2>1. CASE m \in 1 .. Len(sstables) /\ n \in 1 .. Len(sstables)
    BY <1>5, <1>6, <2>1
  <2>2. CASE m \in 1 .. Len(sstables) /\ n = Len(sstables) + 1
    BY <1>2, <1>5, <2>2
  <2>3. CASE m = Len(sstables) + 1 /\ n \in 1 .. Len(sstables)
    BY <1>2, <1>5, <2>3
  <2> QED
    BY <1>1, <2>1, <2>2, <2>3
<1>8. ASSUME ~Overgrown PROVE Ascending(more)
  <2>1. Ascending(sstables)
    BY <1>8 DEF TablesInOrder
  <2> QED
    BY <1>1, <1>3, <1>4, <2>1, AppendAscends DEF more
<1>9. \A x : x \in Range(sstables) <=> \E n \in 1 .. Len(sstables) : sstables[n] = x
  BY <1>1 DEF Range
<1>10. \A x : x \in Range(more) <=> \E n \in 1 .. Len(sstables) + 1 : more[n] = x
  BY <1>5 DEF Range
<1>11. Range(more) = Range(sstables) \cup {new}
  <2>1. \A x : x \in Range(sstables) \cup {new} => x \in Range(more)
    BY <1>1, <1>5, <1>9, <1>10
  <2>2. \A x : x \in Range(more) => x \in Range(sstables) \cup {new}
    BY <1>1, <1>5, <1>9, <1>10
  <2> QED
    BY <2>1, <2>2
<1> QED
  BY <1>7, <1>8, <1>11 DEF more, new

\* A list that lost a place is in the order it was in.
LEMMA RemoveAscends ==
  ASSUME EngineTypeOK, TablesInOrder, RemoveTable, ~Overgrown
  PROVE  Ascending(sstables')
<1>1. PICK p \in Level0 :
        /\ sstables' \in Seq(Ids) /\ Len(sstables') = Len(sstables) - 1
        /\ \A n \in 1 .. Len(sstables) - 1 : sstables'[n] = IF n < p THEN sstables[n] ELSE sstables[n + 1]
  BY RemovedIs
<1>2. Ascending(sstables) /\ Len(sstables) \in Nat /\ p \in 1 .. Len(sstables)
  BY Level0Is DEF TablesInOrder
<1> SUFFICES ASSUME NEW m \in 1 .. Len(sstables) - 1, NEW n \in 1 .. Len(sstables) - 1, m < n
             PROVE  sstables'[m] < sstables'[n]
  BY <1>1 DEF Ascending
<1>3. /\ m \in 1 .. Len(sstables) /\ m + 1 \in 1 .. Len(sstables) /\ m \in Nat
      /\ n \in 1 .. Len(sstables) /\ n + 1 \in 1 .. Len(sstables) /\ n \in Nat
  BY <1>2
<1>4. CASE m < p /\ n < p
  BY <1>1, <1>2, <1>3, <1>4 DEF Ascending
<1>5. CASE m < p /\ ~(n < p)
  <2>1. m < n + 1
    BY <1>3
  <2> QED
    BY <1>1, <1>2, <1>3, <1>5, <2>1 DEF Ascending
<1>6. CASE ~(m < p) /\ n < p
  BY <1>2, <1>3, <1>6
<1>7. CASE ~(m < p) /\ ~(n < p)
  <2>1. m + 1 < n + 1
    BY <1>3
  <2> QED
    BY <1>1, <1>2, <1>3, <1>7, <2>1 DEF Ascending
<1> QED
  BY <1>4, <1>5, <1>6, <1>7

LEMMA OpenIsComplete ==
  ASSUME EngineTypeOK
  PROVE  Range(sstables) \subseteq Complete
<1>1. DOMAIN sstables = 1 .. Len(sstables)
  BY DEF EngineTypeOK
<1> QED
  BY <1>1, CompleteIs DEF Range

LEMMA NoTables == IsInjective(<<>>) /\ Ascending(<<>>) /\ Range(<<>>) = {}
<1>1. Len(<<>>) = 0 /\ DOMAIN <<>> = {}
  OBVIOUS
<1> QED
  BY <1>1 DEF IsInjective, Ascending, Range

\* Names and numbers disagree for good: a table with two digits goes only when
\* the one that replaces it is complete.
LEMMA OvergrownStays ==
  ASSUME EngineTypeOK, TablesInOrder, [Next]_vars, ~Overgrown'
  PROVE  ~Overgrown
<1> SUFFICES ASSUME NEW i \in Complete, i >= 10 PROVE \E j \in Complete' : j >= 10
  BY DEF Overgrown
<1>1. CASE Complete \subseteq Complete'
  BY <1>1
<1>2. CASE disk' = disk
  BY <1>1, <1>2 DEF Complete
<1>3. CASE \/ UNCHANGED <<dataVars, tableVars, pc, histVars>>
           \/ \E k \in Keys, c \in Contents : Put(k, c)
           \/ Closed \/ Exit \/ Crash \/ Restart \/ FlushEnd \/ MergeEnd \/ MergeFails \/ OpenFails
  BY <1>2, <1>3 DEF tableVars, Put, Closed, Exit, Crash, Restart, FlushEnd, MergeEnd, MergeFails, OpenFails
<1>4. CASE FlushStart \/ MergeStart
  BY <1>1, <1>4, NewFileIs DEF FlushStart, MergeStart
<1>5. CASE FlushWrite \/ FlushFails \/ MergeWrite
  <2>1. [level |-> 0, data |-> imm] \in Tables /\ [level |-> 1, data |-> Merged] \in Tables
    BY MergedIs DEF Tables, EngineTypeOK
  <2>2. /\ pc \in {"write", "merge"}
        /\ \/ disk' = disk
           \/ disk' = [disk EXCEPT ![nextId - 1] = [level |-> 0, data |-> imm]]
           \/ disk' = [disk EXCEPT ![nextId - 1] = [level |-> 1, data |-> Merged]]
    BY <1>5 DEF FlushWrite, FlushFails, MergeWrite
  <2> QED
    BY <1>1, <1>2, <2>1, <2>2, NewTableIs
<1>6. CASE RemoveTable
  <2>1. PICK p \in Level0 : sstables[p] \in Complete /\ Complete' = Complete \ {sstables[p]}
    BY <1>6, RemovedIs
  <2>2. p \in 1 .. Len(sstables) /\ DOMAIN sstables = 1 .. Len(sstables)
    BY Level0Is DEF EngineTypeOK
  <2>3. nextId - 1 \in Complete \ Range(sstables)
    BY <1>6 DEF RemoveTable, TablesInOrder
  <2>4. nextId - 1 \in Complete'
    BY <2>1, <2>2, <2>3 DEF Range
  <2>5. i \in Nat /\ nextId \in Nat /\ i < nextId
    BY <1>6, CompleteIs, EngineAssumption DEF RemoveTable, TablesInOrder, EngineTypeOK
  <2>6. CASE i = nextId - 1
    BY <2>4, <2>6
  <2>7. CASE i # nextId - 1
    <3>1. nextId - 1 >= 10
      BY <2>5, <2>7
    <3> QED
      BY <2>4, <3>1
  <2> QED
    BY <2>6, <2>7
<1> QED
  BY <1>3, <1>4, <1>5, <1>6, StepKinds

LEMMA OrderKept ==
  ASSUME EngineTypeOK, TablesInOrder, [Next]_vars
  PROVE  TablesInOrder'
<1>1. nextId \in Nat /\ \A i \in Ids : i \in Nat
  BY CompleteIs, EngineAssumption DEF EngineTypeOK
<1>0. ~Overgrown' => ~Overgrown
  BY OvergrownStays
<1>2. CASE UNCHANGED <<dataVars, tableVars, pc, histVars>>
  BY <1>2 DEF dataVars, tableVars, TablesInOrder, Complete, Overgrown
<1>3. CASE \/ \E k \in Keys, c \in Contents : Put(k, c)
           \/ FlushEnd \/ Closed \/ MergeFails \/ OpenFails
  <2>1. UNCHANGED tableVars /\ pc # "down" /\ pc' \in {"ready", "flush"}
    BY <1>3 DEF Put, FlushEnd, Closed, MergeFails, OpenFails, Release, tableVars
  <2> QED
    BY <2>1 DEF tableVars, TablesInOrder, Complete, Overgrown
<1>4. CASE FlushStart \/ MergeStart
  <2>1. NewFile /\ pc # "down" /\ sstables' = sstables /\ pc' \in {"write", "merge"}
    BY <1>4 DEF FlushStart, MergeStart
  <2>2. /\ nextId' = nextId + 1 /\ nextId' - 1 = nextId
        /\ nextId \in Ids /\ nextId \notin Complete /\ Complete' = Complete
    BY <2>1, NewFileIs
  <2>3. \A i \in Complete : i < nextId'
    <3>1. \A i \in Complete : i \in Nat /\ i < nextId
      BY <2>1, CompleteIs DEF TablesInOrder
    <3> QED
      BY <1>1, <2>2, <3>1
  <2>5. IsInjective(sstables') /\ (~Overgrown' => Ascending(sstables'))
    BY <1>0, <2>1 DEF TablesInOrder
  <2>6. \A i \in Complete' : i < nextId'
    BY <2>2, <2>3
  <2>7. nextId' - 1 \in Ids \ Complete'
    BY <2>2
  <2> QED
    BY <2>1, <2>5, <2>6, <2>7 DEF TablesInOrder
<1>5. CASE FlushWrite
  <2>1. /\ pc = "write" /\ pc' = "clear" /\ nextId' = nextId /\ imm' = imm
        /\ disk' = [disk EXCEPT ![nextId - 1] = [level |-> 0, data |-> imm]]
        /\ sstables' = Append(sstables, nextId - 1)
    BY <1>5 DEF FlushWrite, dataVars
  <2>2. [level |-> 0, data |-> imm] \in Tables
    BY DEF Tables, EngineTypeOK
  <2>3. /\ nextId - 1 \in Ids /\ nextId - 1 \notin Complete
        /\ Complete' = Complete \cup {nextId - 1}
        /\ disk'[nextId - 1] = [level |-> 0, data |-> imm]
    BY <2>1, <2>2, NewTableIs
  <2>4. IsInjective(sstables') /\ (~Overgrown' => Ascending(sstables'))
    BY <1>0, <2>1, <2>3, NewComesLast, OpenIsComplete
  <2>5. \A i \in Complete' : i < nextId'
    BY <1>1, <2>1, <2>3 DEF TablesInOrder
  <2>6. nextId' - 1 \in Complete' /\ disk'[nextId' - 1].data = imm'
    BY <2>1, <2>3
  <2> QED
    BY <2>1, <2>4, <2>5, <2>6 DEF TablesInOrder
<1>6. CASE FlushFails
  <2>1. /\ pc = "write" /\ pc' = "ready" /\ nextId' = nextId /\ sstables' = sstables
        /\ disk' \in {disk, [disk EXCEPT ![nextId - 1] = [level |-> 0, data |-> imm]]}
    BY <1>6 DEF FlushFails
  <2>2. [level |-> 0, data |-> imm] \in Tables
    BY DEF Tables, EngineTypeOK
  <2>3. Complete' = Complete \/ Complete' = Complete \cup {nextId - 1}
    <3>1. CASE disk' = disk
      BY <3>1 DEF Complete
    <3>2. CASE disk' = [disk EXCEPT ![nextId - 1] = [level |-> 0, data |-> imm]]
      BY <2>1, <2>2, <3>2, NewTableIs
    <3> QED
      BY <2>1, <3>1, <3>2
  <2>4. \A i \in Complete' : i < nextId'
    BY <1>1, <2>1, <2>3 DEF TablesInOrder
  <2> QED
    BY <1>0, <2>1, <2>4 DEF TablesInOrder
<1>7. CASE MergeWrite
  <2>1. /\ pc = "merge" /\ pc' = "remove" /\ nextId' = nextId /\ sstables' = sstables
        /\ disk' = [disk EXCEPT ![nextId - 1] = [level |-> 1, data |-> Merged]]
    BY <1>7 DEF MergeWrite
  <2>2. [level |-> 1, data |-> Merged] \in Tables
    BY MergedIs DEF Tables
  <2>3. /\ nextId - 1 \in Ids /\ nextId - 1 \notin Complete
        /\ Complete' = Complete \cup {nextId - 1}
        /\ disk'[nextId - 1] = [level |-> 1, data |-> Merged]
    BY <2>1, <2>2, NewTableIs
  <2>4. \A i \in Complete' : i < nextId'
    BY <1>1, <2>1, <2>3 DEF TablesInOrder
  <2>5. nextId' - 1 \in Complete' \ Range(sstables') /\ disk'[nextId' - 1].level = 1
    BY <2>1, <2>3, OpenIsComplete
  <2> QED
    BY <1>0, <2>1, <2>4, <2>5 DEF TablesInOrder
<1>8. CASE RemoveTable
  <2>1. /\ pc = "remove" /\ pc' = "remove" /\ nextId' = nextId /\ mem' = mem /\ imm' = imm
    BY <1>8 DEF RemoveTable, ctlVars, dataVars
  <2>2. PICK p \in Level0 :
          /\ sstables[p] \in Complete /\ disk[sstables[p]].level = 0
          /\ IsInjective(sstables') /\ Range(sstables') = Range(sstables) \ {sstables[p]}
          /\ Complete' = Complete \ {sstables[p]}
          /\ \A i \in Ids : i # sstables[p] => disk'[i] = disk[i]
    BY <1>8, RemovedIs
  <2>3. nextId - 1 \in Complete \ Range(sstables) /\ disk[nextId - 1].level = 1
    BY <2>1 DEF TablesInOrder
  <2>4. nextId - 1 # sstables[p] /\ nextId - 1 \in Ids
    BY <2>2, <2>3, CompleteIs
  <2>5. nextId' - 1 \in Complete' \ Range(sstables') /\ disk'[nextId' - 1].level = 1
    BY <2>1, <2>2, <2>3, <2>4
  <2>6. ~Overgrown' => Ascending(sstables')
    BY <1>0, <1>8, RemoveAscends
  <2>7. \A i \in Complete' : i < nextId'
    BY <2>1, <2>2 DEF TablesInOrder
  <2> QED
    BY <2>1, <2>2, <2>5, <2>6, <2>7 DEF TablesInOrder
<1>9. CASE MergeEnd
  <2>1. /\ pc = "remove" /\ pc' = "ready" /\ nextId' = nextId /\ disk' = disk
        /\ sstables' = Append(sstables, nextId - 1)
    BY <1>9 DEF MergeEnd, Release
  <2>2. nextId - 1 \in Ids /\ nextId - 1 \notin Range(sstables)
    BY <2>1, CompleteIs DEF TablesInOrder
  <2>3. IsInjective(sstables') /\ (~Overgrown' => Ascending(sstables'))
    BY <1>0, <2>1, <2>2, NewComesLast
  <2> QED
    BY <2>1, <2>3 DEF TablesInOrder, Complete
<1>10. CASE Exit \/ Crash
  <2>1. sstables' = <<>> /\ pc' = "down" /\ mem' = Empty /\ imm' = Empty
    BY <1>10 DEF Exit, Crash, LoseMemory
  <2> QED
    BY <2>1, NoTables DEF TablesInOrder
<1>11. CASE Restart
  <2>1. /\ sstables' = Loadable /\ pc' = "ready"
        /\ \A i \in Complete : i < nextId' /\ Complete' = Complete
        /\ nextId' \in Int
    BY <1>11, RestartIs, EngineAssumption DEF Restart
  <2>2. IsInjective(sstables')
    BY <2>1, LoadableIs
  <2>3. ASSUME ~Overgrown' PROVE Ascending(sstables')
    <3>1. \A i \in Complete : i < 10
      BY <1>0, <2>3, CompleteIs DEF Overgrown
    <3> QED
      BY <2>1, <3>1, LoadableIs
  <2> QED
    BY <2>1, <2>2, <2>3, <1>11, RestartIs DEF TablesInOrder
<1> QED
  BY <1>2, <1>3, <1>4, <1>5, <1>6, <1>7, <1>8, <1>9, <1>10, <1>11, StepKinds

----------------------------------------------------------------------------
(* What the tables and the log hold.                                       *)

LEMMA PastKept ==
  ASSUME EngineTypeOK, TablesInOrder, HoldsPast, [Next]_vars
  PROVE  HoldsPast'
<1> DEFINE Old(k) == past[k] \cup {Missing, Tomb}
<1>1. /\ \A k \in Keys : mem[k] \in Old(k) /\ imm[k] \in Old(k) /\ wal[k] \in Old(k)
      /\ \A k \in Keys : \A i \in Complete : disk[i].data[k] \in Old(k)
  BY DEF HoldsPast
<1>2. \A k \in Keys : Empty[k] \in Old(k)
  BY EmptyTyped
<1>3. ASSUME past' = past,
             \A k \in Keys : mem'[k] \in Old(k) /\ imm'[k] \in Old(k) /\ wal'[k] \in Old(k),
             \A k \in Keys : \A i \in Complete' : disk'[i].data[k] \in Old(k)
      PROVE  HoldsPast'
  BY <1>3 DEF HoldsPast
<1>4. ASSUME disk' = disk, \A k \in Keys : past[k] \subseteq past'[k],
             \A k \in Keys : {mem'[k], imm'[k], wal'[k]} \subseteq past'[k] \cup {Missing, Tomb}
      PROVE  HoldsPast'
  BY <1>1, <1>4 DEF HoldsPast, Complete
<1>5. ASSUME NEW k \in Keys, NEW c \in Contents, Put(k, c)
      PROVE  HoldsPast'
  <2>1. /\ wal' = [wal EXCEPT ![k] = c] /\ mem' = [mem EXCEPT ![k] = c] /\ imm' = imm
        /\ past' = [past EXCEPT ![k] = @ \cup ({c} \cap Values)] /\ disk' = disk
    BY <1>5 DEF Put, tableVars
  <2>2. wal \in Table /\ mem \in Table /\ past \in [Keys -> SUBSET Values]
    BY DEF EngineTypeOK
  <2>3. c \in past'[k] \cup {Missing, Tomb} /\ \A j \in Keys : past[j] \subseteq past'[j]
    BY <2>1, <2>2 DEF Contents
  <2>4. \A j \in Keys : mem'[j] \in {mem[j], c} /\ (j # k => mem'[j] = mem[j])
    BY <2>1, <2>2 DEF Table
  <2>5. \A j \in Keys : wal'[j] \in {wal[j], c} /\ (j # k => wal'[j] = wal[j])
    BY <2>1, <2>2 DEF Table
  <2>6. \A j \in Keys : {mem'[j], imm'[j], wal'[j]} \subseteq past'[j] \cup {Missing, Tomb}
    BY <1>1, <2>1, <2>3, <2>4, <2>5
  <2> QED
    BY <1>4, <2>1, <2>3, <2>6
<1>6. CASE UNCHANGED <<dataVars, tableVars, pc, histVars>>
  BY <1>1, <1>4, <1>6 DEF dataVars, tableVars, histVars
<1>7. CASE FlushEnd \/ Closed \/ MergeFails \/ OpenFails \/ MergeEnd \/ Exit \/ Crash \/ Restart
  <2>1. /\ mem' \in {mem, Empty, wal} /\ imm' \in {imm, Empty} /\ wal' \in {wal, Empty}
        /\ disk' = disk /\ past' = past
    BY <1>7 DEF FlushEnd, Closed, MergeFails, OpenFails, MergeEnd, Exit, Crash, Restart, Release,
                LoseMemory, dataVars, tableVars, histVars
  <2> QED
    BY <1>1, <1>2, <1>4, <2>1
<1>8. CASE FlushStart \/ MergeStart
  <2>1. /\ NewFile /\ pc # "down" /\ past' = past
        /\ mem' \in {mem, Empty} /\ imm' \in {imm, mem} /\ wal' = wal
    BY <1>8 DEF FlushStart, MergeStart, dataVars, histVars
  <2>2. /\ nextId \notin Complete /\ Complete' = Complete
        /\ \A i \in Ids : i # nextId => disk'[i] = disk[i]
    BY <2>1, NewFileIs
  <2>3. \A i \in Complete' : i \in Complete /\ disk'[i] = disk[i]
    BY <2>2, CompleteIs
  <2>4. \A k \in Keys : mem'[k] \in Old(k) /\ imm'[k] \in Old(k) /\ wal'[k] \in Old(k)
    BY <1>1, <1>2, <2>1
  <2>5. \A k \in Keys : \A i \in Complete' : disk'[i].data[k] \in Old(k)
    BY <1>1, <2>3
  <2> QED
    BY <1>3, <2>1, <2>4, <2>5
<1>9. CASE FlushWrite \/ FlushFails \/ MergeWrite
  <2>1. PICK l \in {0, 1}, d \in {imm, Merged} :
          /\ pc \in {"write", "merge"} /\ past' = past
          /\ mem' = mem /\ imm' = imm /\ wal' = wal
          /\ disk' \in {disk, [disk EXCEPT ![nextId - 1] = [level |-> l, data |-> d]]}
    BY <1>9 DEF FlushWrite, FlushFails, MergeWrite, dataVars, histVars
  <2>2. CASE disk' = disk
    BY <1>1, <1>4, <2>1, <2>2
  <2>3. CASE disk' = [disk EXCEPT ![nextId - 1] = [level |-> l, data |-> d]]
    <3> DEFINE v == [level |-> l, data |-> d]
    <3>1. v \in Tables /\ v.data = d
      BY MergedIs DEF Tables, EngineTypeOK
    <3> HIDE DEF v
    <3>2. disk' = [disk EXCEPT ![nextId - 1] = v]
      BY <2>3 DEF v
    <3>3. /\ Complete' = Complete \cup {nextId - 1} /\ disk'[nextId - 1] = v
          /\ \A i \in Complete : disk'[i] = disk[i]
      BY <2>1, <3>1, <3>2, NewTableIs
    <3>4. \A k \in Keys : Merged[k] \in Old(k)
      <4> SUFFICES ASSUME NEW k \in Keys PROVE Merged[k] \in Old(k)
        OBVIOUS
      <4> DEFINE at == {n \in Level0 : disk[sstables[n]].data[k] \in Values}
      <4>1. Merged[k] = Missing \/ (Max(at) \in at /\ Merged[k] = disk[sstables[Max(at)]].data[k])
        BY MergedIs
      <4>2. \A n \in at : sstables[n] \in Complete
        BY Level0Is
      <4> HIDE DEF at
      <4> QED
        BY <1>1, <4>1, <4>2
    <3>5. \A k \in Keys : d[k] \in Old(k)
      BY <1>1, <3>4
    <3>6. \A k \in Keys : \A i \in Complete' : disk'[i].data[k] \in Old(k)
      BY <1>1, <3>1, <3>3, <3>5
    <3> QED
      BY <1>1, <1>3, <2>1, <3>6
  <2> QED
    BY <2>1, <2>2, <2>3
<1>10. CASE RemoveTable
  <2>1. PICK p \in Level0 :
          /\ Complete' = Complete \ {sstables[p]}
          /\ \A i \in Ids : i # sstables[p] => disk'[i] = disk[i]
    BY <1>10, RemovedIs
  <2>2. \A i \in Complete' : i \in Complete /\ disk'[i] = disk[i]
    BY <2>1, CompleteIs
  <2>3. past' = past /\ mem' = mem /\ imm' = imm /\ wal' = wal
    BY <1>10 DEF RemoveTable, dataVars, histVars
  <2>4. \A k \in Keys : \A i \in Complete' : disk'[i].data[k] \in Old(k)
    BY <1>1, <2>2
  <2> QED
    BY <1>1, <1>3, <2>3, <2>4
<1> QED
  BY <1>5, <1>6, <1>7, <1>8, <1>9, <1>10, StepKinds

LEMMA ForgottenKept ==
  ASSUME EngineTypeOK, TablesInOrder, NothingForgotten, [Next]_vars, ~damaged'
  PROVE  NothingForgotten'
<1> USE DEF NothingForgotten
<1>1. CASE UNCHANGED <<dataVars, tableVars, pc, histVars>>
  BY <1>1 DEF dataVars, tableVars, Complete
<1>2. ASSUME NEW k \in Keys, NEW c \in Contents, Put(k, c)
      PROVE  NothingForgotten'
  <2>1. /\ pc = "ready" /\ pc' \in {"ready", "flush"} /\ UNCHANGED <<imm, tableVars>>
        /\ wal' = [wal EXCEPT ![k] = c] /\ mem' = [mem EXCEPT ![k] = c]
    BY <1>2 DEF Put
  <2> QED
    BY <2>1 DEF tableVars, Complete
<1>3. CASE Closed \/ MergeFails
  <2>1. /\ pc \in {"ready", "merge"} /\ pc' \in {"ready", "flush"} /\ UNCHANGED <<dataVars, disk, sstables>>
    BY <1>3 DEF Closed, MergeFails, Release, tableVars
  <2> QED
    BY <2>1 DEF dataVars, Complete
<1>4. CASE Exit \/ Crash
  <2>1. pc' = "down"
    BY <1>4 DEF Exit, Crash, LoseMemory
  <2> QED
    BY <2>1
<1>5. CASE Restart
  <2>1. /\ pc' = "ready" /\ mem' = wal /\ wal' = wal /\ imm' = imm /\ imm = Empty
        /\ sstables' = Loadable /\ disk' = disk
    BY <1>5 DEF Restart, TablesInOrder
  <2>2. Complete' = Range(sstables')
    BY <2>1, LoadableIs DEF Complete
  <2> QED
    BY <2>1, <2>2
<1>6. CASE FlushStart \/ MergeStart
  <2>1. /\ NewFile /\ sstables' = sstables /\ pc \in {"flush", "ready"}
        /\ \/ pc' = "write" /\ imm' = mem /\ mem' = Empty /\ wal' = wal
           \/ pc' = "merge" /\ UNCHANGED dataVars
    BY <1>6 DEF FlushStart, MergeStart
  <2>2. Complete' = Complete
    BY <2>1, NewFileIs
  <2> QED
    BY <2>1, <2>2 DEF dataVars
<1>7. CASE FlushWrite
  <2>1. /\ pc = "write" /\ pc' = "clear" /\ UNCHANGED dataVars
        /\ disk' = [disk EXCEPT ![nextId - 1] = [level |-> 0, data |-> imm]]
        /\ sstables' = Append(sstables, nextId - 1)
    BY <1>7 DEF FlushWrite
  <2>2. [level |-> 0, data |-> imm] \in Tables
    BY DEF Tables, EngineTypeOK
  <2>3. /\ nextId - 1 \in Ids /\ nextId - 1 \notin Complete
        /\ Complete' = Complete \cup {nextId - 1}
    BY <2>1, <2>2, NewTableIs
  <2>4. Range(sstables') = Range(sstables) \cup {nextId - 1}
    BY <2>1, <2>3, NewComesLast, OpenIsComplete
  <2> QED
    BY <2>1, <2>3, <2>4 DEF dataVars
<1>8. CASE FlushEnd
  BY <1>8 DEF FlushEnd, tableVars, Complete
<1>9. CASE FlushFails \/ OpenFails
  BY <1>9 DEF FlushFails, OpenFails
<1>10. CASE MergeWrite
  <2>1. /\ pc = "merge" /\ pc' = "remove" /\ UNCHANGED <<dataVars, sstables, nextId>>
        /\ disk' = [disk EXCEPT ![nextId - 1] = [level |-> 1, data |-> Merged]]
    BY <1>10 DEF MergeWrite
  <2>2. [level |-> 1, data |-> Merged] \in Tables
    BY MergedIs DEF Tables
  <2>3. Complete' = Complete \cup {nextId - 1}
    BY <2>1, <2>2, NewTableIs
  <2> QED
    BY <2>1, <2>3 DEF dataVars
<1>11. CASE RemoveTable
  <2>1. pc = "remove" /\ pc' = "remove" /\ UNCHANGED <<dataVars, nextId>>
    BY <1>11 DEF RemoveTable, ctlVars
  <2>2. PICK p \in Level0 :
          /\ disk[sstables[p]].level = 0
          /\ Range(sstables') = Range(sstables) \ {sstables[p]}
          /\ Complete' = Complete \ {sstables[p]}
    BY <1>11, RemovedIs
  <2>3. nextId - 1 # sstables[p]
    BY <2>1, <2>2 DEF TablesInOrder
  <2> QED
    BY <2>1, <2>2, <2>3 DEF dataVars
<1>12. CASE MergeEnd
  <2>1. /\ pc = "remove" /\ pc' = "ready" /\ UNCHANGED <<dataVars, disk>>
        /\ sstables' = Append(sstables, nextId - 1)
    BY <1>12 DEF MergeEnd, Release, dataVars
  <2>2. nextId - 1 \in Ids /\ nextId - 1 \notin Range(sstables)
    BY <2>1, CompleteIs DEF TablesInOrder
  <2>3. Range(sstables') = Range(sstables) \cup {nextId - 1}
    BY <2>1, <2>2, NewComesLast
  <2> QED
    BY <2>1, <2>3 DEF dataVars, Complete
<1> QED
  BY <1>1, <1>2, <1>3, <1>4, <1>5, <1>6, <1>7, <1>8, <1>9, <1>10, <1>11, <1>12, StepKinds

----------------------------------------------------------------------------
(* What a merged table says.                                               *)

\* The tables of level 0 before q that have a value for k.
Older(q, k) == {p \in Complete : p < q /\ disk[p].level = 0 /\ disk[p].data[k] \in Values}

\* A step that leaves the tables before q alone, as far as level 0 goes, leaves
\* what q covers.
LEMMA CoverSame ==
  ASSUME EngineTypeOK, MergesCoverOlder,
         NEW q \in Complete, q \in Complete', disk'[q] = disk[q], disk[q].level = 1,
         NEW k \in Keys, Older(q, k)' = Older(q, k), Older(q, k) # {},
         \A p \in Complete : p < q /\ p \in Complete' => disk'[p] = disk[p]
  PROVE  disk'[q].data[k] = disk'[Max(Older(q, k))].data[k]
<1>1. Complete \in SUBSET Numbers /\ Older(q, k) \in SUBSET (0 .. 98)
  BY CompleteIs DEF Older, Numbers
<1>2. Max(Older(q, k)) \in Older(q, k)
  BY <1>1, LastNumber
<1>3. disk[q].data[k] = disk[Max(Older(q, k))].data[k]
  BY DEF MergesCoverOlder, Older
<1> DEFINE p == Max(Older(q, k))
<1>4. p \in Older(q, k) /\ p \in Older(q, k)'
  BY <1>2
<1> HIDE DEF p
<1>5. p \in Complete /\ p < q
  BY <1>4 DEF Older
<1>6. p \in Complete'
  BY <1>4 DEF Older
<1>7. disk'[p] = disk[p]
  BY <1>5, <1>6
<1> QED
  BY <1>3, <1>7 DEF p

\* A step that writes no table of level 1 and takes none away.
LEMMA CoverBySame ==
  ASSUME EngineTypeOK, MergesCoverOlder,
         \A q \in Complete' : disk'[q].level = 1 => q \in Complete,
         \A q \in Complete : q \in Complete' /\ disk'[q] = disk[q],
         \A p \in Complete' \ Complete : \A q \in Complete : ~(p < q)
  PROVE  MergesCoverOlder'
<1> SUFFICES ASSUME NEW q \in Complete', disk'[q].level = 1, NEW k \in Keys, Older(q, k)' # {}
             PROVE  disk'[q].data[k] = disk'[Max(Older(q, k)')].data[k]
  BY DEF MergesCoverOlder, Older
<1>1. q \in Complete /\ disk'[q] = disk[q] /\ disk[q].level = 1
  OBVIOUS
<1>2. Older(q, k)' = Older(q, k)
  <2>1. ASSUME NEW p \in Older(q, k) PROVE p \in Older(q, k)'
    BY <2>1 DEF Older
  <2>2. ASSUME NEW p \in Older(q, k)' PROVE p \in Older(q, k)
    <3>1. p \in Complete' /\ p < q /\ disk'[p].level = 0 /\ disk'[p].data[k] \in Values
      BY <2>2 DEF Older
    <3>2. p \in Complete
      BY <1>1, <3>1
    <3> QED
      BY <3>1, <3>2 DEF Older
  <2> QED
    BY <2>1, <2>2
<1>3. disk'[q].data[k] = disk'[Max(Older(q, k))].data[k]
  BY <1>1, <1>2, CoverSame
<1> QED
  BY <1>2, <1>3

\* The tables of level 0 that have a value for k.
Valued(k) == {p \in Complete : disk[p].level = 0 /\ disk[p].data[k] \in Values}

\* The loop over the open tables ends with the value in the last of these.
LEMMA MergedIsLast ==
  ASSUME EngineTypeOK, Complete = Range(sstables), Ascending(sstables), NEW k \in Keys
  PROVE  /\ Valued(k) = {} => Merged[k] = Missing
         /\ Valued(k) # {} => /\ Max(Valued(k)) \in Valued(k)
                             /\ \A p \in Valued(k) : p <= Max(Valued(k))
                             /\ Merged[k] = disk[Max(Valued(k))].data[k]
<1> DEFINE at == {n \in Level0 : disk[sstables[n]].data[k] \in Values}
           last == sstables[Max(at)]
<1>1. \A n \in 1 .. Len(sstables) : sstables[n] \in Complete /\ sstables[n] \in Nat
  BY CompleteIs
<1>2. \A p \in Valued(k) : \E n \in at : sstables[n] = p
  <2> SUFFICES ASSUME NEW p \in Valued(k) PROVE \E n \in at : sstables[n] = p
    OBVIOUS
  <2>1. p \in Range(sstables) /\ disk[p].level = 0 /\ disk[p].data[k] \in Values
    BY DEF Valued
  <2>2. PICK n \in 1 .. Len(sstables) : sstables[n] = p
    BY <2>1 DEF Range, EngineTypeOK
  <2> QED
    BY <2>1, <2>2 DEF Level0
<1>3. \A n \in at : sstables[n] \in Valued(k)
  BY Level0Is DEF Valued
<1>4. CASE at = {}
  <2>1. Valued(k) = {} /\ Merged[k] = Missing
    BY <1>2, <1>4, MergedIs
  <2> QED
    BY <2>1
<1>5. CASE at # {}
  <2>1. /\ Max(at) \in at /\ \A n \in at : n <= Max(at)
        /\ Merged[k] = disk[last].data[k]
    BY <1>5, MergedIs
  <2>2. last \in Valued(k)
    BY <1>3, <2>1
  <2>3. at \subseteq 1 .. Len(sstables) /\ Len(sstables) \in Nat
    BY Level0Is
  <2> HIDE DEF at
  <2>4. \A n \in at : sstables[n] <= last
    <3>1. sstables \in Seq(Nat)
      BY CompleteIs DEF EngineTypeOK
    <3> QED
      BY <1>5, <2>3, <3>1, LastPlace
  <2> HIDE DEF last
  <2>5. \A p \in Valued(k) : p <= last
    BY <1>2, <2>4
  <2>6. Valued(k) \in SUBSET (0 .. 98)
    BY CompleteIs DEF Valued, Numbers
  <2>7. Max(Valued(k)) = last
    BY <2>2, <2>5, <2>6, GreatestIs
  <2> QED
    BY <2>1, <2>2, <2>5, <2>7
<1> QED
  BY <1>4, <1>5

\* The merged table says of a key what the last table of level 0 with a value says.
LEMMA CoverByMerge ==
  ASSUME EngineTypeOK, TablesInOrder, NothingForgotten, MergesCoverOlder, ~Overgrown, MergeWrite
  PROVE  MergesCoverOlder'
<1> DEFINE new == nextId - 1
           v == [level |-> 1, data |-> Merged]
<1>1. pc = "merge" /\ disk' = [disk EXCEPT ![new] = v]
  BY DEF MergeWrite
<1>2. v \in Tables /\ v.data = Merged
  BY MergedIs DEF Tables
<1>3. /\ new \in Ids /\ new \notin Complete /\ Complete' = Complete \cup {new} /\ disk'[new] = v
      /\ \A i \in Complete : disk'[i] = disk[i] /\ i < new
  BY <1>1, <1>2, NewTableIs
<1>4. Complete = Range(sstables) /\ Ascending(sstables)
  BY <1>1 DEF NothingForgotten, TablesInOrder
<1> HIDE DEF new, v
<1> SUFFICES ASSUME NEW q \in Complete', disk'[q].level = 1, NEW k \in Keys, Older(q, k)' # {}
             PROVE  disk'[q].data[k] = disk'[Max(Older(q, k)')].data[k]
  BY DEF MergesCoverOlder, Older
<1>5. new \in Nat /\ Complete \in SUBSET Nat
  BY <1>3, CompleteIs
<1>6. Older(q, k)' = Older(q, k)
  <2>1. ASSUME NEW p \in Older(q, k) PROVE p \in Older(q, k)'
    BY <1>3, <2>1 DEF Older
  <2>2. ASSUME NEW p \in Older(q, k)' PROVE p \in Older(q, k)
    <3>1. p \in Complete' /\ p < q /\ disk'[p].level = 0 /\ disk'[p].data[k] \in Values
      BY <2>2 DEF Older
    <3>2. p \in Complete
      BY <1>3, <1>5, <3>1
    <3> QED
      BY <1>3, <3>1, <3>2 DEF Older
  <2> QED
    BY <2>1, <2>2
<1>7. CASE q \in Complete
  <2>1. disk'[q] = disk[q] /\ \A p \in Complete : disk'[p] = disk[p]
    BY <1>3, <1>7
  <2>2. disk'[q].data[k] = disk'[Max(Older(q, k))].data[k]
    BY <1>6, <1>7, <2>1, CoverSame
  <2> QED
    BY <1>6, <2>2
<1>8. CASE q = new
  <2>1. Older(q, k) = Valued(k)
    BY <1>3, <1>8 DEF Older, Valued
  <2>2. Max(Valued(k)) \in Valued(k) /\ Merged[k] = disk[Max(Valued(k))].data[k]
    BY <1>4, <1>6, <2>1, MergedIsLast
  <2>3. disk'[Max(Valued(k))] = disk[Max(Valued(k))]
    BY <1>3, <2>2 DEF Valued
  <2>4. disk'[q].data[k] = Merged[k]
    BY <1>2, <1>3, <1>8
  <2> QED
    BY <1>6, <2>1, <2>2, <2>3, <2>4
<1> QED
  BY <1>3, <1>7, <1>8

\* The oldest table of level 0 goes first: as long as an older one is left, the
\* last of them says what it said.
LEMMA CoverByRemove ==
  ASSUME EngineTypeOK, TablesInOrder, NothingForgotten, MergesCoverOlder, ~Overgrown, RemoveTable
  PROVE  /\ MergesCoverOlder'
         /\ \E p0 \in Complete :
              /\ disk[p0].level = 0 /\ Complete' = Complete \ {p0}
              /\ \A i \in Complete' : disk'[i] = disk[i]
              /\ \A i \in Complete : disk[i].level = 0 => p0 <= i
<1>1. PICK n0 \in Level0 :
        /\ \A n \in Level0 : n0 <= n
        /\ sstables[n0] \in Complete /\ disk[sstables[n0]].level = 0
        /\ Complete' = Complete \ {sstables[n0]}
        /\ \A i \in Ids : i # sstables[n0] => disk'[i] = disk[i]
  BY RemovedIs
<1>2. pc = "remove" /\ Ascending(sstables)
  BY DEF RemoveTable, TablesInOrder
<1>3. \A i \in Complete : disk[i].level = 0 => i \in Range(sstables)
  BY <1>2 DEF NothingForgotten, TablesInOrder
<1> DEFINE p0 == sstables[n0]
<1>4. \A i \in Complete : disk[i].level = 0 => p0 <= i
  <2> SUFFICES ASSUME NEW i \in Complete, disk[i].level = 0 PROVE p0 <= i
    OBVIOUS
  <2>1. PICK n \in 1 .. Len(sstables) : sstables[n] = i
    BY <1>3 DEF Range, EngineTypeOK
  <2>2. n \in Level0
    BY <2>1 DEF Level0
  <2>3. n0 <= n /\ n0 \in 1 .. Len(sstables) /\ Len(sstables) \in Nat
    BY <1>1, <2>2, Level0Is
  <2>4. i \in Nat /\ p0 \in Nat
    BY <1>1, CompleteIs
  <2>5. CASE n0 = n
    BY <2>1, <2>4, <2>5
  <2>6. CASE n0 # n
    <3>1. n0 < n
      BY <2>3, <2>6
    <3>2. p0 < i
      BY <1>2, <2>1, <2>3, <3>1 DEF Ascending
    <3> QED
      BY <2>4, <3>2
  <2> QED
    BY <2>5, <2>6
<1>5. /\ p0 \in Complete /\ disk[p0].level = 0 /\ Complete' = Complete \ {p0}
      /\ \A i \in Complete' : disk'[i] = disk[i]
  BY <1>1, CompleteIs
<1> HIDE DEF p0
<1>6. ASSUME NEW q \in Complete', disk'[q].level = 1, NEW k \in Keys, Older(q, k)' # {}
      PROVE  disk'[q].data[k] = disk'[Max(Older(q, k)')].data[k]
  <2>1. q \in Complete /\ disk'[q] = disk[q] /\ disk[q].level = 1
    BY <1>5, <1>6
  <2>2. Older(q, k)' = Older(q, k) \ {p0}
    <3>1. ASSUME NEW p \in Older(q, k)' PROVE p \in Older(q, k) \ {p0}
      BY <1>5, <3>1 DEF Older
    <3>2. ASSUME NEW p \in Older(q, k) \ {p0} PROVE p \in Older(q, k)'
      BY <1>5, <3>2 DEF Older
    <3> QED
      BY <3>1, <3>2
  <2>3. Older(q, k) \in SUBSET (0 .. 98) /\ Older(q, k)' \in SUBSET (0 .. 98) /\ Older(q, k) # {}
    BY <1>6, <2>2, CompleteIs DEF Older, Numbers
  <2> DEFINE last == Max(Older(q, k)')
             later == Older(q, k)'
  <2> HIDE DEF later
  <2>4. last \in Older(q, k)' /\ \A p \in Older(q, k)' : p <= last
    <3>1. Max(later) \in later /\ \A p \in later : p <= Max(later)
      BY <1>6, <2>3, LastIsGreatest DEF later
    <3> QED
      BY <3>1 DEF later
  <2> HIDE DEF last
  <2>5. last \in Older(q, k) /\ p0 <= last
    BY <1>4, <2>2, <2>4 DEF Older
  <2>6. \A p \in Older(q, k) : p <= last
    BY <2>2, <2>4, <2>5
  <2>7. Max(Older(q, k)) = last
    BY <2>3, <2>5, <2>6, GreatestIs
  <2>8. disk[q].data[k] = disk[last].data[k]
    BY <2>1, <2>3, <2>7 DEF MergesCoverOlder, Older
  <2>9. disk'[last] = disk[last]
    BY <1>5, <2>4 DEF Older
  <2> QED
    BY <2>1, <2>8, <2>9 DEF last
<1>7. MergesCoverOlder'
  BY <1>6 DEF MergesCoverOlder, Older
<1> QED
  BY <1>4, <1>5, <1>7

LEMMA CoverKept ==
  ASSUME EngineTypeOK, TablesInOrder, NothingForgotten, MergesCoverOlder, ~Overgrown, [Next]_vars
  PROVE  MergesCoverOlder'
<1>1. CASE disk' = disk
  BY <1>1 DEF MergesCoverOlder, Complete
<1>2. CASE UNCHANGED <<dataVars, tableVars, pc, histVars>>
  BY <1>1, <1>2 DEF tableVars
<1>3. CASE \/ \E k \in Keys, c \in Contents : Put(k, c)
           \/ Closed \/ Exit \/ Crash \/ Restart \/ FlushEnd \/ MergeEnd \/ MergeFails \/ OpenFails
  BY <1>1, <1>3 DEF Put, Closed, Exit, Crash, Restart, FlushEnd, MergeEnd, MergeFails, OpenFails, tableVars
<1>4. CASE FlushStart \/ MergeStart
  <2>1. NewFile /\ pc # "down"
    BY <1>4 DEF FlushStart, MergeStart
  <2>2. /\ nextId \notin Complete /\ Complete' = Complete
        /\ \A i \in Ids : i # nextId => disk'[i] = disk[i]
    BY <2>1, NewFileIs
  <2>3. \A q \in Complete : q \in Complete' /\ disk'[q] = disk[q]
    BY <2>2, CompleteIs
  <2> QED
    BY <2>2, <2>3, CoverBySame
<1>5. CASE FlushWrite \/ FlushFails
  <2>1. /\ pc = "write"
        /\ disk' \in {disk, [disk EXCEPT ![nextId - 1] = [level |-> 0, data |-> imm]]}
    BY <1>5 DEF FlushWrite, FlushFails
  <2>2. CASE disk' = [disk EXCEPT ![nextId - 1] = [level |-> 0, data |-> imm]]
    <3>1. [level |-> 0, data |-> imm] \in Tables
      BY DEF Tables, EngineTypeOK
    <3>2. /\ nextId - 1 \in Ids
          /\ Complete' = Complete \cup {nextId - 1}
          /\ disk'[nextId - 1] = [level |-> 0, data |-> imm]
          /\ \A i \in Complete : disk'[i] = disk[i] /\ i < nextId - 1
      BY <2>1, <2>2, <3>1, NewTableIs
    <3>3. \A q \in Complete' : disk'[q].level = 1 => q \in Complete
      BY <3>2
    <3>4. \A q \in Complete : ~(nextId - 1 < q)
      <4> SUFFICES ASSUME NEW q \in Complete PROVE ~(nextId - 1 < q)
        OBVIOUS
      <4>1. q \in Nat /\ nextId - 1 \in Nat /\ q < nextId - 1
        BY <3>2, CompleteIs
      <4> QED
        BY <4>1
    <3> QED
      BY <3>2, <3>3, <3>4, CoverBySame
  <2> QED
    BY <1>1, <2>1, <2>2
<1> QED
  BY <1>2, <1>3, <1>4, <1>5, StepKinds, CoverByMerge, CoverByRemove

----------------------------------------------------------------------------
(* The invariant.                                                          *)

LEMMA DamageStays ==
  ASSUME [Next]_vars, ~damaged'
  PROVE  ~damaged
<1>1. CASE UNCHANGED damaged
  BY <1>1
<1>2. CASE FlushFails \/ OpenFails
  BY <1>2 DEF FlushFails, OpenFails
<1>3. CASE \/ UNCHANGED <<dataVars, tableVars, pc, histVars>>
           \/ \E k \in Keys, c \in Contents : Put(k, c)
           \/ MergeStart \/ Closed \/ Exit \/ Crash \/ Restart
           \/ FlushStart \/ FlushWrite \/ FlushEnd
           \/ MergeWrite \/ RemoveTable \/ MergeEnd \/ MergeFails
  BY <1>1, <1>3 DEF histVars, Put, MergeStart, Closed, Exit, Crash, Restart, FlushStart, FlushWrite,
                    FlushEnd, MergeWrite, RemoveTable, MergeEnd, MergeFails
<1> QED
  BY <1>2, <1>3, StepKinds

LEMMA EngineStep ==
  ASSUME EngineTypeOK, EngineInv, [Next]_vars
  PROVE  EngineTypeOK' /\ EngineInv'
<1>1. TablesInOrder /\ HoldsPast
  BY DEF EngineInv
<1>2. EngineTypeOK' /\ TablesInOrder' /\ HoldsPast'
  BY <1>1, TypesKept, OrderKept, PastKept
<1>3. ASSUME ~damaged' PROVE ~damaged
  BY <1>3, DamageStays
<1>4. ASSUME ~damaged' PROVE NothingForgotten'
  BY <1>1, <1>3, <1>4, ForgottenKept DEF EngineInv
<1>5. ASSUME ~damaged', ~Overgrown' PROVE MergesCoverOlder'
  <2>1. ~Overgrown
    BY <1>1, <1>5, OvergrownStays
  <2> QED
    BY <1>1, <1>3, <1>5, <2>1, CoverKept DEF EngineInv
<1> QED
  BY <1>2, <1>4, <1>5 DEF EngineInv

LEMMA EngineStart == Init => EngineTypeOK /\ EngineInv
<1> SUFFICES ASSUME Init PROVE EngineTypeOK /\ EngineInv
  OBVIOUS
<1>1. /\ mem = Empty /\ imm = Empty /\ wal = Empty
      /\ disk = [i \in Ids |-> Missing]
      /\ sstables = <<>> /\ nextId = 0
      /\ pc = "ready" /\ running = TRUE /\ thread = "sleep" /\ closing = FALSE
      /\ past = [k \in Keys |-> {}] /\ damaged = FALSE
  BY DEF Init
<1>2. Complete = {}
  BY <1>1 DEF Complete
<1>3. Len(<<>>) = 0 /\ <<>> \in Seq(Ids) /\ nextId \in 0 .. MaxTables
  BY <1>1, EngineAssumption
<1>4. EngineTypeOK
  <2>1. disk \in [Ids -> [level : {0, 1}, data : Table] \cup {Missing, TornTable}]
    BY <1>1
  <2>2. past \in [Keys -> SUBSET Values]
    BY <1>1
  <2>3. \A n \in 1 .. Len(sstables) : disk[sstables[n]] \notin {Missing, TornTable}
    BY <1>1, <1>3
  <2>4. mem \in Table /\ imm \in Table /\ wal \in Table
    BY <1>1, EmptyTyped
  <2> QED
    BY <1>1, <1>3, <2>1, <2>2, <2>3, <2>4 DEF EngineTypeOK
<1>5. TablesInOrder
  BY <1>1, <1>2, NoTables DEF TablesInOrder
<1>6. NothingForgotten
  BY <1>1, <1>2, NoTables DEF NothingForgotten
<1>7. HoldsPast
  BY <1>1, <1>2, EmptyTyped DEF HoldsPast
<1>8. MergesCoverOlder
  BY <1>2 DEF MergesCoverOlder
<1> QED
  BY <1>4, <1>5, <1>6, <1>7, <1>8 DEF EngineInv

LEMMA EngineInvariance == Spec => [](EngineTypeOK /\ EngineInv)
<1>1. EngineTypeOK /\ EngineInv /\ [Next]_vars => EngineTypeOK' /\ EngineInv'
  BY EngineStep
<1> QED
  BY <1>1, EngineStart, PTL DEF Spec

\* The open tables are complete files at every moment: for any sizes, limits and
\* numbers of flushes, compactions, crashes and exceptions.
THEOREM EngineTypes == Spec => []EngineTypeOK
BY EngineInvariance, PTL

\* Every complete file is open once and every open table has its file, through the
\* crashes and exceptions too, as long as each table could be created and opened;
\* until there is an eleventh, they are open from the oldest to the newest.
THEOREM EngineKeepsTables == Spec => []EngineInv
BY EngineInvariance, PTL

\* A restart would load what is open, in the same order until there is an eleventh
\* table, and put into memory what is there.
THEOREM MemoryAlwaysMatchesDisk == Spec => []MemoryMatchesDisk
<1>1. EngineTypeOK /\ EngineInv => MemoryMatchesDisk
  <2> SUFFICES ASSUME EngineTypeOK, EngineInv, pc = "ready", ~damaged
               PROVE  /\ mem = wal /\ imm = Empty
                      /\ Range(sstables) = Range(Loadable)
                      /\ ~Overgrown => sstables = Loadable
    BY DEF MemoryMatchesDisk
  <2>1. mem = wal /\ imm = Empty /\ Complete = Range(sstables)
    BY DEF EngineInv, NothingForgotten
  <2>2. Range(Loadable) = Complete /\ Loadable \in Seq(Complete)
    BY LoadableIs
  <2>3. ASSUME ~Overgrown PROVE sstables = Loadable
    <3>2. \A i \in Complete : i < 10
      BY <2>3, CompleteIs DEF Overgrown
    <3>3. Ascending(sstables) /\ Ascending(Loadable)
      BY <2>3, <3>2, LoadableIs DEF EngineInv, TablesInOrder
    <3>4. sstables \in Seq(Nat) /\ Loadable \in Seq(Nat)
      BY <2>2, CompleteIs DEF EngineTypeOK
    <3> QED
      BY <2>1, <2>2, <3>3, <3>4, AscendingSame
  <2> QED
    BY <2>1, <2>2, <2>3
<1> QED
  BY <1>1, EngineInvariance, PTL

----------------------------------------------------------------------------
(* What a reader finds.                                                    *)

\* The complete tables that have the key, what the newest of them says, and what
\* log and tables together say.
Holding(k) == {i \in Complete : disk[i].data[k] # Missing}
OnDisk(k) == IF Holding(k) = {} THEN Missing ELSE disk[Max(Holding(k))].data[k]
Stored(k) == IF wal[k] # Missing THEN wal[k] ELSE OnDisk(k)

LEMMA HoldingIs ==
  ASSUME EngineTypeOK, NEW k \in Keys
  PROVE  /\ Holding(k) \in SUBSET (0 .. 98) /\ Holding(k) \in SUBSET Complete
         /\ Holding(k) # {} => Max(Holding(k)) \in Holding(k) /\ \A i \in Holding(k) : i <= Max(Holding(k))
         /\ Holding(k) # {} => OnDisk(k) = disk[Max(Holding(k))].data[k] /\ OnDisk(k) \in Contents
<1>1. Holding(k) \in SUBSET (0 .. 98)
  BY CompleteIs DEF Holding, Numbers
<1>2. Holding(k) # {} => Max(Holding(k)) \in Holding(k) /\ \A i \in Holding(k) : i <= Max(Holding(k))
  BY <1>1, LastIsGreatest
<1>3. \A i \in Holding(k) : disk[i].data[k] \in Contents
  BY TableSays DEF Holding
<1>4. Holding(k) # {} => OnDisk(k) = disk[Max(Holding(k))].data[k] /\ OnDisk(k) \in Contents
  BY <1>2, <1>3 DEF OnDisk
<1>5. Holding(k) \in SUBSET Complete
  BY DEF Holding
<1> QED
  BY <1>1, <1>2, <1>4, <1>5

\* The last name is the greatest number as long as numbers have one digit.
LEMMA LastNamedIs ==
  ASSUME EngineTypeOK, ~Overgrown, NEW k \in Keys
  PROVE  LastNamed(k) = OnDisk(k)
<1> DEFINE named == CHOOSE i \in Holding(k) : \A j \in Holding(k) \ {i} : NameLess(j, i)
           g == Max(Holding(k))
<1>1. LastNamed(k) = IF Holding(k) = {} THEN Missing ELSE disk[named].data[k]
  BY DEF LastNamed, Holding
<1>2. CASE Holding(k) = {}
  BY <1>1, <1>2 DEF OnDisk
<1>3. CASE Holding(k) # {}
  <2>1. g \in Holding(k) /\ \A i \in Holding(k) : i <= g
    BY <1>3, HoldingIs
  <2>2. \A i \in Holding(k) : i \in Nat /\ i < 10
    <3>1. \A i \in Holding(k) : i \in Complete /\ i \in Nat
      BY HoldingIs, CompleteIs
    <3> QED
      BY <3>1 DEF Overgrown
  <2>3. \A i, j \in Holding(k) : NameLess(j, i) <=> j < i
    BY <2>2 DEF NameLess
  <2> HIDE DEF g
  <2>4. \A j \in Holding(k) \ {g} : NameLess(j, g)
    <3> SUFFICES ASSUME NEW j \in Holding(k), j # g PROVE NameLess(j, g)
      OBVIOUS
    <3>1. j \in Nat /\ g \in Nat /\ j <= g
      BY <2>1, <2>2
    <3>2. j < g
      BY <3>1
    <3> QED
      BY <2>1, <2>3, <3>2
  <2>5. named \in Holding(k) /\ \A j \in Holding(k) \ {named} : NameLess(j, named)
    BY <2>1, <2>4, Zenon
  <2> HIDE DEF named
  <2>6. named = g
    <3> SUFFICES ASSUME named # g PROVE FALSE
      OBVIOUS
    <3>1. g < named /\ named <= g /\ g \in Nat /\ named \in Nat
      BY <2>1, <2>2, <2>3, <2>5
    <3> QED
      BY <3>1
  <2> QED
    BY <1>1, <1>3, <2>6 DEF g, OnDisk
<1> QED
  BY <1>2, <1>3

\* With more of them it is still a table that has the key.
LEMMA LastNamedHolds ==
  ASSUME EngineTypeOK, NEW k \in Keys
  PROVE  LastNamed(k) = Missing \/ \E i \in Holding(k) : LastNamed(k) = disk[i].data[k]
<1> DEFINE named == CHOOSE i \in Holding(k) : \A j \in Holding(k) \ {i} : NameLess(j, i)
<1>1. LastNamed(k) = IF Holding(k) = {} THEN Missing ELSE disk[named].data[k]
  BY DEF LastNamed, Holding
<1>2. ASSUME Holding(k) # {} PROVE named \in Holding(k)
  <2>1. Holding(k) \in SUBSET Numbers
    BY HoldingIs, CompleteIs
  <2>2. \E i \in Holding(k) : \A j \in Holding(k) \ {i} : NameLess(j, i)
    BY <1>2, <2>1, LastByName
  <2> QED
    BY <2>2, Zenon
<1> QED
  BY <1>1, <1>2

\* Searching the open tables from the last to the first finds the newest one.
LEMMA NewestIs ==
  ASSUME EngineTypeOK, NEW k \in Keys
  PROVE  LET at == {n \in 1 .. Len(sstables) : disk[sstables[n]].data[k] # Missing}
         IN /\ at = {} => Newest(sstables, k) = Missing
            /\ at # {} => /\ Max(at) \in at /\ \A n \in at : n <= Max(at)
                          /\ Newest(sstables, k) = disk[sstables[Max(at)]].data[k]
<1> DEFINE at == {n \in 1 .. Len(sstables) : disk[sstables[n]].data[k] # Missing}
<1>1. Newest(sstables, k) = IF at = {} THEN Missing ELSE disk[sstables[Max(at)]].data[k]
  BY DEF Newest
<1>2. Len(sstables) \in Nat /\ at \in SUBSET (0 .. Len(sstables))
  BY Level0Is
<1> HIDE DEF at
<1>3. at # {} => Max(at) \in at /\ \A n \in at : n <= Max(at)
  BY <1>2, LastIsGreatest
<1>4. /\ at = {} => Newest(sstables, k) = Missing
      /\ at # {} => /\ Max(at) \in at /\ \A n \in at : n <= Max(at)
                    /\ Newest(sstables, k) = disk[sstables[Max(at)]].data[k]
  BY <1>1, <1>3
<1> QED
  BY <1>4 DEF at

LEMMA NewestOnDisk ==
  ASSUME EngineTypeOK, Complete = Range(sstables), Ascending(sstables), NEW k \in Keys
  PROVE  Newest(sstables, k) = OnDisk(k)
<1> DEFINE at == {n \in 1 .. Len(sstables) : disk[sstables[n]].data[k] # Missing}
           last == sstables[Max(at)]
<1>1. \A n \in 1 .. Len(sstables) : sstables[n] \in Complete /\ sstables[n] \in Nat
  BY CompleteIs
<1>2. \A i \in Holding(k) : \E n \in at : sstables[n] = i
  <2> SUFFICES ASSUME NEW i \in Holding(k) PROVE \E n \in at : sstables[n] = i
    OBVIOUS
  <2>1. i \in Range(sstables) /\ disk[i].data[k] # Missing
    BY DEF Holding
  <2>2. PICK n \in 1 .. Len(sstables) : sstables[n] = i
    BY <2>1 DEF Range, EngineTypeOK
  <2> QED
    BY <2>1, <2>2
<1>3. \A n \in at : sstables[n] \in Holding(k)
  BY <1>1 DEF Holding
<1>4. CASE at = {}
  <2>1. Holding(k) = {} /\ Newest(sstables, k) = Missing
    BY <1>2, <1>4, NewestIs
  <2> QED
    BY <2>1 DEF OnDisk
<1>5. CASE at # {}
  <2>1. /\ Max(at) \in at /\ \A n \in at : n <= Max(at)
        /\ Newest(sstables, k) = disk[last].data[k]
    BY <1>5, NewestIs
  <2>2. last \in Holding(k)
    BY <1>3, <2>1
  <2>3. at \subseteq 1 .. Len(sstables) /\ Len(sstables) \in Nat
    BY Level0Is
  <2> HIDE DEF at
  <2>4. \A n \in at : sstables[n] <= last
    <3>1. sstables \in Seq(Nat)
      BY CompleteIs DEF EngineTypeOK
    <3> QED
      BY <1>5, <2>3, <3>1, LastPlace
  <2> HIDE DEF last
  <2>5. \A i \in Holding(k) : i <= last
    BY <1>2, <2>4
  <2>6. Max(Holding(k)) = last
    BY <2>2, <2>5, HoldingIs, GreatestIs
  <2> QED
    BY <2>1, <2>2, <2>6 DEF OnDisk
<1> QED
  BY <1>4, <1>5

\* As long as every table could be created and opened and there is no eleventh, a
\* reader gets what log and tables say, in whatever step flushes and compactions are.
LEMMA AnswerIs ==
  EngineTypeOK /\ EngineInv /\ ~damaged /\ ~Overgrown => \A k \in Keys : Answer(k) = Stored(k)
<1> SUFFICES ASSUME EngineTypeOK, EngineInv, ~damaged, ~Overgrown, NEW k \in Keys
             PROVE  Answer(k) = Stored(k)
  OBVIOUS
<1>1. TablesInOrder /\ NothingForgotten
  BY DEF EngineInv
<1>2. Empty[k] = Missing
  BY EmptyTyped
<1>3. CASE pc \in {"down", "remove"}
  <2>1. pc = "remove" => mem = wal
    BY <1>1 DEF NothingForgotten
  <2> QED
    BY <1>3, <2>1, LastNamedIs DEF Answer, Stored
<1>4. CASE pc \notin {"down", "remove"}
  <2>1. Complete = Range(sstables) /\ Ascending(sstables)
    BY <1>1, <1>4 DEF NothingForgotten, TablesInOrder
  <2>2. Newest(sstables, k) = OnDisk(k)
    BY <2>1, NewestOnDisk
  <2>3. (mem = wal /\ imm = Empty) \/ (mem = Empty /\ imm = wal)
    BY <1>1, <1>4 DEF NothingForgotten, EngineTypeOK
  <2> QED
    BY <1>2, <1>4, <2>2, <2>3 DEF Answer, GetAnswer, Stored
<1> QED
  BY <1>3, <1>4

\* Whatever happened, a reader gets no value that was not written to the key.
LEMMA AnswerFromPast ==
  EngineTypeOK /\ EngineInv => \A k \in Keys : Answer(k) \in past[k] \cup {Missing, Tomb}
<1> SUFFICES ASSUME EngineTypeOK, EngineInv, NEW k \in Keys
             PROVE  Answer(k) \in past[k] \cup {Missing, Tomb}
  OBVIOUS
<1> DEFINE Old == past[k] \cup {Missing, Tomb}
<1>1. /\ mem[k] \in Old /\ imm[k] \in Old /\ wal[k] \in Old
      /\ \A i \in Complete : disk[i].data[k] \in Old
  BY DEF EngineInv, HoldsPast
<1>2. LastNamed(k) \in Old
  BY <1>1, LastNamedHolds, HoldingIs
<1>3. Newest(sstables, k) \in Old
  <2> DEFINE at == {n \in 1 .. Len(sstables) : disk[sstables[n]].data[k] # Missing}
  <2>1. \A n \in at : disk[sstables[n]].data[k] \in Old
    BY <1>1, CompleteIs
  <2>2. Newest(sstables, k) = Missing \/ (Max(at) \in at /\ Newest(sstables, k) = disk[sstables[Max(at)]].data[k])
    BY NewestIs
  <2> HIDE DEF at
  <2> QED
    BY <2>1, <2>2
<1> QED
  BY <1>1, <1>2, <1>3 DEF Answer, GetAnswer

\* Both hold after a step, too.
LEMMA AnswerIsNext ==
  (EngineTypeOK /\ EngineInv /\ ~damaged /\ ~Overgrown => \A k \in Keys : Answer(k) = Stored(k))'
BY AnswerIs, PTL

LEMMA AnswerFromPastNext ==
  (EngineTypeOK /\ EngineInv => \A k \in Keys : Answer(k) \in past[k] \cup {Missing, Tomb})'
BY AnswerFromPast, PTL

----------------------------------------------------------------------------
(* What steps do to it.                                                    *)

\* The steps that are no call of put or remove.
NoCall ==
  \/ UNCHANGED <<dataVars, tableVars, pc, histVars>>
  \/ MergeStart \/ Closed \/ Exit \/ Crash \/ Restart
  \/ FlushStart \/ FlushWrite \/ FlushEnd \/ FlushFails
  \/ MergeWrite \/ RemoveTable \/ MergeEnd \/ MergeFails \/ OpenFails

LEMMA CallOrNot ==
  ASSUME [Next]_vars
  PROVE  \/ \E k \in Keys, c \in Contents : Put(k, c)
         \/ NoCall /\ writes' = writes /\ past' = past
<1>1. CASE UNCHANGED vars \/ Wake \/ Close
  BY <1>1 DEF vars, dataVars, tableVars, ctlVars, histVars, boundVars, Wake, Close, NoCall
<1>2. CASE ThreadCompact \/ Compact
  BY <1>2 DEF ThreadCompact, Compact, MergeStart, dataVars, tableVars, histVars, boundVars, NoCall
<1>3. CASE Closed \/ Exit \/ Restart \/ FlushStart \/ FlushWrite \/ FlushEnd \/ MergeWrite \/ RemoveTable
  BY <1>3 DEF Closed, Exit, Restart, FlushStart, FlushWrite, FlushEnd, MergeWrite, RemoveTable,
              histVars, boundVars, NoCall
<1>4. CASE Crash \/ FlushFails \/ MergeEnd \/ MergeFails \/ OpenFails
  BY <1>4 DEF Crash, FlushFails, MergeEnd, MergeFails, OpenFails, Release, histVars, NoCall
<1> QED
  BY <1>1, <1>2, <1>3, <1>4 DEF Next, ThreadStep, HolderStep, Fault

\* A step that leaves the log and the complete tables alone.
LEMMA StoredSame ==
  ASSUME EngineTypeOK, NEW k \in Keys, wal'[k] = wal[k],
         Holding(k)' = Holding(k), \A i \in Holding(k) : disk'[i] = disk[i]
  PROVE  Stored(k)' = Stored(k)
<1>1. OnDisk(k)' = OnDisk(k)
  BY HoldingIs DEF OnDisk
<1> QED
  BY <1>1 DEF Stored

LEMMA StoredBySame ==
  ASSUME EngineTypeOK, NEW k \in Keys, wal' = wal,
         Complete' = Complete, \A i \in Complete : disk'[i] = disk[i]
  PROVE  Stored(k)' = Stored(k)
<1>1. Holding(k)' = Holding(k) /\ \A i \in Holding(k) : disk'[i] = disk[i]
  BY DEF Holding
<1> QED
  BY <1>1, StoredSame

\* The flushed table says what the log said of its keys.
LEMMA StoredByFlush ==
  ASSUME EngineTypeOK, TablesInOrder, NothingForgotten, NEW k \in Keys, FlushWrite \/ FlushEnd
  PROVE  Stored(k)' = Stored(k)
<1>1. CASE FlushWrite
  <2> DEFINE v == [level |-> 0, data |-> imm]
  <2>1. /\ pc = "write" /\ wal' = wal /\ imm = wal
        /\ disk' = [disk EXCEPT ![nextId - 1] = v]
    BY <1>1 DEF FlushWrite, dataVars, NothingForgotten
  <2>2. v \in Tables /\ v.data = imm
    BY DEF Tables, EngineTypeOK
  <2> HIDE DEF v
  <2>3. /\ Complete' = Complete \cup {nextId - 1} /\ disk'[nextId - 1] = v
        /\ nextId - 1 \notin Complete
        /\ \A i \in Complete : disk'[i] = disk[i]
    BY <2>1, <2>2, NewTableIs
  <2>4. CASE wal[k] # Missing
    BY <2>1, <2>4 DEF Stored
  <2>5. CASE wal[k] = Missing
    <3>1. Holding(k)' = Holding(k) /\ \A i \in Holding(k) : disk'[i] = disk[i]
      BY <2>1, <2>2, <2>3, <2>5 DEF Holding
    <3> QED
      BY <2>1, <3>1, StoredSame
  <2> QED
    BY <2>4, <2>5
<1>2. CASE FlushEnd
  <2>1. /\ pc = "clear" /\ wal' = Empty /\ imm = wal /\ disk' = disk
    BY <1>2 DEF FlushEnd, tableVars, NothingForgotten
  <2>2. nextId - 1 \in Complete /\ disk[nextId - 1].data = wal /\ \A i \in Complete : i < nextId
    BY <2>1 DEF TablesInOrder
  <2>3. wal'[k] = Missing /\ Holding(k)' = Holding(k) /\ OnDisk(k)' = OnDisk(k)
    BY <2>1, EmptyTyped DEF Holding, OnDisk, Complete
  <2>4. CASE wal[k] = Missing
    BY <2>3, <2>4 DEF Stored
  <2>5. CASE wal[k] # Missing
    <3>1. nextId - 1 \in Holding(k)
      BY <2>2, <2>5 DEF Holding
    <3>2. \A i \in Holding(k) : i <= nextId - 1
      <4> SUFFICES ASSUME NEW i \in Holding(k) PROVE i <= nextId - 1
        OBVIOUS
      <4>1. i \in Nat /\ i < nextId /\ nextId \in Nat
        BY <2>2, CompleteIs, EngineAssumption DEF Holding, EngineTypeOK
      <4> QED
        BY <4>1
    <3>3. Max(Holding(k)) = nextId - 1
      BY <3>1, <3>2, HoldingIs, GreatestIs
    <3>4. OnDisk(k) = wal[k]
      BY <2>2, <3>1, <3>3, HoldingIs
    <3> QED
      BY <2>3, <2>5, <3>4 DEF Stored
  <2> QED
    BY <2>4, <2>5
<1> QED
  BY <1>1, <1>2

\* The merged table says what the newest one said, unless that was a mark.
LEMMA StoredByMerge ==
  ASSUME EngineTypeOK, TablesInOrder, NothingForgotten, MergesCoverOlder, ~Overgrown,
         NEW k \in Keys, MergeWrite
  PROVE  Stored(k)' = Stored(k) \/ Stored(k) = Tomb
<1> DEFINE new == nextId - 1
           v == [level |-> 1, data |-> Merged]
           g == Max(Holding(k))
<1>1. pc = "merge" /\ wal' = wal /\ disk' = [disk EXCEPT ![new] = v]
  BY DEF MergeWrite, dataVars
<1>2. v \in Tables /\ v.data = Merged
  BY MergedIs DEF Tables
<1>3. /\ new \in Ids /\ new \notin Complete /\ Complete' = Complete \cup {new} /\ disk'[new] = v
      /\ \A i \in Complete : disk'[i] = disk[i] /\ i < new
  BY <1>1, <1>2, NewTableIs
<1>4. Complete = Range(sstables) /\ Ascending(sstables)
  BY <1>1 DEF NothingForgotten, TablesInOrder
<1>5. new \in Nat /\ Complete \in SUBSET Nat /\ Complete \in SUBSET (0 .. 98)
  BY <1>3, CompleteIs DEF Numbers
<1> HIDE DEF new, v
<1>6. new \in 0 .. 98 /\ \A i \in Complete : i \in 0 .. 98 /\ i <= new
  <2>1. new \in 0 .. 98
    BY <1>3, EngineAssumption DEF Ids
  <2>2. ASSUME NEW i \in Complete PROVE i \in 0 .. 98 /\ i <= new
    <3>1. i \in 0 .. 98 /\ i < new
      BY <1>3, <1>5
    <3> QED
      BY <2>1, <3>1
  <2> QED
    BY <2>1, <2>2
<1>7. CASE wal[k] # Missing
  BY <1>1, <1>7 DEF Stored
<1>8. CASE wal[k] = Missing /\ Merged[k] = Missing
  <2>1. Holding(k)' = Holding(k) /\ \A i \in Holding(k) : disk'[i] = disk[i]
    BY <1>2, <1>3, <1>8 DEF Holding
  <2> QED
    BY <1>1, <2>1, StoredSame
<1>9. CASE wal[k] = Missing /\ Merged[k] # Missing
  <2> DEFINE h == Max(Valued(k))
  <2>1. /\ h \in Valued(k) /\ Merged[k] = disk[h].data[k]
        /\ \A p \in Valued(k) : p <= h
    BY <1>4, <1>9, MergedIsLast
  <2> HIDE DEF h
  <2>2. h \in Holding(k)
    BY <2>1, EntriesAssumption DEF Valued, Holding, Contents
  <2>3. /\ g \in Holding(k) /\ \A i \in Holding(k) : i <= g
        /\ Stored(k) = disk[g].data[k] /\ Stored(k) \in Contents
    BY <1>9, <2>2, HoldingIs DEF Stored
  <2> HIDE DEF g
  <2>4. g \in Complete /\ g \in Nat /\ h \in Complete /\ h \in Nat /\ h <= g
    BY <1>5, <2>1, <2>2, <2>3 DEF Valued, Holding
  <2>5. Stored(k)' = Merged[k]
    <3> DEFINE now == Holding(k)'
    <3>1. \A i \in now : i \in Complete \/ i = new
      BY <1>3 DEF Holding
    <3>2. new \in now
      BY <1>2, <1>3, <1>9 DEF Holding
    <3> HIDE DEF now
    <3>3. \A i \in now : i \in 0 .. 98 /\ i <= new
      BY <1>6, <3>1
    <3>4. now \in SUBSET (0 .. 98)
      BY <3>3
    <3>5. Max(now) = new
      BY <3>2, <3>3, <3>4, GreatestIs
    <3>6. Max(Holding(k)') = new
      BY <3>5 DEF now
    <3>7. OnDisk(k)' = Merged[k]
      BY <1>2, <1>3, <3>2, <3>6 DEF OnDisk, now
    <3> QED
      BY <1>1, <1>9, <3>7 DEF Stored
  <2>6. CASE disk[g].data[k] \in Values /\ disk[g].level = 0
    <3>1. g \in Valued(k)
      BY <2>4, <2>6 DEF Valued
    <3>2. g = h
      BY <2>1, <2>4, <3>1
    <3> QED
      BY <2>1, <2>3, <2>5, <3>2
  <2>7. CASE disk[g].data[k] \in Values /\ disk[g].level # 0
    <3>1. disk[g].level = 1 /\ h # g
      BY <2>1, <2>4, <2>7, TableSays DEF Valued
    <3>2. h < g
      BY <2>4, <3>1
    <3>3. h \in Older(g, k) /\ \A p \in Older(g, k) : p <= h
      BY <2>1, <3>2 DEF Older, Valued
    <3>4. Max(Older(g, k)) = h
      BY <1>5, <3>3, GreatestIs DEF Older
    <3>5. disk[g].data[k] = disk[Max(Older(g, k))].data[k]
      BY <2>4, <3>1, <3>3 DEF MergesCoverOlder, Older
    <3> QED
      BY <2>1, <2>3, <2>5, <3>4, <3>5
  <2>8. CASE disk[g].data[k] \notin Values
    BY <2>3, <2>8 DEF Contents
  <2> QED
    BY <2>6, <2>7, <2>8
<1> QED
  BY <1>7, <1>8, <1>9

\* The table that goes was covered, unless it held a mark.
LEMMA StoredByRemove ==
  ASSUME EngineTypeOK, TablesInOrder, NothingForgotten, MergesCoverOlder, ~Overgrown,
         NEW k \in Keys, RemoveTable
  PROVE  Stored(k)' = Stored(k) \/ Stored(k) = Tomb
<1> DEFINE new == nextId - 1
           g == Max(Holding(k))
<1>1. PICK p0 \in Complete :
        /\ disk[p0].level = 0 /\ Complete' = Complete \ {p0}
        /\ \A i \in Complete' : disk'[i] = disk[i]
  BY CoverByRemove
<1>2. pc = "remove" /\ wal' = wal
  BY DEF RemoveTable, dataVars
<1>3. /\ new \in Complete /\ disk[new].level = 1
      /\ Complete \in SUBSET Nat /\ Complete \in SUBSET (0 .. 98)
      /\ \A i \in Complete : i < nextId
  BY <1>2, CompleteIs DEF TablesInOrder, Numbers
<1>4. nextId \in Nat
  BY EngineAssumption DEF EngineTypeOK
<1>5. p0 < new
  <2>1. p0 \in Nat /\ p0 < nextId /\ p0 # new
    BY <1>1, <1>3
  <2> QED
    BY <1>4, <2>1
<1> HIDE DEF new
<1>6. Holding(k)' = Holding(k) \ {p0}
  BY <1>1 DEF Holding
<1>7. CASE wal[k] # Missing
  BY <1>2, <1>7 DEF Stored
<1>8. CASE p0 \notin Holding(k)
  <2>1. Holding(k)' = Holding(k) /\ \A i \in Holding(k) : disk'[i] = disk[i]
    BY <1>1, <1>6, <1>8 DEF Holding
  <2> QED
    BY <1>2, <2>1, StoredSame
<1>9. CASE wal[k] = Missing /\ p0 \in Holding(k)
  <2>1. /\ g \in Holding(k) /\ \A i \in Holding(k) : i <= g
        /\ Stored(k) = disk[g].data[k] /\ Stored(k) \in Contents
    BY <1>9, HoldingIs DEF Stored
  <2> HIDE DEF g
  <2>2. g \in Complete /\ g \in Nat /\ p0 \in Nat
    BY <1>3, <2>1 DEF Holding
  <2>3. CASE g # p0
    <3> DEFINE now == Holding(k)'
    <3>1. g \in now /\ now \in SUBSET (0 .. 98) /\ \A i \in now : i <= g
      BY <1>3, <1>6, <2>1, <2>3 DEF Holding
    <3> HIDE DEF now
    <3>2. Max(now) = g
      BY <3>1, GreatestIs
    <3>3. g \in Holding(k)' /\ Max(Holding(k)') = g
      BY <3>1, <3>2 DEF now
    <3>4. disk'[g] = disk[g]
      BY <1>1, <3>3 DEF Holding
    <3>5. OnDisk(k)' = disk[g].data[k]
      BY <3>3, <3>4 DEF OnDisk
    <3> QED
      BY <1>2, <1>9, <2>1, <3>5 DEF Stored
  <2>4. CASE g = p0 /\ disk[g].data[k] \in Values
    <3>1. p0 \in Older(new, k) /\ Older(new, k) \in SUBSET (0 .. 98)
      BY <1>1, <1>3, <1>5, <2>4 DEF Older
    <3> DEFINE h == Max(Older(new, k))
    <3>2. h \in Older(new, k)
      <4>1. Older(new, k) # {} /\ 98 \in Nat
        BY <3>1
      <4> QED
        BY <3>1, <4>1, LastNumber
    <3>3. disk[new].data[k] = disk[h].data[k]
      BY <1>3, <3>1 DEF MergesCoverOlder, Older
    <3> HIDE DEF h
    <3>4. disk[new].data[k] \in Values
      BY <3>2, <3>3 DEF Older
    <3>5. new \in Holding(k)
      BY <1>3, <3>4, EntriesAssumption DEF Holding, Contents
    <3>6. new <= g /\ new \in Nat
      BY <1>3, <2>1, <3>5
    <3> QED
      BY <1>5, <2>2, <2>4, <3>6
  <2>5. CASE disk[g].data[k] \notin Values
    BY <2>1, <2>5 DEF Contents
  <2> QED
    BY <2>3, <2>4, <2>5
<1> QED
  BY <1>7, <1>8, <1>9

LEMMA StoredKept ==
  ASSUME EngineTypeOK, EngineInv, ~damaged, ~damaged', ~Overgrown, NoCall, NEW k \in Keys
  PROVE  Stored(k)' = Stored(k) \/ Stored(k) = Tomb
<1>1. TablesInOrder /\ NothingForgotten /\ MergesCoverOlder
  BY DEF EngineInv
<1>2. CASE UNCHANGED <<wal, disk>>
  <2>1. Complete' = Complete
    BY <1>2 DEF Complete
  <2> QED
    BY <1>2, <2>1, StoredBySame
<1>3. CASE \/ UNCHANGED <<dataVars, tableVars, pc, histVars>>
           \/ Closed \/ Exit \/ Crash \/ Restart \/ MergeEnd \/ MergeFails
  BY <1>2, <1>3 DEF dataVars, tableVars, Closed, Exit, Crash, Restart, MergeEnd, MergeFails, Release
<1>4. CASE FlushStart \/ MergeStart
  <2>1. NewFile /\ pc # "down" /\ wal' = wal
    BY <1>4 DEF FlushStart, MergeStart, dataVars
  <2>2. /\ nextId \notin Complete /\ Complete' = Complete
        /\ \A i \in Ids : i # nextId => disk'[i] = disk[i]
    BY <1>1, <2>1, NewFileIs
  <2>3. \A i \in Complete : disk'[i] = disk[i]
    BY <2>2, CompleteIs
  <2> QED
    BY <2>1, <2>2, <2>3, StoredBySame
<1>5. CASE FlushFails \/ OpenFails
  BY <1>5 DEF FlushFails, OpenFails
<1> QED
  BY <1>1, <1>3, <1>4, <1>5, StoredByFlush, StoredByMerge, StoredByRemove DEF NoCall

----------------------------------------------------------------------------
(* The refinement.                                                         *)

\* put() and remove() take effect at once, for this key and no other.
LEMMA PutWrites ==
  ASSUME EngineTypeOK, NEW k \in Keys, NEW c \in Contents, Put(k, c)
  PROVE  Map!Next
<1>1. /\ pc = "ready" /\ pc' \in {"ready", "flush"} /\ writes' = writes + 1
      /\ mem' = [mem EXCEPT ![k] = c] /\ imm' = imm /\ UNCHANGED tableVars
      /\ past' = [past EXCEPT ![k] = @ \cup ({c} \cap Values)]
      /\ (damaged \/ Overgrown)' = (damaged \/ Overgrown)
  BY DEF Put, tableVars, Overgrown, Complete
<1>2. mem \in Table /\ past \in [Keys -> SUBSET Values] /\ c # Missing
  BY EntriesAssumption DEF EngineTypeOK
<1>3. Answer(k)' = c
  BY <1>1, <1>2 DEF Answer, GetAnswer, Table
<1>4. \A j \in Keys : j # k => Answer(j)' = Answer(j)
  BY <1>1, <1>2 DEF Answer, GetAnswer, Newest, tableVars, Table
<1> DEFINE value == [j \in Keys |-> Answer(j)]
<1>5. value' = [value EXCEPT ![k] = c]
  BY <1>3, <1>4
<1> HIDE DEF value
<1>6. CASE c \in Values
  <2>1. past' = [past EXCEPT ![k] = @ \cup {c}]
    BY <1>1, <1>6
  <2>2. Map!Write(k, c)
    BY <1>1, <1>5, <2>1 DEF Map!Write, value
  <2> QED
    BY <1>6, <2>2 DEF Map!Next
<1>7. CASE c = Tomb
  <2>1. past' = past
    BY <1>1, <1>2, <1>7, EntriesAssumption
  <2>2. Map!Remove(k)
    BY <1>1, <1>5, <1>7, <2>1 DEF Map!Remove, value
  <2> QED
    BY <2>2 DEF Map!Next
<1> QED
  BY <1>6, <1>7 DEF Contents

\* Everything else leaves what is read alone, or revives a removed key, or damages.
LEMMA OthersRevive ==
  ASSUME EngineTypeOK, EngineInv, EngineTypeOK', EngineInv',
         [Next]_vars, NoCall, writes' = writes, past' = past
  PROVE  Map!Next
<1>1. \A k \in Keys : Answer(k)' \in past[k] \cup {Missing, Tomb}
  BY AnswerFromPastNext
<1>2. past \in [Keys -> SUBSET Values]
  BY DEF EngineTypeOK
<1> DEFINE value == [k \in Keys |-> Answer(k)]
<1>3. value' \in [Keys -> Values \cup {Missing, Tomb}]
  BY <1>1, <1>2
<1>4. CASE damaged' \/ Overgrown'
  <2>1. (damaged' \/ Overgrown') = TRUE
    BY <1>4
  <2>2. \A k \in Keys : Map!Stray(k)
    BY <1>1 DEF Map!Stray
  <2>3. Map!Damage
    BY <1>3, <2>1, <2>2 DEF Map!Damage
  <2> QED
    BY <2>3 DEF Map!Next
<1>5. CASE ~(damaged' \/ Overgrown')
  <2>1. ~damaged /\ ~Overgrown
    BY <1>5, DamageStays, OvergrownStays DEF EngineInv
  <2>2. (damaged' \/ Overgrown') = (damaged \/ Overgrown)
    BY <1>5, <2>1
  <2>3. ASSUME NEW k \in Keys
        PROVE  value'[k] = value[k] \/ (value[k] = Tomb /\ Map!Stray(k))
    <3>1. Answer(k) = Stored(k) /\ Answer(k)' = Stored(k)'
      BY <1>5, <2>1, AnswerIs, AnswerIsNext
    <3>2. Stored(k)' = Stored(k) \/ Stored(k) = Tomb
      BY <1>5, <2>1, StoredKept
    <3>3. Map!Stray(k)
      BY <1>1 DEF Map!Stray
    <3> QED
      BY <3>1, <3>2, <3>3
  <2>4. Map!Revive
    BY <1>3, <2>2, <2>3 DEF Map!Revive
  <2> QED
    BY <2>4 DEF Map!Next
<1> QED
  BY <1>4, <1>5

\* The engine implements the reviving map: through flushes, compactions, crashes
\* and restarts at any of their steps, a key that is not removed reads as it was
\* last written until a table could not be created or opened or there is an
\* eleventh, and as absent, removed or some value once written to it afterwards.
THEOREM EngineRefinesMap == Spec => RevivingMapSpec
<1>1. Init => Map!Init
  <2> SUFFICES ASSUME Init PROVE Map!Init
    OBVIOUS
  <2>1. EngineTypeOK /\ EngineInv
    BY EngineStart
  <2>2. ~damaged /\ wal = Empty /\ Complete = {} /\ ~Overgrown
    BY DEF Init, Complete, Overgrown
  <2>3. \A k \in Keys : Stored(k) = Missing
    BY <2>2, EmptyTyped DEF Stored, OnDisk, Holding
  <2>4. \A k \in Keys : Answer(k) = Missing
    BY <2>1, <2>2, <2>3, AnswerIs
  <2> QED
    BY <2>2, <2>4 DEF Init, Map!Init
<1>2. EngineTypeOK /\ EngineInv /\ EngineTypeOK' /\ EngineInv' /\ [Next]_vars => [Map!Next]_(Map!mapVars)
  BY CallOrNot, PutWrites, OthersRevive
<1> QED
  BY <1>1, <1>2, EngineInvariance, PTL DEF Spec, RevivingMapSpec, Map!Spec
=============================================================================
