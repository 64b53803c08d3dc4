--------------------------- MODULE KVStoreProofs ---------------------------
(***************************************************************************)
(* Proofs about KVStore, for any keys, values, sizes and bounds: the cache *)
(* is coherent, the store implements ForgetfulMap, and it uses the cache   *)
(* as LRUCache means it to be used.                                        *)
(***************************************************************************)
EXTENDS KVStore, LRUCacheProofs

----------------------------------------------------------------------------
(* The parts.                                                              *)

\* A table that was opened answers for no key.
LEMMA NoTableAnswers == ASSUME NEW k PROVE TableGet(k) = Missing /\ TableGet(k)' = Missing
BY DEF TableGet, Holding, TableIndex

\* A search below the cache that finds nothing in the tables.
Below(mem, imm, k) ==
  IF mem[k] \in Values THEN mem[k] ELSE IF imm[k] \in Values THEN imm[k] ELSE Missing

LEMMA LookupIs ==
  ASSUME NEW k
  PROVE  /\ Lookup(k) = Below(memtable, immutable, k)
         /\ Lookup(k)' = Below(memtable', immutable', k)
BY NoTableAnswers DEF Lookup, Below

\* Recovery yields a memtable, of values once written to their keys.
LEMMA ReplayFacts ==
  ASSUME ValuesTypeOK, LogHoldsPast, NEW read \in Readings
  PROVE  /\ Replay(read) \in Tables
         /\ \A k \in Keys : Replay(read)[k] \in Values => Replay(read)[k] \in past[k]
<1>1. Len(wal) \in Nat /\ read \subseteq 1 .. Len(wal)
  BY DEF ValuesTypeOK, WALTypeOK, Readings, Whole
<1>2. \A i \in read : wal[i] # TornRec
  BY DEF Readings, Whole
<1>3. ASSUME NEW k \in Keys
      PROVE  /\ Replay(read)[k] \in Contents \cup {Missing}
             /\ Replay(read)[k] \in Values => Replay(read)[k] \in past[k]
  <2> DEFINE of == {i \in read : wal[i].key = k}
  <2>1. CASE of = {}
    BY <2>1, EntriesAssumption DEF Replay, Contents
  <2>2. CASE of # {}
    <3>1. Max(of) \in of
      <4>1. of \in SUBSET (1 .. Len(wal))
        BY <1>1
      <4> QED
        BY <1>1, <2>2, <4>1, LastPosition
    <3>2. Replay(read)[k] = wal[Max(of)].content
      BY <2>2 DEF Replay
    <3>3. PICK i \in 1 .. Len(wal) : i = Max(of) /\ wal[i] # TornRec /\ wal[i].key = k
      BY <1>1, <1>2, <3>1
    <3>4. wal[i] \in Records
      BY <3>3 DEF ValuesTypeOK, WALTypeOK
    <3>5. wal[i].content \in past[k] \cup {Tomb}
      BY <3>3 DEF LogHoldsPast
    <3> HIDE DEF of
    <3> QED
      BY <3>2, <3>3, <3>4, <3>5, EntriesAssumption DEF Records, Contents
  <2> QED
    BY <2>1, <2>2
<1> QED
  BY <1>3 DEF Replay, Tables

\* A log cut by a crash is a log of fewer records.
LEMMA CutFacts ==
  ASSUME WALTypeOK, LogHoldsPast, WALCut, past' = past
  PROVE  WALTypeOK' /\ LogHoldsPast'
<1> USE DEF WALTypeOK
<1>1. PICK n \in 0 .. Len(wal), torn \in {<<>>, <<TornRec>>} :
        wal' = SubSeq(wal, 1, n) \o torn /\ walSynced' = Len(wal') /\ walGood' = TRUE
  BY DEF WALCut
<1>2. SubSeq(wal, 1, n) \in Seq(Records \cup {TornRec}) /\ Len(SubSeq(wal, 1, n)) = n
  OBVIOUS
<1>3. WALTypeOK'
  <2>1. wal' \in Seq(Records \cup {TornRec})
    <3>1. <<>> \in Seq(Records \cup {TornRec}) /\ <<TornRec>> \in Seq(Records \cup {TornRec})
      OBVIOUS
    <3>2. torn \in Seq(Records \cup {TornRec})
      BY <3>1, Zenon
    <3>3. SubSeq(wal, 1, n) \o torn \in Seq(Records \cup {TornRec})
      BY <1>2, <3>2
    <3> QED
      BY <1>1, <3>3
  <2>2. Len(wal') \in Nat
    BY <2>1
  <2> QED
    BY <1>1, <2>1, <2>2
<1>4. ASSUME NEW i \in 1 .. Len(wal') PROVE wal'[i] = TornRec \/ (i \in 1 .. Len(wal) /\ wal'[i] = wal[i])
  BY <1>1, <1>2
<1> QED
  BY <1>3, <1>4 DEF LogHoldsPast

----------------------------------------------------------------------------
(* The cache.                                                              *)

\* What a step that puts no value in memory may do: the cache loses entries, or
\* gains what a search finds; a deletion uncovers no more than before, or what is
\* visible now.
LetsGo ==
  \A k \in Keys :
    /\ cached'[k] \in {cached[k], Missing, Lookup(k)}
    /\ Lookup(k)' \in {Lookup(k), Missing}
    /\ Leftover(k)' \in {Leftover(k), Missing, Visible(k)}

\* Putting a value that a search finds keeps the cache typed and lets go.
LEMMA CachePutFacts ==
  ASSUME ValuesTypeOK, NEW k \in Keys, NEW v \in Values, CachePut(k, v)
  PROVE  /\ cached' \in [Keys -> Values \cup {Missing}]
         /\ \A j \in Keys : cached'[j] \in {cached[j], Missing} \/ (j = k /\ cached'[j] = v)
BY DEF CachePut, ValuesTypeOK

\* A search finds a value or nothing.
LEMMA LookupTyped == ASSUME NEW k PROVE Lookup(k) \in Values \cup {Missing}
BY LookupIs DEF Below

\* Get keeps the invariant, and lets go.
LEMMA GetStep ==
  ASSUME KVInv, NEW k \in Keys, Get(k)
  PROVE  KVInv' /\ LetsGo
<1>1. UNCHANGED <<wal, walSynced, walGood, memtable, immutable, pc, interrupted, past>>
  BY DEF Get, walVars, memVars, ctlVars, callVars
<1>2. pc = "ready" /\ (~interrupted => immutable = Empty)
  BY DEF Get, Open, KVInv, FlushShape, Flushing
<1>3. \A j \in Keys : Lookup(j)' = Lookup(j)
  BY <1>1, LookupIs
<1>4. /\ cached' \in [Keys -> Values \cup {Missing}]
      /\ \A j \in Keys : cached'[j] \in {cached[j], Missing} \/ (j = k /\ cached'[j] = Lookup(k) /\ Lookup(k) \in Values)
  <2>1. CASE CacheHit(k)
    BY <2>1 DEF CacheHit, KVInv, ValuesTypeOK
  <2>2. CASE Lookup(k) # Missing /\ CachePut(k, Lookup(k))
    <3>1. Lookup(k) \in Values
      BY <2>2, LookupTyped
    <3> QED
      BY <2>2, <3>1, CachePutFacts DEF KVInv
  <2> QED
    BY <2>1, <2>2 DEF Get
<1>5. ValuesTypeOK'
  BY <1>1, <1>4 DEF KVInv, ValuesTypeOK, WALTypeOK
<1>6. CacheCoherent'
  <2> SUFFICES ASSUME NEW j \in Keys, cached'[j] # Missing
               PROVE  /\ Lookup(j)' \in {cached'[j], Missing}
                      /\ ~interrupted' => memtable'[j] # Tomb /\ immutable'[j] # Tomb
    BY DEF CacheCoherent
  <2>1. CASE cached'[j] = cached[j]
    BY <1>1, <1>3, <2>1 DEF KVInv, CacheCoherent
  <2>2. CASE cached'[j] = Lookup(j) /\ Lookup(j) \in Values
    <3>1. Lookup(j)' = cached'[j]
      BY <1>3, <2>2
    <3>2. ASSUME ~interrupted PROVE memtable[j] # Tomb /\ immutable[j] # Tomb
      <4>1. immutable[j] = Missing /\ Missing # Tomb /\ Missing \notin Values
        BY <1>2, <3>2, EntriesAssumption DEF Empty, Contents
      <4>2. memtable[j] \in Values
        BY <2>2, <4>1, LookupIs DEF Below
      <4> QED
        BY <4>1, <4>2, EntriesAssumption
    <3> QED
      BY <1>1, <3>1, <3>2
  <2> QED
    BY <1>4, <2>1, <2>2
<1>7. FlushShape'
  BY <1>1, <1>2 DEF FlushShape, KVInv
<1>8. LogHoldsPast'
  BY <1>1 DEF LogHoldsPast, KVInv
<1>9. LetsGo
  BY <1>1, <1>3, <1>4 DEF LetsGo, Leftover
<1> QED
  BY <1>5, <1>6, <1>7, <1>8, <1>9 DEF KVInv

\* So does a step that leaves the cache and the memory below it alone, and only
\* shortens the log.
LEMMA QuietStep ==
  ASSUME KVInv, UNCHANGED <<cached, memtable, immutable, past>>, FlushShape',
         WALTypeOK', LogHoldsPast',
         pc' \in {"down", "ready", "batch", "swap", "close"} \cup Flushing,
         interrupted' = interrupted, pc' \in Flushing <=> pc \in Flushing
  PROVE  KVInv' /\ LetsGo
<1>1. \A j \in Keys : Lookup(j)' = Lookup(j)
  BY LookupIs
<1>2. ValuesTypeOK'
  BY DEF KVInv, ValuesTypeOK
<1>3. CacheCoherent'
  BY <1>1 DEF KVInv, CacheCoherent
<1>4. LetsGo
  BY <1>1 DEF LetsGo, Leftover
<1> QED
  BY <1>2, <1>3, <1>4 DEF KVInv

\* So does the exception that leaves the filter of a table: what was being flushed
\* is left over, and visible.
LEMMA ThrowStep ==
  ASSUME KVInv, FilterThrows, pc' = "ready"
  PROVE  KVInv' /\ LetsGo
<1>1. /\ UNCHANGED <<wal, walSynced, walGood, cached, memtable, immutable, past>>
      /\ pc = "write" /\ interrupted' = TRUE
  BY DEF FilterThrows, LoseMemory, walVars, cacheVars, memVars
<1>2. memtable = Empty /\ \A j \in Keys : Empty[j] \notin Values
  BY <1>1, EntriesAssumption DEF KVInv, FlushShape, Flushing, Empty, Contents
<1>3. \A j \in Keys : Lookup(j)' = Lookup(j)
  BY <1>1, LookupIs
<1>4. ASSUME NEW j \in Keys PROVE Leftover(j)' \in {Missing, Visible(j)}
  <2>1. CASE immutable[j] \in Values
    <3>1. Lookup(j) = immutable[j]
      BY <1>2, <2>1, LookupIs DEF Below
    <3>2. Visible(j) = immutable[j]
      BY <1>1, <2>1, <3>1, EntriesAssumption DEF Visible, KVInv, CacheCoherent, Contents
    <3> QED
      BY <1>1, <3>2 DEF Leftover
  <2>2. CASE immutable[j] \notin Values
    BY <1>1, <2>2 DEF Leftover
  <2> QED
    BY <2>1, <2>2
<1>5. ValuesTypeOK' /\ CacheCoherent' /\ FlushShape' /\ LogHoldsPast'
  BY <1>1, <1>3 DEF KVInv, ValuesTypeOK, WALTypeOK, CacheCoherent, FlushShape, LogHoldsPast, Flushing
<1> QED
  BY <1>1, <1>3, <1>4, <1>5 DEF KVInv, LetsGo

\* A record behind the others keeps the log sound.
LEMMA AppendFacts ==
  ASSUME WALTypeOK, LogHoldsPast, past \in [Keys -> SUBSET Values],
         NEW k \in Keys, NEW c \in Contents, WALAppend(k, c),
         past' = [past EXCEPT ![k] = @ \cup ({c} \cap Values)]
  PROVE  WALTypeOK' /\ LogHoldsPast'
<1>1. /\ [key |-> k, content |-> c] \in Records
      /\ wal' = Append(wal, [key |-> k, content |-> c])
      /\ walSynced' = walSynced /\ walGood' = walGood
      /\ wal \in Seq(Records \cup {TornRec})
  BY DEF WALAppend, Records, WALTypeOK
<1>2. wal' \in Seq(Records \cup {TornRec}) /\ Len(wal') = Len(wal) + 1
  BY <1>1
<1>3. WALTypeOK'
  BY <1>1, <1>2 DEF WALTypeOK
<1>4. ASSUME NEW i \in 1 .. Len(wal'), wal'[i] # TornRec
      PROVE  wal'[i].content \in past'[wal'[i].key] \cup {Tomb}
  <2>1. CASE i = Len(wal) + 1
    <3>1. wal'[i] = [key |-> k, content |-> c]
      BY <1>1, <2>1
    <3>2. wal'[i].key = k /\ wal'[i].content = c
      BY <3>1
    <3> QED
      BY <3>2 DEF Contents
  <2>2. CASE i \in 1 .. Len(wal)
    <3>1. wal'[i] = wal[i] /\ wal[i] \in Records
      BY <1>1, <1>4, <2>2
    <3>2. wal[i].content \in past[wal[i].key] \cup {Tomb} /\ wal[i].key \in Keys
      BY <1>4, <2>2, <3>1 DEF LogHoldsPast, Records
    <3>3. past[wal[i].key] \subseteq past'[wal[i].key]
      BY <3>2
    <3> QED
      BY <3>1, <3>2, <3>3
  <2> QED
    BY <1>1, <1>2, <2>1, <2>2
<1> QED
  BY <1>3, <1>4 DEF LogHoldsPast

\* What Put, Delete and a batch do to one key.
LEMMA ApplyStep ==
  ASSUME KVInv, NEW k \in Keys, NEW c \in Contents, Apply(k, c),
         pc \in {"ready", "batch"}, pc' \in {"ready", "batch", "swap"}, interrupted' = interrupted
  PROVE  /\ KVInv'
         /\ cached'[k] = Missing
         /\ \A j \in Keys : j # k => cached'[j] = cached[j] /\ Lookup(j)' = Lookup(j)
         /\ Lookup(k)' = (IF c \in Values THEN c ELSE Leftover(k))
         /\ \A j \in Keys : Leftover(j)' = Leftover(j)
<1>1. immutable' = immutable /\ (~interrupted => immutable = Empty)
  BY DEF Apply, MemSet, KVInv, FlushShape, Flushing
<1>2. memtable' = [memtable EXCEPT ![k] = c] /\ memtable \in Tables
  BY DEF Apply, MemSet, KVInv, ValuesTypeOK
<1>3. cached' = [cached EXCEPT ![k] = Missing] /\ cached \in [Keys -> Values \cup {Missing}]
  BY DEF Apply, CacheInvalidate, KVInv, ValuesTypeOK
<1>4. past' = [past EXCEPT ![k] = @ \cup ({c} \cap Values)] /\ past \in [Keys -> SUBSET Values]
  BY DEF Apply, KVInv, ValuesTypeOK
<1>5. WALTypeOK' /\ LogHoldsPast'
  BY <1>4, AppendFacts DEF Apply, KVInv, ValuesTypeOK
<1>6. \A j \in Keys : j # k => cached'[j] = cached[j] /\ memtable'[j] = memtable[j]
  BY <1>2, <1>3 DEF Tables
<1>7. cached'[k] = Missing /\ memtable'[k] = c
  BY <1>2, <1>3 DEF Tables
<1>8. \A j \in Keys : j # k => Lookup(j)' = Lookup(j)
  BY <1>1, <1>6, LookupIs DEF Below
<1>9. Lookup(k)' = (IF c \in Values THEN c ELSE Leftover(k))
  BY <1>1, <1>7, LookupIs DEF Below, Leftover, Flushing
<1>10. ValuesTypeOK'
  <2>1. memtable' \in Tables
    BY <1>2 DEF Tables
  <2>2. cached' \in [Keys -> Values \cup {Missing}]
    BY <1>3
  <2>3. past' \in [Keys -> SUBSET Values]
    BY <1>4
  <2>4. immutable' \in Tables
    BY <1>1 DEF KVInv, ValuesTypeOK
  <2> QED
    BY <1>5, <2>1, <2>2, <2>3, <2>4 DEF ValuesTypeOK
<1>11. CacheCoherent'
  BY <1>1, <1>6, <1>7, <1>8 DEF KVInv, CacheCoherent
<1>12. FlushShape'
  BY <1>1 DEF FlushShape, Flushing
<1>13. \A j \in Keys : Leftover(j)' = Leftover(j)
  BY <1>1 DEF Leftover, Flushing
<1> QED
  BY <1>5, <1>6, <1>7, <1>8, <1>9, <1>10, <1>11, <1>12, <1>13 DEF KVInv

\* The memtable moves aside, and a search finds the same or what an interrupted
\* flush has left over no longer.
LEMMA SwapStep ==
  ASSUME KVInv, SwapMemTable
  PROVE  KVInv' /\ LetsGo
<1>1. /\ immutable' = memtable /\ memtable' = Empty /\ pc' = "clear"
      /\ UNCHANGED <<wal, walSynced, walGood, cached, past, interrupted>>
  BY DEF SwapMemTable, walVars, cacheVars, callVars
<1>2. Empty \in Tables /\ \A j \in Keys : Empty[j] = Missing
  BY DEF Empty, Tables
<1>3. Missing \notin Values /\ Missing # Tomb
  BY EntriesAssumption DEF Contents
<1>4. \A j \in Keys : Lookup(j)' = (IF memtable[j] \in Values THEN Lookup(j) ELSE Missing)
  BY <1>1, <1>2, <1>3, LookupIs DEF Below
<1>5. ValuesTypeOK'
  BY <1>1, <1>2 DEF KVInv, ValuesTypeOK, WALTypeOK, Flushing
<1>6. CacheCoherent'
  BY <1>1, <1>2, <1>3, <1>4 DEF KVInv, CacheCoherent
<1>7. FlushShape'
  BY <1>1 DEF FlushShape, Flushing
<1>8. LogHoldsPast'
  BY <1>1 DEF KVInv, LogHoldsPast
<1>9. LetsGo
  BY <1>1, <1>4 DEF LetsGo, Leftover, Flushing
<1> QED
  BY <1>5, <1>6, <1>7, <1>8, <1>9 DEF KVInv

\* After a flush, a search no longer finds what was flushed.
LEMMA FinishStep ==
  ASSUME KVInv, FinishFlush
  PROVE  KVInv' /\ LetsGo
<1>1. /\ immutable' = Empty /\ memtable = Empty /\ pc' \in {"close", "ready"}
      /\ UNCHANGED <<wal, walSynced, walGood, cached, past, memtable, interrupted>>
  BY DEF FinishFlush, walVars, cacheVars, callVars, KVInv, FlushShape, Flushing
<1>2. Empty \in Tables /\ \A j \in Keys : Empty[j] = Missing
  BY DEF Empty, Tables
<1>3. Missing \notin Values /\ Missing # Tomb
  BY EntriesAssumption DEF Contents
<1>4. \A j \in Keys : Lookup(j)' = Missing
  BY <1>1, <1>2, <1>3, LookupIs DEF Below
<1>5. ValuesTypeOK'
  BY <1>1, <1>2 DEF KVInv, ValuesTypeOK, WALTypeOK
<1>6. CacheCoherent'
  BY <1>1, <1>2, <1>3, <1>4 DEF KVInv, CacheCoherent
<1>7. FlushShape'
  BY <1>1 DEF FlushShape, Flushing
<1>8. LogHoldsPast'
  BY <1>1 DEF KVInv, LogHoldsPast
<1>9. LetsGo
  BY <1>1, <1>2, <1>3, <1>4 DEF LetsGo, Leftover
<1> QED
  BY <1>5, <1>6, <1>7, <1>8, <1>9 DEF KVInv

\* A crash or a shutdown leaves a sound log and nothing in memory.
LEMMA LoseStep ==
  ASSUME KVInv, LoseMemory, past' = past, WALTypeOK', LogHoldsPast'
  PROVE  KVInv'
<1>1. memtable' = Empty /\ immutable' = Empty /\ cached' = Empty /\ pc' = "down" /\ ~interrupted'
  BY DEF LoseMemory, CacheClear, Empty
<1>2. Empty \in Tables /\ Empty \in [Keys -> Values \cup {Missing}] /\ \A j \in Keys : Empty[j] = Missing
  BY DEF Empty, Tables
<1>3. ValuesTypeOK'
  BY <1>1, <1>2 DEF KVInv, ValuesTypeOK
<1>4. CacheCoherent'
  BY <1>1, <1>2 DEF CacheCoherent
<1>5. FlushShape'
  BY <1>1 DEF FlushShape, Flushing
<1> QED
  BY <1>3, <1>4, <1>5 DEF KVInv

\* Recovery from the log.
LEMMA RestartStep ==
  ASSUME KVInv, Restart
  PROVE  /\ KVInv'
         /\ cached = Empty /\ cached' = Empty
         /\ \A k \in Keys : Lookup(k)' \in past[k] \cup {Missing}
<1>1. PICK read \in Readings : memtable' = Replay(read)
  BY DEF Restart
<1>2. /\ pc = "down" /\ pc' = "ready" /\ cached = Empty /\ immutable = Empty
      /\ UNCHANGED <<wal, walSynced, walGood, cached, past, immutable, interrupted>>
      /\ ~interrupted
  BY DEF Restart, walVars, cacheVars, callVars, KVInv, FlushShape, Flushing
<1>3. memtable' \in Tables /\ \A k \in Keys : memtable'[k] \in Values => memtable'[k] \in past[k]
  BY <1>1, ReplayFacts DEF KVInv
<1>4. \A j \in Keys : Empty[j] = Missing /\ Empty[j] \notin Values
  BY EntriesAssumption DEF Empty, Contents
<1>5. \A k \in Keys : Lookup(k)' \in past[k] \cup {Missing}
  BY <1>2, <1>3, <1>4, LookupIs DEF Below
<1>6. ValuesTypeOK'
  BY <1>2, <1>3 DEF KVInv, ValuesTypeOK, WALTypeOK
<1>7. CacheCoherent'
  BY <1>2, <1>4 DEF CacheCoherent
<1>8. FlushShape'
  BY <1>2 DEF FlushShape, Flushing
<1>9. LogHoldsPast'
  BY <1>2 DEF KVInv, LogHoldsPast
<1> QED
  BY <1>2, <1>5, <1>6, <1>7, <1>8, <1>9 DEF KVInv

----------------------------------------------------------------------------
(* The steps of the map.                                                   *)

\* A step of an open store that lets go of entries is a step of the map that
\* forgets them.
LEMMA ForgetsStep ==
  ASSUME CacheCoherent, LetsGo, past' = past, writes' = writes, pc # "down", pc' # "down"
  PROVE  Map!Next
<1> DEFINE keys == {k \in Keys : Visible(k)' = Missing}
<1>1. ASSUME NEW k \in Keys PROVE Visible(k)' \in {Visible(k), Missing}
  <2>1. cached'[k] \in {cached[k], Missing, Lookup(k)} /\ Lookup(k)' \in {Lookup(k), Missing}
    BY DEF LetsGo
  <2>2. Visible(k) = IF cached[k] # Missing THEN cached[k] ELSE Lookup(k)
    BY DEF Visible
  <2>3. Visible(k)' = IF cached'[k] # Missing THEN cached'[k] ELSE Lookup(k)'
    BY DEF Visible
  <2>4. cached[k] # Missing => Lookup(k) \in {cached[k], Missing}
    BY DEF CacheCoherent
  <2> QED
    BY <2>1, <2>2, <2>3, <2>4
<1>2. [k \in Keys |-> Visible(k)]' = [k \in Keys |-> IF k \in keys THEN Missing ELSE Visible(k)]
  BY <1>1
<1>3. /\ [k \in Keys |-> Leftover(k)]' \in [Keys -> Values \cup {Missing}]
      /\ \A k \in Keys : Leftover(k)' \in {Missing, Leftover(k), Visible(k)}
  BY DEF Leftover, LetsGo
<1>4. Map!Forget(keys)
  BY <1>2, <1>3 DEF Map!Forget
<1>5. keys \in SUBSET Keys
  OBVIOUS
<1> QED
  BY <1>4, <1>5 DEF Map!Next

\* Put, and an entry of a batch, write to the map.
LEMMA WritesStep ==
  ASSUME KVInv, NEW k \in Keys, NEW v \in Values, Apply(k, v),
         pc \in {"ready", "batch"}, pc' \in {"ready", "batch", "swap"}, interrupted' = interrupted
  PROVE  KVInv' /\ Map!Next
<1>1. v \in Contents /\ {v} \cap Values = {v}
  BY DEF Contents
<1>2. /\ KVInv'
      /\ cached'[k] = Missing /\ Lookup(k)' = v
      /\ \A j \in Keys : j # k => cached'[j] = cached[j] /\ Lookup(j)' = Lookup(j)
      /\ \A j \in Keys : Leftover(j)' = Leftover(j)
  BY <1>1, ApplyStep
<1>3. Visible(k)' = v /\ \A j \in Keys : j # k => Visible(j)' = Visible(j)
  BY <1>2 DEF Visible
<1>4. [j \in Keys |-> Visible(j)]' = [[j \in Keys |-> Visible(j)] EXCEPT ![k] = v]
  BY <1>3
<1>5. past' = [past EXCEPT ![k] = @ \cup {v}]
  BY <1>1 DEF Apply
<1>6. writes' = writes + 1
  BY DEF Apply
<1>7. Map!Write(k, v)
  BY <1>2, <1>4, <1>5, <1>6 DEF Map!Write
<1> QED
  BY <1>2, <1>7 DEF Map!Next

\* Delete uncovers what an interrupted flush has left under the key, or nothing.
LEMMA DeletesStep ==
  ASSUME KVInv, NEW k \in Keys, Apply(k, Tomb), pc = "ready", pc' = "ready",
         interrupted' = interrupted
  PROVE  KVInv' /\ Map!Next
<1>1. Tomb \in Contents /\ Tomb \notin Values
  BY EntriesAssumption DEF Contents
<1>2. /\ KVInv'
      /\ cached'[k] = Missing /\ Lookup(k)' = Leftover(k)
      /\ \A j \in Keys : j # k => cached'[j] = cached[j] /\ Lookup(j)' = Lookup(j)
      /\ \A j \in Keys : Leftover(j)' = Leftover(j)
  BY <1>1, ApplyStep
<1>3. past' = past
  <2>1. past \in [Keys -> SUBSET Values]
    BY DEF KVInv, ValuesTypeOK
  <2>2. past' = [past EXCEPT ![k] = @ \cup ({Tomb} \cap Values)]
    BY DEF Apply
  <2>3. {Tomb} \cap Values = {}
    BY <1>1
  <2> QED
    BY <2>1, <2>2, <2>3
<1>4. [j \in Keys |-> Visible(j)]' = [[j \in Keys |-> Visible(j)] EXCEPT ![k] = Leftover(k)]
  BY <1>2 DEF Visible
<1>5. writes' = writes + 1
  BY DEF Apply
<1>6. Map!Delete(k)
  BY <1>2, <1>3, <1>4, <1>5 DEF Map!Delete
<1> QED
  BY <1>2, <1>6 DEF Map!Next

\* A crash or a shutdown stops the map.
LEMMA StopsStep ==
  ASSUME LoseMemory, pc # "down", past' = past, writes' = writes
  PROVE  Map!Next
<1>1. pc' = "down"
  BY DEF LoseMemory
<1>2. [k \in Keys |-> Visible(k)]' = [k \in Keys |-> Missing]
  BY <1>1 DEF Visible
<1>3. [k \in Keys |-> Leftover(k)]' = [k \in Keys |-> Missing]
  BY EntriesAssumption DEF LoseMemory, Leftover, Empty, Contents
<1>4. Map!Stop
  BY <1>1, <1>2, <1>3 DEF Map!Stop, Map!Nothing
<1> QED
  BY <1>4 DEF Map!Next

\* Opening the store again opens the map again.
LEMMA OpensStep ==
  ASSUME KVInv, Restart
  PROVE  Map!Next
<1>1. /\ cached' = Empty
      /\ \A k \in Keys : Lookup(k)' \in past[k] \cup {Missing}
  BY RestartStep
<1>2. pc = "down" /\ pc' = "ready" /\ past' = past /\ writes' = writes
  BY DEF Restart, boundVars
<1>3. \A k \in Keys : Visible(k)' \in past[k] \cup {Missing}
  BY <1>1, <1>2 DEF Visible, Empty
<1>4. past \in [Keys -> SUBSET Values]
  BY DEF KVInv, ValuesTypeOK
<1>5. [k \in Keys |-> Visible(k)]' \in [Keys -> Values \cup {Missing}]
  BY <1>3, <1>4
<1>6. \A k \in Keys : Leftover(k)' = Leftover(k)
  BY <1>2 DEF Restart, Leftover, Flushing
<1>7. Map!Restart
  BY <1>2, <1>3, <1>5, <1>6 DEF Map!Restart
<1> QED
  BY <1>7 DEF Map!Next

----------------------------------------------------------------------------
(* All steps.                                                              *)

\* Every step keeps the invariant, and is a step of the map or leaves it as it is.
LEMMA EveryStep ==
  ASSUME KVInv, [Next]_vars
  PROVE  KVInv' /\ [Map!Next]_(Map!mapVars)
<1> USE DEF KVInv
<1>1. ASSUME NEW k \in Keys, Get(k) PROVE KVInv' /\ Map!Next
  <2>1. pc = "ready" /\ pc' = "ready" /\ past' = past /\ writes' = writes
    BY <1>1 DEF Get, Open, ctlVars, boundVars
  <2> QED
    BY <1>1, <2>1, GetStep, ForgetsStep
<1>2. ASSUME NEW k \in Keys, Delete(k) PROVE KVInv' /\ Map!Next
  BY <1>2, DeletesStep DEF Delete, Open, ctlVars, callVars
<1>3. ASSUME NEW k \in Keys, NEW v \in Values, Put(k, v) PROVE KVInv' /\ Map!Next
  BY <1>3, WritesStep DEF Put, Open, FlushIfFull, callVars
<1>4. ASSUME NEW k \in Keys, NEW v \in Values, BatchPut(k, v) PROVE KVInv' /\ Map!Next
  BY <1>4, WritesStep DEF BatchPut, FlushIfFull
<1>5. ASSUME \/ \E n \in 0 .. MaxBatch : PutBatch(n)
             \/ Flush \/ CreateTable \/ CreateFails \/ WriteTable \/ Close
      PROVE  KVInv' /\ Map!Next
  <2>1. /\ UNCHANGED <<wal, walSynced, walGood, cached, memtable, immutable, past, writes, interrupted>>
        /\ pc # "down" /\ pc' \in {"ready", "batch", "swap", "write", "finish", "close"}
        /\ pc' \in {"write", "finish"} <=> pc \in {"create", "write"}
        /\ pc \in {"ready", "create", "write"}
    BY <1>5 DEF PutBatch, FlushIfFull, Flush, CreateTable, CreateFails, WriteTable, Close, Open,
                walVars, cacheVars, memVars, callVars, boundVars
  <2>2. WALTypeOK' /\ LogHoldsPast'
    BY <2>1 DEF ValuesTypeOK, WALTypeOK, LogHoldsPast
  <2>3. FlushShape'
    BY <2>1 DEF FlushShape, Flushing
  <2>4. KVInv' /\ LetsGo
    BY <2>1, <2>2, <2>3, QuietStep DEF Flushing
  <2> QED
    BY <2>1, <2>4, ForgetsStep
<1>6. ASSUME WriteFails PROVE KVInv' /\ Map!Next
  <2>1. /\ UNCHANGED <<walSynced, cached, memtable, immutable, past, writes, interrupted>>
        /\ pc \in {"ready", "batch"} /\ pc' = "ready"
        /\ wal' \in {wal, Append(wal, TornRec)} /\ walGood' \in BOOLEAN
    BY <1>6 DEF WriteFails, WALAppendRefused, WALAppendBreaks, Open, walVars, cacheVars,
                memVars, ValuesTypeOK, WALTypeOK
  <2>2. WALTypeOK' /\ LogHoldsPast'
    <3>1. CASE wal' = wal
      BY <2>1, <3>1 DEF ValuesTypeOK, WALTypeOK, LogHoldsPast
    <3>2. CASE wal' = Append(wal, TornRec)
      <4>1. wal \in Seq(Records \cup {TornRec}) /\ walSynced \in 0 .. Len(wal)
        BY DEF ValuesTypeOK, WALTypeOK
      <4>2. wal' \in Seq(Records \cup {TornRec}) /\ Len(wal') = Len(wal) + 1
        BY <3>2, <4>1
      <4>3. \A i \in 1 .. Len(wal') : wal'[i] = TornRec \/ (i \in 1 .. Len(wal) /\ wal'[i] = wal[i])
        BY <3>2, <4>1
      <4> QED
        BY <2>1, <4>1, <4>2, <4>3 DEF WALTypeOK, LogHoldsPast
    <3> QED
      BY <2>1, <3>1, <3>2
  <2>3. FlushShape'
    BY <2>1 DEF FlushShape, Flushing
  <2>4. KVInv' /\ LetsGo
    BY <2>1, <2>2, <2>3, QuietStep DEF Flushing
  <2> QED
    BY <2>1, <2>4, ForgetsStep
<1>7. ASSUME SwapMemTable PROVE KVInv' /\ Map!Next
  BY <1>7, SwapStep, ForgetsStep DEF SwapMemTable, boundVars
<1>8. ASSUME ClearLog PROVE KVInv' /\ Map!Next
  <2>1. /\ UNCHANGED <<cached, memtable, immutable, past, writes, interrupted>>
        /\ pc = "clear" /\ pc' = "create"
        /\ wal' = <<>> /\ walSynced' = 0 /\ walGood' = TRUE
    BY <1>8 DEF ClearLog, WALClear, cacheVars, memVars, callVars, boundVars
  <2>2. WALTypeOK' /\ LogHoldsPast'
    BY <2>1 DEF WALTypeOK, LogHoldsPast
  <2>3. FlushShape'
    BY <2>1 DEF FlushShape, Flushing
  <2>4. KVInv' /\ LetsGo
    BY <2>1, <2>2, <2>3, QuietStep DEF Flushing
  <2> QED
    BY <2>1, <2>4, ForgetsStep
<1>9. ASSUME FinishFlush PROVE KVInv' /\ Map!Next
  BY <1>9, FinishStep, ForgetsStep DEF FinishFlush, boundVars
<1>10. ASSUME CloseLog \/ Crash \/ (FilterThrows /\ pc' = "down") PROVE KVInv' /\ Map!Next
  <2>1. LoseMemory /\ pc # "down" /\ past' = past /\ writes' = writes
    BY <1>10 DEF CloseLog, Crash, FilterThrows, boundVars
  <2>2. WALTypeOK' /\ LogHoldsPast'
    <3>1. CASE WALCut
      BY <2>1, <3>1, CutFacts DEF ValuesTypeOK
    <3>2. CASE walSynced' = Len(wal) /\ UNCHANGED <<wal, walGood>>
      <4>1. Len(wal) \in Nat
        BY DEF ValuesTypeOK, WALTypeOK
      <4> QED
        BY <2>1, <3>2, <4>1 DEF ValuesTypeOK, WALTypeOK, LogHoldsPast
    <3> QED
      BY <1>10, <3>1, <3>2 DEF CloseLog, Crash, FilterThrows, WALClose
  <2> QED
    BY <2>1, <2>2, LoseStep, StopsStep
<1>11. ASSUME Restart PROVE KVInv' /\ Map!Next
  BY <1>11, RestartStep, OpensStep
<1>12. ASSUME UNCHANGED vars PROVE KVInv' /\ UNCHANGED Map!mapVars
  <2>1. UNCHANGED <<wal, walSynced, walGood, cached, memtable, immutable, past, pc, writes, interrupted>>
    BY <1>12 DEF vars, walVars, cacheVars, memVars, ctlVars, callVars, boundVars
  <2>2. WALTypeOK' /\ LogHoldsPast'
    BY <2>1 DEF ValuesTypeOK, WALTypeOK, LogHoldsPast
  <2>3. FlushShape'
    BY <2>1 DEF FlushShape
  <2>4. KVInv'
    BY <2>1, <2>2, <2>3, QuietStep DEF ValuesTypeOK
  <2>5. \A k \in Keys : Visible(k)' = Visible(k) /\ Leftover(k)' = Leftover(k)
    BY <2>1, LookupIs DEF Visible, Leftover
  <2> QED
    BY <2>1, <2>4, <2>5 DEF Map!mapVars
<1>13. ASSUME FilterThrows, pc' = "ready" PROVE KVInv' /\ Map!Next
  BY <1>13, ThrowStep, ForgetsStep DEF FilterThrows
<1>14. FilterThrows => pc' \in {"ready", "down"}
  BY DEF FilterThrows, LoseMemory
<1> QED
  BY <1>1, <1>2, <1>3, <1>4, <1>5, <1>6, <1>7, <1>8, <1>9, <1>10, <1>11, <1>12, <1>13, <1>14 DEF Next

----------------------------------------------------------------------------
(* The theorems.                                                           *)

\* The inductive invariant holds: values are where they belong, the cache is
\* coherent, a flush keeps its shape and the log holds only what was written.
THEOREM StoreInvariance == Spec => []KVInv
<1>1. Init => KVInv
  <2> SUFFICES ASSUME Init PROVE KVInv
    OBVIOUS
  <2>1. /\ wal = <<>> /\ walSynced = 0 /\ walGood = TRUE
        /\ cached = Empty /\ memtable = Empty /\ immutable = Empty
        /\ past = [k \in Keys |-> {}] /\ pc = "ready" /\ interrupted = FALSE
    BY DEF Init, WALInit, CacheInit, Empty
  <2>2. Empty \in Tables /\ Empty \in [Keys -> Values \cup {Missing}] /\ \A k \in Keys : Empty[k] = Missing
    BY DEF Empty, Tables
  <2>3. ValuesTypeOK /\ LogHoldsPast
    BY <2>1, <2>2 DEF ValuesTypeOK, WALTypeOK, LogHoldsPast
  <2> QED
    BY <2>1, <2>2, <2>3 DEF KVInv, CacheCoherent, FlushShape, Flushing
<1>2. KVInv /\ [Next]_vars => KVInv'
  BY EveryStep
<1> QED
  BY <1>1, <1>2, PTL DEF Spec

\* A cached value is what a search below the cache would find, unless nothing is
\* found there any more; of a deleted key one is cached only once an exception has
\* left a flush since the store was opened.  For any keys, values, cache size,
\* batches, flushes, crashes and recoveries.
THEOREM CacheAlwaysCoherent == Spec => []CacheCoherent
<1>1. KVInv => CacheCoherent
  BY DEF KVInv
<1> QED
  BY <1>1, StoreInvariance, PTL

\* The store implements the forgetful map.
THEOREM ImplementsMap == Spec => MapSpec
<1>1. Init => Map!Init
  <2> SUFFICES ASSUME Init PROVE Map!Init
    OBVIOUS
  <2>1. cached = Empty /\ memtable = Empty /\ immutable = Empty /\ pc = "ready"
    BY DEF Init, CacheInit, Empty
  <2>2. \A k \in Keys : Visible(k) = Missing /\ Leftover(k) = Missing
    BY <2>1, LookupIs, EntriesAssumption DEF Visible, Leftover, Below, Empty, Contents
  <2> QED
    BY <2>1, <2>2 DEF Init, Map!Init, Map!Nothing
<1>2. KVInv /\ [Next]_vars => [Map!Next]_(Map!mapVars)
  BY EveryStep
<1> QED
  BY <1>1, <1>2, StoreInvariance, PTL DEF Spec, MapSpec, Map!Spec

----------------------------------------------------------------------------
(* The cache.                                                              *)

\* A step of the store is a step of its cache, or leaves the cache alone.
LEMMA CacheSteps ==
  ASSUME KVInv, [Next]_vars
  PROVE  [CacheNext]_cacheVars
<1>1. CASE UNCHANGED vars
  BY <1>1 DEF vars
<1>2. ASSUME NEW k \in Keys, Get(k)
      PROVE  CacheNext
  <2>1. CASE CacheHit(k)
    BY <2>1 DEF CacheNext
  <2>2. CASE Lookup(k) # Missing /\ CachePut(k, Lookup(k))
    <3>1. Lookup(k) \in Values
      BY <2>2, LookupTyped
    <3> QED
      BY <2>2, <3>1 DEF CacheNext
  <2> QED
    BY <1>2, <2>1, <2>2 DEF Get
<1>3. ASSUME NEW k \in Keys, NEW c, Apply(k, c)
      PROVE  CacheNext
  BY <1>3 DEF Apply, CacheNext
<1>4. CASE LoseMemory
  BY <1>4 DEF LoseMemory, CacheNext
<1>5. CASE UNCHANGED cacheVars
  BY <1>5
<1>6. CASE Next
  <2>1. ASSUME NEW k \in Keys, Get(k) \/ Delete(k)
        PROVE  CacheNext
    BY <1>2, <1>3, <2>1 DEF Delete
  <2>2. ASSUME NEW k \in Keys, NEW v \in Values, Put(k, v) \/ BatchPut(k, v)
        PROVE  CacheNext
    BY <1>3, <2>2 DEF Put, BatchPut
  <2>3. CASE CloseLog \/ Crash
    BY <1>4, <2>3 DEF CloseLog, Crash
  <2>4. CASE FilterThrows
    BY <1>4, <1>5, <2>4 DEF FilterThrows
  <2>5. CASE \/ \E n \in 0 .. MaxBatch : PutBatch(n)
             \/ WriteFails \/ Flush \/ SwapMemTable \/ ClearLog \/ CreateTable \/ CreateFails
             \/ WriteTable \/ FinishFlush \/ Close \/ Restart
    BY <2>5 DEF PutBatch, WriteFails, Flush, SwapMemTable, ClearLog, CreateTable, CreateFails,
                WriteTable, FinishFlush, Close, Restart
  <2> QED
    BY <1>4, <1>6, <2>1, <2>2, <2>3, <2>4, <2>5 DEF Next
<1> QED
  BY <1>1, <1>6

\* The store uses its cache as the cache is meant to be used, with values only;
\* so what holds of the cache on its own holds of it in the store, through
\* writes, batches, flushes, crashes and restarts.
THEOREM StoreRunsCache == Spec => CacheSpec
<1>1. Init => CacheInit
  BY DEF Init
<1> QED
  BY <1>1, CacheSteps, StoreInvariance, PTL DEF Spec, CacheSpec

\* In the store too, list, map and byte count of the cache agree, and its
\* capacity is kept.
THEOREM StoreCacheConsistent == Spec => [](CacheTypeOK /\ CacheConsistent /\ CacheBounded)
BY StoreRunsCache, CacheTypes, CacheAlwaysConsistent, CacheAlwaysBounded, PTL
=============================================================================
