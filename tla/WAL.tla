-------------------------------- MODULE WAL --------------------------------
(***************************************************************************)
(* The write-ahead log of the key-value store (kvstore/src/wal.cpp).       *)
(*                                                                         *)
(* Append() writes a record into the buffer of an ofstream; nothing calls  *)
(* Sync() before the log is destroyed, so the stream alone decides when    *)
(* bytes reach the file, and a crash cuts the log anywhere after what was  *)
(* in the file when it was opened: between records, or inside one, which   *)
(* leaves a torn record.  Which cut it is does not show before the crash,  *)
(* so the model chooses it then.                                           *)
(*                                                                         *)
(* ReadAll() reads records one after the other.  Past a torn record it     *)
(* takes bytes of the following records for lengths and contents; it may   *)
(* fall back into step at any later record, or never.  It is assumed that  *)
(* no misread record happens to have the right checksum.                   *)
(***************************************************************************)
EXTENDS Entries, Integers, Sequences, FiniteSetsExt

CONSTANT TornRec   \* a record that is not wholly there

\* A DELETE record has the content Tomb.
Records == [key : Keys, content : Contents]

ASSUME WALAssumption == TornRec \notin Records

VARIABLES
  wal,        \* the records since the last Clear(): file, then buffer
  walSynced,  \* how many of them are certainly in the file
  walGood     \* file_.good()

walVars == <<wal, walSynced, walGood>>

WALInit == wal = <<>> /\ walSynced = 0 /\ walGood = TRUE

WALTypeOK ==
  /\ wal \in Seq(Records \cup {TornRec})
  /\ walSynced \in 0 .. Len(wal)
  /\ walGood \in BOOLEAN

\* Append() returns true.
WALAppend(k, c) ==
  /\ walGood
  /\ wal' = Append(wal, [key |-> k, content |-> c])
  /\ UNCHANGED <<walSynced, walGood>>

\* A write fails inside Append(): the stream goes bad, and none or a part of
\* the record is behind the others.
WALAppendBreaks ==
  /\ walGood
  /\ walGood' = FALSE
  /\ wal' \in {wal, Append(wal, TornRec)}
  /\ UNCHANGED walSynced

\* The stream is bad already: Append() writes nothing and returns false.
WALAppendRefused == ~walGood /\ UNCHANGED walVars

\* Clear(): close, and open again with trunc.
WALClear == wal' = <<>> /\ walSynced' = 0 /\ walGood' = TRUE

\* What a crash leaves in the file.
WALCut ==
  /\ \E n \in walSynced .. Len(wal) :
       \E torn \in {<<>>} \cup (IF n < Len(wal) THEN {<<TornRec>>} ELSE {}) :
         /\ wal' = SubSeq(wal, 1, n) \o torn
         /\ walSynced' = Len(wal')
  /\ walGood' = TRUE

\* The destructor: Sync() and close(), which a bad stream cuts short.
WALClose ==
  IF walGood THEN walSynced' = Len(wal) /\ UNCHANGED <<wal, walGood>> ELSE WALCut

\* The positions of the records that ReadRecord() can read.
Whole == {i \in 1 .. Len(wal) : wal[i] # TornRec}

\* The sets of positions that ReadAll() may return: every record up to the first
\* torn one, and after each torn one the records from some position on.
Readings ==
  {read \in SUBSET Whole :
     \A i \in Whole :
       /\ (\A j \in 1 .. i : wal[j] # TornRec) => i \in read
       /\ i - 1 \in read => i \in read}

\* RecoverFromWAL(): the records read, applied in order to an empty memtable.
Replay(read) ==
  [k \in Keys |->
     LET of == {i \in read : wal[i].key = k}
     IN IF of = {} THEN Missing ELSE wal[Max(of)].content]
=============================================================================
