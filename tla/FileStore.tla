----------------------------- MODULE FileStore -----------------------------
(***************************************************************************)
(* The file-based key-value store of log-processor/src/kvstore_client.py:  *)
(* one JSON file per key in a directory that the log processor writes and  *)
(* the dashboard reads, from different containers, with no lock between    *)
(* them.  put() is open(..., 'w'), which truncates, then json.dump, so a   *)
(* reader or a crash can fall between the two.  scan() lists the directory *)
(* once and then opens the listed files one after the other.               *)
(*                                                                         *)
(* A file is named by its kind (the "log:" or "anomaly:" prefix of its     *)
(* key) and by the rest of the key after put() has replaced '/' and ':' by *)
(* '_'.  The rest is a natural number: its rank in the lexicographic order *)
(* that scan() sorts by.  Two keys that sanitise to the same name have the *)
(* same rank.                                                              *)
(***************************************************************************)
EXTENDS Naturals, FiniteSets

CONSTANTS
  Keys,      \* ranks of the sanitised "<service>_<timestamp>" file names
  Msgs,      \* the values stored: one per log message
  NoFile,    \* the file does not exist
  Torn,      \* the file is truncated: empty or an incomplete JSON text
  Readers,   \* callers of scan(): the API end points of the dashboard
  Prefix,    \* Prefix[r]: the kind of key that reader r asks for
  Limit      \* Limit[r]: the limit that reader r passes to scan()

Kinds == {"anomaly", "log"}
Names == Kinds \X Keys

ASSUME KeysAssumption == Keys \subseteq Nat
ASSUME MarkersAssumption == NoFile \notin Msgs /\ Torn \notin Msgs /\ NoFile # Torn
ASSUME ReadersAssumption ==
  /\ Prefix \in [Readers -> Kinds]
  /\ Limit \in [Readers -> Nat]

VARIABLES
  files,     \* the directory: what each file holds
  scanning,  \* the readers inside scan()
  todo,      \* todo[r]: names listed by scan() and not read yet
  got,       \* got[r]: the results list of the scan under way
  shown      \* shown[r]: what r's last scan to end returned

readerVars == <<scanning, todo, got, shown>>

StoreInit ==
  /\ files = [n \in Names |-> NoFile]
  /\ scanning = {}
  /\ todo = [r \in Readers |-> {}]
  /\ got = [r \in Readers |-> {}]
  /\ shown = [r \in Readers |-> {}]

StoreTypeOK ==
  /\ files \in [Names -> Msgs \cup {NoFile, Torn}]
  /\ scanning \subseteq Readers
  /\ todo \in [Readers -> SUBSET Names]
  /\ got \in [Readers -> SUBSET Msgs]
  /\ shown \in [Readers -> SUBSET Msgs]

----------------------------------------------------------------------------
(* put(): open(file_path, 'w') leaves an empty file; json.dump and close   *)
(* complete it.                                                            *)

PutOpen(n) == files' = [files EXCEPT ![n] = Torn]
PutWrite(n, v) == files' = [files EXCEPT ![n] = v]

----------------------------------------------------------------------------
(* scan(): the readers.                                                    *)

Existing == {n \in Names : files[n] # NoFile}

\* sorted() of the file names: "anomaly_..." sorts before "log_...".
NameLess(a, b) ==
  \/ a[1] = "anomaly" /\ b[1] = "log"
  \/ a[1] = b[1] /\ a[2] < b[2]


\* sorted(glob('*.json'))[:limit] is cut before any key is looked at.
Listing(limit) ==
  {n \in Existing : Cardinality({m \in Existing : NameLess(m, n)}) < limit}

\* The call lists the directory; the files are opened later.
ScanStart(r) ==
  /\ r \notin scanning
  /\ scanning' = scanning \cup {r}
  /\ todo' = [todo EXCEPT ![r] = Listing(Limit[r])]
  /\ got' = [got EXCEPT ![r] = {}]
  /\ UNCHANGED <<files, shown>>

\* The listed file that the loop reaches next.
NextName(r, n) ==
  n \in todo[r] /\ \A m \in todo[r] \ {n} : NameLess(n, m)

\* Mutant of ScanRead: the results list is started again with every file.
ScanReadLast(r) ==
  /\ r \in scanning
  /\ \E n \in todo[r] :
       /\ NextName(r, n)
       /\ files[n] \in Msgs
       /\ todo' = [todo EXCEPT ![r] = @ \ {n}]
       /\ got' = [got EXCEPT ![r] = IF n[1] = Prefix[r] THEN {files[n]} ELSE {}]
  /\ UNCHANGED <<files, scanning, shown>>

\* A complete file is parsed, and kept if its key is in the range asked for.
ScanRead(r) ==
  /\ r \in scanning
  /\ \E n \in todo[r] :
       /\ NextName(r, n)
       /\ files[n] \in Msgs
       /\ todo' = [todo EXCEPT ![r] = @ \ {n}]
       /\ got' = [got EXCEPT ![r] = IF n[1] = Prefix[r] THEN @ \cup {files[n]} ELSE @]
  /\ UNCHANGED <<files, scanning, shown>>

\* A truncated file makes json.load raise; the handler around the whole loop
\* then returns the empty list.
ScanAbort(r) ==
  /\ r \in scanning
  /\ \E n \in todo[r] : NextName(r, n) /\ files[n] = Torn
  /\ scanning' = scanning \ {r}
  /\ shown' = [shown EXCEPT ![r] = {}]
  /\ UNCHANGED <<files, todo, got>>

ScanReturn(r) ==
  /\ r \in scanning
  /\ todo[r] = {}
  /\ scanning' = scanning \ {r}
  /\ shown' = [shown EXCEPT ![r] = got[r]]
  /\ UNCHANGED <<files, todo, got>>

ScanStep(r) == ScanRead(r) \/ ScanAbort(r) \/ ScanReturn(r)
=============================================================================
