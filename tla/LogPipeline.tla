---------------------------- MODULE LogPipeline ----------------------------
(***************************************************************************)
(* From the RabbitMQ queue "logs" to the files that the dashboard shows:   *)
(* log-processor/src/processor.py over the store of module FileStore.      *)
(*                                                                         *)
(* A processor takes one message at a time (prefetch_count 1), parses it,  *)
(* puts a "log" file and, for an anomaly, an "anomaly" file, and only then *)
(* acknowledges.  The connection can be lost, the broker then gives the    *)
(* message to somebody else, and a callback that is under way goes on      *)
(* without knowing; a put can fail at either of its two steps; a processor *)
(* can crash between any two steps, and Docker restarts it.                *)
(*                                                                         *)
(* The broker is external: what is said of it is what processor.py uses    *)
(* (a durable queue, manual acknowledgement, requeueing of what a lost     *)
(* connection held).  The order of the queue is left out: a requeued       *)
(* message may be delivered before or after any other one.                 *)
(***************************************************************************)
EXTENDS FileStore

CONSTANTS
  Processors,   \* the processes that run processor.py
  KeysOf,       \* KeysOf[m]: the file names m may be given: one if the message
                \* has a timestamp, any if datetime.now() is used in its place
  Malformed,    \* messages that decoding or parsing raises on
  Anomalous,    \* messages that the detector flags
  None,
  MaxRetries,   \* max_retries of start()
  MaxDrops, MaxCrashes, MaxIOFaults  \* bounds on the faults of one behaviour

ASSUME MessagesAssumption ==
  /\ KeysOf \in [Msgs -> SUBSET Keys]
  /\ \A m \in Msgs : KeysOf[m] # {}
  /\ Malformed \subseteq Msgs
  /\ Anomalous \subseteq Msgs
  /\ None \notin Msgs
ASSUME BoundsAssumption ==
  /\ MaxRetries \in Nat \ {0}
  /\ MaxDrops \in Nat
  /\ MaxCrashes \in Nat
  /\ MaxIOFaults \in Nat

VARIABLES
  queue,      \* messages that wait in the broker
  unacked,    \* unacked[p]: the message the broker has given p, or None
  conn,       \* conn[p]: p's connection to the broker is up
  pc,         \* where p is
  cur,        \* cur[p]: the message in the callback of p
  key,        \* key[p]: the file name chosen for it
  kind,       \* kind[p]: the kind of the put under way
  stored,     \* stored[p]: the kinds whose put returned True in this callback
  attempt,    \* attempt[p]: the loop variable of start()
  drops, crashes, ioFaults,  \* faults so far
  published,  \* history: the messages accepted by the broker
  rejected,   \* history: the messages nacked without requeueing
  abandoned   \* history: <<kind, message>> acked although its put returned False

brokerVars == <<queue, unacked, conn>>
procVars == <<pc, cur, key, kind, stored, attempt>>
faultVars == <<drops, crashes, ioFaults>>
histVars == <<published, rejected, abandoned>>
vars == <<brokerVars, procVars, faultVars, histVars, files, readerVars>>

Busy(p) == pc[p] \in {"parse", "open", "write", "ack"}

\* The files that a message should leave behind.
Wanted(m) == {"log"} \cup (IF m \in Anomalous THEN {"anomaly"} ELSE {})

Init ==
  /\ queue = {}
  /\ unacked = [p \in Processors |-> None]
  /\ conn = [p \in Processors |-> FALSE]
  /\ pc = [p \in Processors |-> "connecting"]
  /\ cur = [p \in Processors |-> None]
  /\ key = [p \in Processors |-> None]
  /\ kind = [p \in Processors |-> "log"]
  /\ stored = [p \in Processors |-> {}]
  /\ attempt = [p \in Processors |-> 0]
  /\ drops = 0 /\ crashes = 0 /\ ioFaults = 0
  /\ published = {} /\ rejected = {} /\ abandoned = {}
  /\ StoreInit

----------------------------------------------------------------------------
(* The broker.                                                             *)

\* A producer's basic_publish of a persistent message to the durable queue.
Publish(m) ==
  /\ m \notin published
  /\ published' = published \cup {m}
  /\ queue' = queue \cup {m}
  /\ UNCHANGED <<unacked, conn, procVars, faultVars, rejected, abandoned, files, readerVars>>

\* The end of a connection: what it held unacknowledged is ready again.
Disconnect(p) ==
  /\ conn' = [conn EXCEPT ![p] = FALSE]
  /\ queue' = queue \cup ({unacked[p]} \ {None})
  /\ unacked' = [unacked EXCEPT ![p] = None]

\* The processor does not notice before it next uses the connection.
ConnectionLost(p) ==
  /\ conn[p]
  /\ drops < MaxDrops
  /\ drops' = drops + 1
  /\ Disconnect(p)
  /\ UNCHANGED <<procVars, crashes, ioFaults, histVars, files, readerVars>>

\* Mutant of Deliver: the results of the last callback are not forgotten.
DeliverKeepsResults(p) ==
  /\ pc[p] = "idle"
  /\ conn[p]
  /\ \E m \in queue :
       /\ queue' = queue \ {m}
       /\ unacked' = [unacked EXCEPT ![p] = m]
       /\ cur' = [cur EXCEPT ![p] = m]
  /\ pc' = [pc EXCEPT ![p] = "parse"]
  /\ UNCHANGED <<conn, key, kind, stored, attempt, faultVars, histVars, files, readerVars>>

\* prefetch_count is 1: p gets a message when it holds none.
Deliver(p) ==
  /\ pc[p] = "idle"
  /\ conn[p]
  /\ \E m \in queue :
       /\ queue' = queue \ {m}
       /\ unacked' = [unacked EXCEPT ![p] = m]
       /\ cur' = [cur EXCEPT ![p] = m]
  /\ pc' = [pc EXCEPT ![p] = "parse"]
  /\ stored' = [stored EXCEPT ![p] = {}]
  /\ UNCHANGED <<conn, key, kind, attempt, faultVars, histVars, files, readerVars>>

----------------------------------------------------------------------------
(* start(): ten attempts over the life of the process, then it exits.      *)

Connect(p) ==
  /\ pc[p] = "connecting"
  /\ pc' = [pc EXCEPT ![p] = "idle"]
  /\ conn' = [conn EXCEPT ![p] = TRUE]
  /\ UNCHANGED <<queue, unacked, cur, key, kind, stored, attempt, faultVars, histVars, files, readerVars>>

\* Both handlers of the loop: the next attempt, or the end of the process.
LoopError(p) ==
  /\ IF attempt[p] < MaxRetries - 1
       THEN /\ pc' = [pc EXCEPT ![p] = "connecting"]
            /\ attempt' = [attempt EXCEPT ![p] = @ + 1]
       ELSE /\ pc' = [pc EXCEPT ![p] = "down"]
            /\ UNCHANGED attempt
  /\ UNCHANGED <<cur, key, kind, stored>>

ConnectFails(p) ==
  /\ pc[p] = "connecting"
  /\ drops < MaxDrops
  /\ drops' = drops + 1
  /\ LoopError(p)
  /\ UNCHANGED <<brokerVars, crashes, ioFaults, histVars, files, readerVars>>

\* Mutant of IdleError: the error interrupts a put as well.
IdleErrorInPut(p) ==
  /\ pc[p] \in {"idle", "write"}
  /\ ~conn[p]
  /\ LoopError(p)
  /\ UNCHANGED <<brokerVars, faultVars, histVars, files, readerVars>>

\* start_consuming() raises when it finds the connection gone.
IdleError(p) ==
  /\ pc[p] = "idle"
  /\ ~conn[p]
  /\ LoopError(p)
  /\ UNCHANGED <<brokerVars, faultVars, histVars, files, readerVars>>

\* Mutant of Crash: nobody tells the broker.
CrashUnnoticed(p) ==
  /\ pc[p] # "down"
  /\ crashes < MaxCrashes
  /\ crashes' = crashes + 1
  /\ pc' = [pc EXCEPT ![p] = "down"]
  /\ UNCHANGED <<brokerVars, cur, key, kind, stored, attempt, drops, ioFaults, histVars, files, readerVars>>

\* The process dies, or KeyboardInterrupt ends it from wherever it is.
Crash(p) ==
  /\ pc[p] # "down"
  /\ crashes < MaxCrashes
  /\ crashes' = crashes + 1
  /\ Disconnect(p)
  /\ pc' = [pc EXCEPT ![p] = "down"]
  /\ UNCHANGED <<cur, key, kind, stored, attempt, drops, ioFaults, histVars, files, readerVars>>

\* Mutant of Restart: only a process that used up its attempts comes back.
RestartAfterRetries(p) ==
  /\ pc[p] = "down"
  /\ attempt[p] = MaxRetries - 1
  /\ pc' = [pc EXCEPT ![p] = "connecting"]
  /\ attempt' = [attempt EXCEPT ![p] = 0]
  /\ UNCHANGED <<brokerVars, cur, key, kind, stored, faultVars, histVars, files, readerVars>>

\* "restart: unless-stopped".
Restart(p) ==
  /\ pc[p] = "down"
  /\ pc' = [pc EXCEPT ![p] = "connecting"]
  /\ attempt' = [attempt EXCEPT ![p] = 0]
  /\ UNCHANGED <<brokerVars, cur, key, kind, stored, faultVars, histVars, files, readerVars>>

----------------------------------------------------------------------------
(* callback()                                                              *)

\* Mutants of Parse: the message is acknowledged first; the key does not depend
\* on the message.
ParseAcksFirst(p) ==
  /\ pc[p] = "parse"
  /\ cur[p] \notin Malformed
  /\ unacked' = [unacked EXCEPT ![p] = None]
  /\ \E k \in KeysOf[cur[p]] : key' = [key EXCEPT ![p] = k]
  /\ kind' = [kind EXCEPT ![p] = "log"]
  /\ pc' = [pc EXCEPT ![p] = "open"]
  /\ UNCHANGED <<queue, conn, cur, stored, attempt, faultVars, histVars, files, readerVars>>

ParseSharesKeys(p) ==
  /\ pc[p] = "parse"
  /\ cur[p] \notin Malformed
  /\ \E k \in Keys : key' = [key EXCEPT ![p] = k]
  /\ kind' = [kind EXCEPT ![p] = "log"]
  /\ pc' = [pc EXCEPT ![p] = "open"]
  /\ UNCHANGED <<brokerVars, cur, stored, attempt, faultVars, histVars, files, readerVars>>

\* Decoding and parsing succeed and the key is chosen.
Parse(p) ==
  /\ pc[p] = "parse"
  /\ cur[p] \notin Malformed
  /\ \E k \in KeysOf[cur[p]] : key' = [key EXCEPT ![p] = k]
  /\ kind' = [kind EXCEPT ![p] = "log"]
  /\ pc' = [pc EXCEPT ![p] = "open"]
  /\ UNCHANGED <<brokerVars, cur, stored, attempt, faultVars, histVars, files, readerVars>>

\* They raise: basic_nack(requeue=False).
Reject(p) ==
  /\ pc[p] = "parse"
  /\ cur[p] \in Malformed
  /\ conn[p]
  /\ unacked' = [unacked EXCEPT ![p] = None]
  /\ rejected' = rejected \cup {cur[p]}
  /\ pc' = [pc EXCEPT ![p] = "idle"]
  /\ UNCHANGED <<queue, conn, cur, key, kind, stored, attempt, faultVars, published, abandoned, files, readerVars>>

File(p) == <<kind[p], key[p]>>

\* What follows a put, whether it returned True or False.
AfterPut(p) ==
  /\ IF kind[p] = "log" /\ cur[p] \in Anomalous
       THEN pc' = [pc EXCEPT ![p] = "open"] /\ kind' = [kind EXCEPT ![p] = "anomaly"]
       ELSE pc' = [pc EXCEPT ![p] = "ack"] /\ UNCHANGED kind
  /\ UNCHANGED <<brokerVars, cur, key, attempt, drops, crashes, histVars, readerVars>>

Open(p) ==
  /\ pc[p] = "open"
  /\ PutOpen(File(p))
  /\ pc' = [pc EXCEPT ![p] = "write"]
  /\ UNCHANGED <<brokerVars, cur, key, kind, stored, attempt, faultVars, histVars, readerVars>>

OpenFails(p) ==
  /\ pc[p] = "open"
  /\ ioFaults < MaxIOFaults
  /\ ioFaults' = ioFaults + 1
  /\ AfterPut(p)
  /\ UNCHANGED <<stored, files>>

Write(p) ==
  /\ pc[p] = "write"
  /\ PutWrite(File(p), cur[p])
  /\ stored' = [stored EXCEPT ![p] = @ \cup {kind[p]}]
  /\ AfterPut(p)
  /\ UNCHANGED ioFaults

\* Mutant of WriteFails: put returns True.
WriteFailsSilently(p) ==
  /\ pc[p] = "write"
  /\ ioFaults < MaxIOFaults
  /\ ioFaults' = ioFaults + 1
  /\ stored' = [stored EXCEPT ![p] = @ \cup {kind[p]}]
  /\ AfterPut(p)
  /\ UNCHANGED files

\* json.dump or the close raises: the file stays truncated.
WriteFails(p) ==
  /\ pc[p] = "write"
  /\ ioFaults < MaxIOFaults
  /\ ioFaults' = ioFaults + 1
  /\ AfterPut(p)
  /\ UNCHANGED <<stored, files>>

\* basic_ack, whatever the puts returned.
Ack(p) ==
  /\ pc[p] = "ack"
  /\ conn[p]
  /\ unacked' = [unacked EXCEPT ![p] = None]
  /\ abandoned' = abandoned \cup ((Wanted(cur[p]) \ stored[p]) \X {cur[p]})
  /\ pc' = [pc EXCEPT ![p] = "idle"]
  /\ UNCHANGED <<queue, conn, cur, key, kind, stored, attempt, faultVars, published, rejected, files, readerVars>>

\* With the connection gone, basic_ack raises and so does the basic_nack of
\* its handler, or the frame is lost with the socket and nobody notices yet.
AnswerLost(p) ==
  /\ pc[p] = "ack" \/ (pc[p] = "parse" /\ cur[p] \in Malformed)
  /\ ~conn[p]
  /\ \/ LoopError(p)
     \/ pc' = [pc EXCEPT ![p] = "idle"] /\ UNCHANGED <<cur, key, kind, stored, attempt>>
  /\ UNCHANGED <<brokerVars, faultVars, histVars, files, readerVars>>

----------------------------------------------------------------------------
(* The dashboard: readers only.                                            *)

pipeVars == <<brokerVars, procVars, faultVars, histVars>>

DashboardStart(r) == ScanStart(r) /\ UNCHANGED pipeVars
DashboardStep(r) == ScanStep(r) /\ UNCHANGED pipeVars

----------------------------------------------------------------------------
Progress(p) ==
  \/ Deliver(p) \/ Connect(p) \/ IdleError(p) \/ Restart(p)
  \/ Parse(p) \/ Reject(p) \/ Open(p) \/ Write(p) \/ Ack(p) \/ AnswerLost(p)

Fault(p) ==
  ConnectionLost(p) \/ ConnectFails(p) \/ Crash(p) \/ OpenFails(p) \/ WriteFails(p)

Next ==
  \/ \E m \in Msgs : Publish(m)
  \/ \E p \in Processors : Progress(p) \/ Fault(p)
  \/ \E r \in Readers : DashboardStart(r) \/ DashboardStep(r)

Spec == Init /\ [][Next]_vars

\* A processor that can go on does; Docker restarts it; a scan that was begun
\* ends, and the page polls again.
FairSpec ==
  /\ Spec
  /\ \A p \in Processors : WF_vars(Progress(p))
  /\ \A r \in Readers : WF_vars(DashboardStart(r)) /\ WF_vars(DashboardStep(r))

----------------------------------------------------------------------------
TypeOK ==
  /\ StoreTypeOK
  /\ queue \subseteq Msgs
  /\ unacked \in [Processors -> Msgs \cup {None}]
  /\ conn \in [Processors -> BOOLEAN]
  /\ pc \in [Processors -> {"down", "connecting", "idle", "parse", "open", "write", "ack"}]
  /\ cur \in [Processors -> Msgs \cup {None}]
  /\ key \in [Processors -> Keys \cup {None}]
  /\ kind \in [Processors -> Kinds]
  /\ stored \in [Processors -> SUBSET Kinds]
  /\ attempt \in [Processors -> 0 .. MaxRetries - 1]
  /\ drops \in 0 .. MaxDrops /\ crashes \in 0 .. MaxCrashes /\ ioFaults \in 0 .. MaxIOFaults
  /\ \A p \in Processors : Busy(p) => cur[p] \in Msgs
  /\ \A p \in Processors : pc[p] \in {"open", "write"} => key[p] \in Keys
  /\ published \subseteq Msgs
  /\ rejected \subseteq Msgs
  /\ abandoned \subseteq Kinds \X Msgs

\* Some part of the broker still answers for m.
InCustody(m) == m \in queue \/ \E p \in Processors : unacked[p] = m

Stored(kd, m) == \E k \in KeysOf[m] : files[<<kd, k>>] = m

\* No record is lost: of every message the broker accepted, each file it should
\* leave is complete on disk, unless the message is still with the broker, was
\* rejected as unparsable, or was acknowledged after that put returned False.
\* Truncation before rewriting, redelivery after a lost acknowledgement and a
\* callback that outlives its connection are what could break it.
NoRecordLost ==
  \A m \in published \ rejected : \A kd \in Wanted(m) :
    InCustody(m) \/ Stored(kd, m) \/ <<kd, m>> \in abandoned

\* A message that carries a timestamp always gets the same file name.
Timestamped(m) == \E k \in Keys : KeysOf[m] = {k}

\* A file of a message with a timestamp is truncated only as long as the message
\* is still with the broker, whose redelivery rewrites it, or because its put
\* was reported as failed.  Nothing of the kind is true of a message without a
\* timestamp: its redelivery gets another name, and the file that a crash has
\* truncated stays as it is.
TornIsOwned ==
  \A m \in {w \in Msgs \ Malformed : Timestamped(w)} : \A kd \in Kinds, k \in KeysOf[m] :
    files[<<kd, k>>] = Torn =>
      kd \in Wanted(m) /\ (InCustody(m) \/ <<kd, m>> \in abandoned)

\* The truncated files that nobody is about to complete.  Each of them makes
\* every scan that lists it return nothing.
LeftTorn ==
  {n \in Names : files[n] = Torn} \ {File(p) : p \in {q \in Processors : pc[q] = "write"}}

\* Every file that is left truncated, whichever message it is of, has cost a
\* crash or a failed write of its own: lost connections, redeliveries, retries
\* and other processors leave none, however often they happen.
TornCostsFault == Cardinality(LeftTorn) <= crashes + ioFaults

----------------------------------------------------------------------------
(* Why no record is lost: one processor, or connections that stay up, and  *)
(* file names that no two messages share.                                  *)

SafeDeployment ==
  /\ (\A p, q \in Processors : p = q) \/ MaxDrops = 0
  /\ \A m, w \in Msgs : m # w => KeysOf[m] \cap KeysOf[w] = {}

\* What a processor works on is what the broker holds for it, or, once its
\* connection is gone, what the broker is about to deliver again.
LinkInv ==
  \A p \in Processors :
    /\ ~Busy(p) \/ ~conn[p] => unacked[p] = None
    /\ Busy(p) /\ conn[p] => unacked[p] = cur[p]
    /\ Busy(p) /\ ~conn[p] => cur[p] \in queue /\ MaxDrops # 0

\* The broker keeps one copy of each message that is published and not settled.
BrokerInv ==
  /\ \A p \in Processors : unacked[p] \notin queue
  /\ \A p, q \in Processors : p # q /\ unacked[p] = unacked[q] => unacked[p] = None
  /\ \A m \in Msgs : InCustody(m) => m \in published \ rejected
  /\ rejected \subseteq published \cap Malformed

\* What the callback has stored is on disk, and it has still to put `kind'.
JobInv ==
  \A p \in Processors :
    /\ pc[p] = "parse" => stored[p] = {}
    /\ pc[p] \in {"open", "write"} =>
         stored[p] \subseteq (IF kind[p] = "anomaly" THEN {"log"} ELSE {})
    /\ pc[p] \in {"open", "write", "ack"} =>
         /\ cur[p] \notin Malformed
         /\ key[p] \in KeysOf[cur[p]]
         /\ kind[p] \in Wanted(cur[p])
         /\ \A kd \in stored[p] : files[<<kd, key[p]>>] = cur[p]

\* The inductive invariant: processors agree with the broker about who holds
\* what, the broker holds each message once, a callback's results are on disk,
\* no record is lost and no message with a timestamp leaves a truncated file.
IndInv == TypeOK /\ LinkInv /\ BrokerInv /\ JobInv /\ NoRecordLost /\ TornIsOwned

----------------------------------------------------------------------------
(* The pipeline implements the ledger.                                     *)

Status(m) ==
  IF m \notin published THEN "new"
  ELSE IF InCustody(m) THEN "pending"
  ELSE IF m \in rejected THEN "rejected"
  ELSE IF \A kd \in Wanted(m) : Stored(kd, m) THEN "kept"
  ELSE IF \A kd \in Wanted(m) : Stored(kd, m) \/ <<kd, m>> \in abandoned THEN "abandoned"
  ELSE "lost"

Ledger == INSTANCE LogLedger WITH status <- [m \in Msgs |-> Status(m)]

\* Every step of the pipeline is a step of the ledger or changes nothing in it:
\* a message is settled once, by its acknowledgement, and nothing that happens
\* to files or connections later takes that back.
LedgerSpec == Ledger!Spec

\* Without I/O faults every well-formed message ends up stored, through any
\* finite number of crashes and lost connections.
EveryMessageKept == Ledger!EveryKept

\* The messages of a set whose file names come before those of m.
Before(m, S) == {w \in S : \E j \in KeysOf[w], k \in KeysOf[m] : j < k}

\* What the list of reader r ends up with.  The limit is on the files of both
\* kinds, and those of anomalies come first: a list of logs gets what they leave.
FinalList(r) ==
  LET valid == Msgs \ Malformed
      flagged == valid \cap Anomalous
  IN  IF Prefix[r] = "anomaly"
        THEN {m \in flagged : Cardinality(Before(m, flagged)) < Limit[r]}
        ELSE {m \in valid : Cardinality(flagged) + Cardinality(Before(m, valid)) < Limit[r]}


----------------------------------------------------------------------------
(* What the documents say of the system, checked by runs of their own.     *)

\* A log is not lost, whoever consumes it (PROJECT_EXPLANATION.md:50-51): each of
\* its files is there, or somebody is going to write it or has reported failing.
EveryRecordSurvives ==
  \A m \in published \ rejected : \A kd \in Wanted(m) :
    \/ InCustody(m)
    \/ Stored(kd, m)
    \/ <<kd, m>> \in abandoned
    \/ \E p \in Processors : Busy(p) /\ cur[p] = m
=============================================================================
