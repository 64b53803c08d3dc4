------------------------- MODULE LogPipelineProofs -------------------------
(***************************************************************************)
(* Proofs about LogPipeline, for any messages, processors, readers and     *)
(* fault bounds: type correctness; that every file left truncated has cost *)
(* a fault; and, in a safe deployment, that no record is lost, that a      *)
(* message with a timestamp leaves no truncated file, and that the         *)
(* pipeline implements LogLedger.                                          *)
(***************************************************************************)
EXTENDS LogPipeline, FiniteSetTheorems, TLAPS

USE DEF Kinds, Names

\* The dashboard changes neither the files nor anything of the pipeline.
LEMMA DashboardOnlyReads ==
  ASSUME NEW r \in Readers, DashboardStart(r) \/ DashboardStep(r)
  PROVE  UNCHANGED <<files, pipeVars>>
BY DEF DashboardStart, DashboardStep, ScanStart, ScanStep, ScanRead, ScanAbort, ScanReturn

\* Every reader step keeps the types of what readers hold.
LEMMA ReaderTypes ==
  ASSUME StoreTypeOK, NEW r \in Readers, ScanStart(r) \/ ScanStep(r)
  PROVE  StoreTypeOK'
<1> USE DEF StoreTypeOK
<1>1. CASE ScanStart(r)
  BY <1>1 DEF ScanStart, Listing, Existing
<1>2. CASE ScanRead(r)
  <2> PICK n \in todo[r] :
        /\ files[n] \in Msgs
        /\ todo' = [todo EXCEPT ![r] = @ \ {n}]
        /\ got' = [got EXCEPT ![r] = IF n[1] = Prefix[r] THEN @ \cup {files[n]} ELSE @]
    BY <1>2 DEF ScanRead
  <2> QED
    BY <1>2 DEF ScanRead
<1>3. CASE ScanAbort(r)
  BY <1>3 DEF ScanAbort
<1>4. CASE ScanReturn(r)
  BY <1>4 DEF ScanReturn
<1> QED
  BY <1>1, <1>2, <1>3, <1>4 DEF ScanStep

\* The initial state is well typed.
LEMMA InitTypeOK == Init => TypeOK
BY BoundsAssumption DEF Init, TypeOK, Busy, StoreInit, StoreTypeOK

\* LoopError keeps the types of the processor's own variables.
LEMMA LoopErrorTypes ==
  ASSUME TypeOK, NEW p \in Processors, LoopError(p)
  PROVE  /\ pc' \in [Processors -> {"down", "connecting", "idle", "parse", "open", "write", "ack"}]
         /\ attempt' \in [Processors -> 0 .. MaxRetries - 1]
         /\ pc'[p] \in {"down", "connecting"}
         /\ \A q \in Processors \ {p} : pc'[q] = pc[q]
<1> USE DEF TypeOK
<1>1. CASE attempt[p] < MaxRetries - 1
  <2>1. attempt[p] + 1 \in 0 .. MaxRetries - 1
    BY <1>1, BoundsAssumption
  <2> QED
    BY <1>1, <2>1 DEF LoopError
<1>2. CASE ~(attempt[p] < MaxRetries - 1)
  BY <1>2 DEF LoopError
<1> QED
  BY <1>1, <1>2

\* A put's outcome keeps the types of the processor's own variables.
LEMMA AfterPutTypes ==
  ASSUME TypeOK, NEW p \in Processors, AfterPut(p)
  PROVE  /\ pc' \in [Processors -> {"down", "connecting", "idle", "parse", "open", "write", "ack"}]
         /\ kind' \in [Processors -> Kinds]
BY DEF TypeOK, AfterPut

\* Each fault counter stays within its bound.
LEMMA CounterTypes ==
  ASSUME TypeOK
  PROVE  /\ drops < MaxDrops => drops + 1 \in 0 .. MaxDrops
         /\ crashes < MaxCrashes => crashes + 1 \in 0 .. MaxCrashes
         /\ ioFaults < MaxIOFaults => ioFaults + 1 \in 0 .. MaxIOFaults
BY BoundsAssumption DEF TypeOK

\* Every step keeps the types.
LEMMA StepTypeOK == TypeOK /\ [Next]_vars => TypeOK'
<1> SUFFICES ASSUME TypeOK, [Next]_vars PROVE TypeOK'
  OBVIOUS
<1> USE DEF TypeOK, Busy, StoreTypeOK, readerVars, brokerVars, procVars, faultVars, histVars
<1>1. ASSUME NEW m \in Msgs, Publish(m) PROVE TypeOK'
  BY <1>1 DEF Publish
<1>2. ASSUME NEW p \in Processors, Progress(p) PROVE TypeOK'
  <2>1. CASE Deliver(p)
    BY <2>1 DEF Deliver
  <2>2. CASE Connect(p)
    BY <2>2 DEF Connect
  <2>3. CASE IdleError(p)
    BY <2>3, LoopErrorTypes DEF IdleError, LoopError
  <2>4. CASE Restart(p)
    BY <2>4, BoundsAssumption DEF Restart
  <2>5. CASE Parse(p)
    <3>1. PICK k \in KeysOf[cur[p]] : key' = [key EXCEPT ![p] = k]
      BY <2>5 DEF Parse
    <3>2. k \in Keys
      BY <2>5, MessagesAssumption DEF Parse
    <3> QED
      BY <2>5, <3>1, <3>2 DEF Parse
  <2>6. CASE Reject(p)
    BY <2>6, MessagesAssumption DEF Reject
  <2>7. CASE Open(p)
    BY <2>7 DEF Open, PutOpen, File
  <2>8. CASE Write(p)
    BY <2>8, AfterPutTypes DEF Write, PutWrite, File, AfterPut
  <2>9. CASE Ack(p)
    BY <2>9 DEF Ack, Wanted
  <2>10. CASE AnswerLost(p)
    BY <2>10, LoopErrorTypes DEF AnswerLost, LoopError
  <2> QED
    BY <1>2, <2>1, <2>2, <2>3, <2>4, <2>5, <2>6, <2>7, <2>8, <2>9, <2>10 DEF Progress
<1>3. ASSUME NEW p \in Processors, Fault(p) PROVE TypeOK'
  <2>1. CASE ConnectionLost(p)
    BY <2>1, CounterTypes DEF ConnectionLost, Disconnect
  <2>2. CASE ConnectFails(p)
    BY <2>2, CounterTypes, LoopErrorTypes DEF ConnectFails, LoopError
  <2>3. CASE Crash(p)
    BY <2>3, CounterTypes DEF Crash, Disconnect
  <2>4. CASE OpenFails(p)
    BY <2>4, CounterTypes, AfterPutTypes DEF OpenFails, AfterPut
  <2>5. CASE WriteFails(p)
    BY <2>5, CounterTypes, AfterPutTypes DEF WriteFails, AfterPut
  <2> QED
    BY <1>3, <2>1, <2>2, <2>3, <2>4, <2>5 DEF Fault
<1>4. ASSUME NEW r \in Readers, DashboardStart(r) \/ DashboardStep(r) PROVE TypeOK'
  BY <1>4, ReaderTypes DEF DashboardStart, DashboardStep, pipeVars
<1>5. CASE UNCHANGED vars
  BY <1>5 DEF vars
<1> QED
  BY <1>1, <1>2, <1>3, <1>4, <1>5 DEF Next

\* Type correctness of the pipeline.
THEOREM TypeCorrect == Spec => []TypeOK
BY InitTypeOK, StepTypeOK, PTL DEF Spec

----------------------------------------------------------------------------
(* Who holds a message.                                                    *)

\* A step that leaves the broker alone changes no message's custody.
LEMMA SameCustody ==
  ASSUME UNCHANGED <<queue, unacked>>, NEW m \in Msgs
  PROVE  InCustody(m)' <=> InCustody(m)
BY DEF InCustody

\* The end of a connection leaves every message with the broker.
LEMMA DisconnectCustody ==
  ASSUME TypeOK, NEW p \in Processors, Disconnect(p), NEW m \in Msgs
  PROVE  InCustody(m)' <=> InCustody(m)
BY MessagesAssumption DEF TypeOK, Disconnect, InCustody

\* A delivery moves a message from the queue to a processor.
LEMMA DeliverCustody ==
  ASSUME TypeOK, LinkInv, NEW p \in Processors, Deliver(p), NEW m \in Msgs
  PROVE  InCustody(m)' <=> InCustody(m)
BY MessagesAssumption DEF TypeOK, Deliver, InCustody, LinkInv, Busy

\* What a processor works on is with the broker.
LEMMA BusyCustody ==
  ASSUME LinkInv, NEW p \in Processors, Busy(p)
  PROVE  InCustody(cur[p])
BY DEF LinkInv, InCustody

\* An answer that reaches the broker settles that message and no other.
LEMMA AnswerCustody ==
  ASSUME TypeOK, LinkInv, BrokerInv, NEW p \in Processors, Ack(p) \/ Reject(p),
         NEW m \in Msgs
  PROVE  InCustody(m)' <=> InCustody(m) /\ m # cur[p]
<1>1. /\ unacked[p] = cur[p] /\ unacked' = [unacked EXCEPT ![p] = None]
      /\ queue' = queue /\ cur[p] \in Msgs
  BY DEF Ack, Reject, LinkInv, Busy, TypeOK
<1>2. cur[p] \notin queue /\ \A q \in Processors \ {p} : unacked[q] # cur[p]
  BY <1>1, MessagesAssumption DEF BrokerInv
<1> QED
  BY <1>1, <1>2, MessagesAssumption DEF InCustody, TypeOK

\* In a safe deployment no two processors work on the same message.
LEMMA NoSharedWork ==
  ASSUME SafeDeployment, TypeOK, LinkInv, BrokerInv,
         NEW p \in Processors, NEW q \in Processors, p # q, Busy(p), Busy(q)
  PROVE  cur[p] # cur[q]
<1>1. conn[p] /\ conn[q]
  BY DEF SafeDeployment, LinkInv
<1> QED
  BY <1>1, MessagesAssumption DEF LinkInv, BrokerInv, TypeOK

----------------------------------------------------------------------------
(* The parts of the inductive invariant.                                   *)

\* Processors and broker go on agreeing about who holds what.
LEMMA LinkStep ==
  ASSUME SafeDeployment, TypeOK, LinkInv, BrokerInv, [Next]_vars
  PROVE  LinkInv'
<1> USE MessagesAssumption DEF TypeOK, LinkInv, Busy, brokerVars, procVars
<1>1. ASSUME NEW m \in Msgs, Publish(m) PROVE LinkInv'
  BY <1>1 DEF Publish
<1>2. ASSUME NEW p \in Processors, Progress(p) PROVE LinkInv'
  <2>1. CASE Deliver(p)
    <3>1. \A q \in Processors \ {p} : Busy(q) => conn[q]
      BY DEF SafeDeployment
    <3> QED
      BY <2>1, <3>1 DEF Deliver
  <2>2. CASE Connect(p)
    BY <2>2 DEF Connect
  <2>3. CASE IdleError(p)
    BY <2>3, LoopErrorTypes DEF IdleError, LoopError
  <2>4. CASE Restart(p)
    BY <2>4 DEF Restart
  <2>5. CASE Parse(p)
    BY <2>5 DEF Parse
  <2>6. CASE Reject(p)
    BY <2>6 DEF Reject
  <2>7. CASE Open(p)
    BY <2>7 DEF Open
  <2>8. CASE Write(p)
    BY <2>8 DEF Write, AfterPut
  <2>9. CASE Ack(p)
    BY <2>9 DEF Ack
  <2>10. CASE AnswerLost(p)
    BY <2>10, LoopErrorTypes DEF AnswerLost, LoopError
  <2> QED
    BY <1>2, <2>1, <2>2, <2>3, <2>4, <2>5, <2>6, <2>7, <2>8, <2>9, <2>10 DEF Progress
<1>3. ASSUME NEW p \in Processors, Fault(p) PROVE LinkInv'
  <2>1. CASE ConnectionLost(p)
    <3>1. MaxDrops # 0
      BY <2>1 DEF ConnectionLost
    <3> QED
      BY <2>1, <3>1 DEF ConnectionLost, Disconnect
  <2>2. CASE ConnectFails(p)
    BY <2>2, LoopErrorTypes DEF ConnectFails, LoopError
  <2>3. CASE Crash(p)
    BY <2>3 DEF Crash, Disconnect
  <2>4. CASE OpenFails(p)
    BY <2>4 DEF OpenFails, AfterPut
  <2>5. CASE WriteFails(p)
    BY <2>5 DEF WriteFails, AfterPut
  <2> QED
    BY <1>3, <2>1, <2>2, <2>3, <2>4, <2>5 DEF Fault
<1>4. ASSUME NEW r \in Readers, DashboardStart(r) \/ DashboardStep(r) PROVE LinkInv'
  BY <1>4, DashboardOnlyReads DEF pipeVars
<1>5. CASE UNCHANGED vars
  BY <1>5 DEF vars
<1> QED
  BY <1>1, <1>2, <1>3, <1>4, <1>5 DEF Next

\* The broker goes on keeping one copy of every unsettled message.
LEMMA BrokerStep ==
  ASSUME TypeOK, LinkInv, BrokerInv, [Next]_vars
  PROVE  BrokerInv'
<1> USE MessagesAssumption DEF TypeOK, BrokerInv, brokerVars, histVars
<1>0. ASSUME UNCHANGED <<brokerVars, published, rejected>> PROVE BrokerInv'
  BY <1>0 DEF InCustody
<1>1. ASSUME NEW m \in Msgs, Publish(m) PROVE BrokerInv'
  BY <1>1 DEF Publish, InCustody
<1>2. ASSUME NEW p \in Processors, Progress(p) PROVE BrokerInv'
  <2>1. CASE Deliver(p)
    <3>1. unacked[p] = None
      BY <2>1 DEF Deliver, LinkInv, Busy
    <3>2. \A m \in Msgs : InCustody(m)' <=> InCustody(m)
      BY <2>1, DeliverCustody
    <3> QED
      BY <2>1, <3>1, <3>2 DEF Deliver
  <2>2. CASE Connect(p)
    BY <2>2 DEF Connect, InCustody
  <2>3. CASE Reject(p)
    <3>1. \A m \in Msgs : InCustody(m)' <=> InCustody(m) /\ m # cur[p]
      BY <2>3, AnswerCustody
    <3>2. cur[p] \in published
      BY <2>3, BusyCustody DEF Reject, Busy
    <3> QED
      BY <2>3, <3>1, <3>2 DEF Reject
  <2>4. CASE Ack(p)
    <3>1. \A m \in Msgs : InCustody(m)' <=> InCustody(m) /\ m # cur[p]
      BY <2>4, AnswerCustody
    <3> QED
      BY <2>4, <3>1 DEF Ack
  <2>5. CASE IdleError(p) \/ Restart(p) \/ Parse(p) \/ Open(p) \/ Write(p) \/ AnswerLost(p)
    BY <1>0, <2>5 DEF IdleError, Restart, Parse, Open, Write, AfterPut, AnswerLost
  <2> QED
    BY <1>2, <2>1, <2>2, <2>3, <2>4, <2>5 DEF Progress
<1>3. ASSUME NEW p \in Processors, Fault(p) PROVE BrokerInv'
  <2>1. CASE ConnectionLost(p) \/ Crash(p)
    <3>1. Disconnect(p) /\ UNCHANGED histVars
      BY <2>1 DEF ConnectionLost, Crash
    <3>2. \A m \in Msgs : InCustody(m)' <=> InCustody(m)
      BY <3>1, DisconnectCustody
    <3> QED
      BY <3>1, <3>2 DEF Disconnect
  <2>2. CASE ConnectFails(p) \/ OpenFails(p) \/ WriteFails(p)
    BY <1>0, <2>2 DEF ConnectFails, OpenFails, WriteFails, AfterPut
  <2> QED
    BY <1>3, <2>1, <2>2 DEF Fault
<1>4. ASSUME NEW r \in Readers, DashboardStart(r) \/ DashboardStep(r) PROVE BrokerInv'
  BY <1>0, <1>4, DashboardOnlyReads DEF pipeVars
<1>5. CASE UNCHANGED vars
  BY <1>0, <1>5 DEF vars
<1> QED
  BY <1>1, <1>2, <1>3, <1>4, <1>5 DEF Next

\* A callback's results stay on disk until it answers.
LEMMA JobStep ==
  ASSUME SafeDeployment, TypeOK, LinkInv, BrokerInv, JobInv, [Next]_vars
  PROVE  JobInv'
<1> USE DEF TypeOK, StoreTypeOK, JobInv, Busy, procVars
<1>0. ASSUME UNCHANGED <<files, procVars>> PROVE JobInv'
  BY <1>0
<1>1. ASSUME NEW m \in Msgs, Publish(m) PROVE JobInv'
  BY <1>0, <1>1 DEF Publish
<1>2. \A p, q \in Processors : 
         p # q /\ pc[p] \in {"open", "write"} /\ pc[q] \in {"open", "write", "ack"} => key[p] # key[q]
  BY NoSharedWork DEF SafeDeployment
<1>3. ASSUME NEW p \in Processors, Progress(p) PROVE JobInv'
  <2>1. CASE Deliver(p)
    BY <2>1 DEF Deliver
  <2>2. CASE Connect(p)
    BY <2>2 DEF Connect
  <2>3. CASE IdleError(p)
    BY <2>3, LoopErrorTypes DEF IdleError, LoopError
  <2>4. CASE Restart(p)
    BY <2>4 DEF Restart
  <2>5. CASE Parse(p)
    BY <2>5 DEF Parse, Wanted
  <2>6. CASE Reject(p)
    BY <2>6 DEF Reject
  <2>7. CASE Open(p)
    BY <1>2, <2>7 DEF Open, PutOpen, File
  <2>8. CASE Write(p)
    BY <1>2, <2>8 DEF Write, PutWrite, AfterPut, File, Wanted
  <2>9. CASE Ack(p)
    BY <2>9 DEF Ack
  <2>10. CASE AnswerLost(p)
    BY <2>10, LoopErrorTypes DEF AnswerLost, LoopError
  <2> QED
    BY <1>3, <2>1, <2>2, <2>3, <2>4, <2>5, <2>6, <2>7, <2>8, <2>9, <2>10 DEF Progress
<1>4. ASSUME NEW p \in Processors, Fault(p) PROVE JobInv'
  <2>1. CASE ConnectionLost(p)
    BY <1>0, <2>1 DEF ConnectionLost
  <2>2. CASE ConnectFails(p)
    BY <2>2, LoopErrorTypes DEF ConnectFails, LoopError
  <2>3. CASE Crash(p)
    BY <2>3 DEF Crash
  <2>4. CASE OpenFails(p)
    BY <2>4 DEF OpenFails, AfterPut, Wanted
  <2>5. CASE WriteFails(p)
    BY <2>5 DEF WriteFails, AfterPut, Wanted
  <2> QED
    BY <1>4, <2>1, <2>2, <2>3, <2>4, <2>5 DEF Fault
<1>5. ASSUME NEW r \in Readers, DashboardStart(r) \/ DashboardStep(r) PROVE JobInv'
  BY <1>0, <1>5, DashboardOnlyReads DEF pipeVars
<1>6. CASE UNCHANGED vars
  BY <1>0, <1>6 DEF vars
<1> QED
  BY <1>1, <1>3, <1>4, <1>5, <1>6 DEF Next

----------------------------------------------------------------------------
(* What a step does to messages.                                           *)

\* A put changes files of its own message only.
LEMMA PutTouchesOwnFiles ==
  ASSUME SafeDeployment, TypeOK, LinkInv, JobInv,
         NEW p \in Processors, Open(p) \/ Write(p),
         NEW m \in Msgs, ~InCustody(m), NEW kd \in Kinds
  PROVE  Stored(kd, m)' <=> Stored(kd, m)
<1>1. cur[p] \in Msgs /\ key[p] \in KeysOf[cur[p]] /\ Busy(p)
  BY DEF Open, Write, JobInv, Busy, TypeOK
<1>2. m # cur[p]
  BY <1>1, BusyCustody
<1>3. \A k \in KeysOf[m] : k # key[p]
  BY <1>1, <1>2 DEF SafeDeployment
<1>4. PICK v : files' = [files EXCEPT ![<<kind[p], key[p]>>] = v]
  BY DEF Open, Write, PutOpen, PutWrite, File
<1>5. \A k \in KeysOf[m] : files'[<<kd, k>>] = files[<<kd, k>>]
  BY <1>3, <1>4, MessagesAssumption DEF TypeOK, StoreTypeOK
<1> QED
  BY <1>5 DEF Stored

\* A step publishes a message, answers for one, or concerns no message that is
\* settled and moves none out of custody.
LEMMA MessageStep ==
  ASSUME SafeDeployment, TypeOK, LinkInv, BrokerInv, JobInv, [Next]_vars
  PROVE  \/ \E m \in Msgs : Publish(m)
         \/ \E p \in Processors : Ack(p) \/ Reject(p)
         \/ /\ UNCHANGED histVars
            /\ \A m \in Msgs :
                 /\ InCustody(m)' <=> InCustody(m)
                 /\ ~InCustody(m) => \A kd \in Kinds : Stored(kd, m)' <=> Stored(kd, m)
<1> DEFINE Quiet ==
      /\ UNCHANGED histVars
      /\ \A m \in Msgs :
           /\ InCustody(m)' <=> InCustody(m)
           /\ ~InCustody(m) => \A kd \in Kinds : Stored(kd, m)' <=> Stored(kd, m)
<1>0. ASSUME UNCHANGED <<files, histVars>>, \A m \in Msgs : InCustody(m)' <=> InCustody(m)
      PROVE Quiet
  BY <1>0 DEF Stored
<1>1. ASSUME UNCHANGED <<files, histVars, brokerVars>> PROVE Quiet
  BY <1>0, <1>1, SameCustody DEF brokerVars
<1>2. ASSUME NEW p \in Processors, Progress(p), ~Ack(p), ~Reject(p) PROVE Quiet
  <2>1. CASE Deliver(p)
    BY <1>0, <2>1, DeliverCustody DEF Deliver
  <2>2. CASE Connect(p)
    BY <1>0, <2>2, SameCustody DEF Connect
  <2>3. CASE Open(p)
    BY <2>3, SameCustody, PutTouchesOwnFiles DEF Open, brokerVars
  <2>4. CASE Write(p)
    BY <2>4, SameCustody, PutTouchesOwnFiles DEF Write, AfterPut, brokerVars
  <2>5. CASE IdleError(p) \/ Restart(p) \/ Parse(p) \/ AnswerLost(p)
    BY <1>1, <2>5 DEF IdleError, Restart, Parse, AnswerLost
  <2> QED
    BY <1>2, <2>1, <2>2, <2>3, <2>4, <2>5 DEF Progress
<1>3. ASSUME NEW p \in Processors, Fault(p) PROVE Quiet
  <2>1. CASE ConnectionLost(p) \/ Crash(p)
    BY <1>0, <2>1, DisconnectCustody DEF ConnectionLost, Crash
  <2>2. CASE ConnectFails(p) \/ OpenFails(p) \/ WriteFails(p)
    BY <1>1, <2>2 DEF ConnectFails, OpenFails, WriteFails, AfterPut
  <2> QED
    BY <1>3, <2>1, <2>2 DEF Fault
<1>4. ASSUME NEW r \in Readers, DashboardStart(r) \/ DashboardStep(r) PROVE Quiet
  BY <1>1, <1>4, DashboardOnlyReads DEF pipeVars
<1>5. CASE UNCHANGED vars
  BY <1>1, <1>5 DEF vars
<1> QED
  BY <1>2, <1>3, <1>4, <1>5 DEF Next

\* At the acknowledgement each file of the message is stored or given up.
LEMMA AckOutcome ==
  ASSUME TypeOK, JobInv, NEW p \in Processors, Ack(p),
         NEW m, m = cur[p], NEW kd \in Wanted(m)
  PROVE  Stored(kd, m)' \/ <<kd, m>> \in abandoned'
<1>1. CASE kd \in stored[p]
  BY <1>1 DEF JobInv, Ack, Stored
<1>2. CASE kd \notin stored[p]
  BY <1>2 DEF Ack
<1> QED
  BY <1>1, <1>2

\* No step loses a record.
LEMMA NoRecordLostStep ==
  ASSUME SafeDeployment, TypeOK, LinkInv, BrokerInv, JobInv, NoRecordLost, [Next]_vars
  PROVE  NoRecordLost'
<1> USE DEF NoRecordLost, TypeOK
<1>1. ASSUME NEW w \in Msgs, Publish(w) PROVE NoRecordLost'
  BY <1>1 DEF Publish, InCustody, Stored
<1>2. ASSUME NEW p \in Processors, Ack(p) PROVE NoRecordLost'
  <2>1. \A m \in Msgs : InCustody(m)' <=> InCustody(m) /\ m # cur[p]
    BY <1>2, AnswerCustody
  <2>2. /\ published' = published /\ rejected' = rejected
        /\ abandoned \subseteq abandoned' /\ files' = files
    BY <1>2 DEF Ack
  <2>3. \A m \in Msgs : \A kd \in Kinds : Stored(kd, m)' <=> Stored(kd, m)
    BY <2>2 DEF Stored
  <2>4. ASSUME NEW m \in published \ rejected, NEW kd \in Wanted(m)
        PROVE  InCustody(m)' \/ Stored(kd, m)' \/ <<kd, m>> \in abandoned'
    <3>1. CASE m = cur[p]
      BY <1>2, <3>1, AckOutcome
    <3>2. CASE m # cur[p]
      BY <2>1, <2>2, <2>3, <3>2 DEF Wanted
    <3> QED
      BY <3>1, <3>2
  <2> QED
    BY <2>2, <2>4 DEF Wanted
<1>3. ASSUME NEW p \in Processors, Reject(p) PROVE NoRecordLost'
  <2>1. \A m \in Msgs : InCustody(m)' <=> InCustody(m) /\ m # cur[p]
    BY <1>3, AnswerCustody
  <2> QED
    BY <1>3, <2>1 DEF Reject, Stored
<1>4. CASE /\ UNCHANGED histVars
           /\ \A m \in Msgs :
                /\ InCustody(m)' <=> InCustody(m)
                /\ ~InCustody(m) => \A kd \in Kinds : Stored(kd, m)' <=> Stored(kd, m)
  BY <1>4 DEF histVars, Wanted
<1> QED
  BY <1>1, <1>2, <1>3, <1>4, MessageStep

\* What the invariant says of one truncated file of a message with a timestamp.
LEMMA TornOwner ==
  ASSUME TornIsOwned, NEW m \in Msgs \ Malformed, Timestamped(m),
         NEW kd \in Kinds, NEW k \in KeysOf[m], files[<<kd, k>>] = Torn
  PROVE  kd \in Wanted(m) /\ (InCustody(m) \/ <<kd, m>> \in abandoned)
BY DEF TornIsOwned

\* A truncated file of a message with a timestamp goes on having an owner.
LEMMA TornStep ==
  ASSUME SafeDeployment, TypeOK, LinkInv, BrokerInv, JobInv, TornIsOwned, [Next]_vars
  PROVE  TornIsOwned'
<1>1. ASSUME UNCHANGED <<files, abandoned>>,
             \A m \in Msgs \ Malformed : InCustody(m) => InCustody(m)'
      PROVE  TornIsOwned'
  BY <1>1, TornOwner DEF TornIsOwned, Timestamped, Wanted
<1>2. ASSUME NEW p \in Processors, Ack(p) PROVE TornIsOwned'
  <2>1. files' = files /\ abandoned \subseteq abandoned'
    BY <1>2 DEF Ack
  <2>2. ASSUME NEW m \in Msgs \ Malformed, Timestamped(m), NEW kd \in Kinds,
               NEW k \in KeysOf[m], files[<<kd, k>>] = Torn
        PROVE  kd \in Wanted(m) /\ (InCustody(m)' \/ <<kd, m>> \in abandoned')
    <3>1. CASE m # cur[p]
      BY <1>2, <2>1, <2>2, <3>1, TornOwner, AnswerCustody
    <3>2. CASE m = cur[p]
      <4>1. pc[p] = "ack" /\ abandoned' = abandoned \cup ((Wanted(cur[p]) \ stored[p]) \X {cur[p]})
        BY <1>2 DEF Ack
      <4>2. key[p] = k
        BY <2>2, <3>2, <4>1 DEF JobInv, Timestamped
      <4>3. kd \notin stored[p]
        BY <2>2, <3>2, <4>1, <4>2, MarkersAssumption DEF JobInv, TypeOK, StoreTypeOK
      <4>4. kd \in Wanted(m)
        BY <2>2, TornOwner
      <4> QED
        BY <3>2, <4>1, <4>3, <4>4
    <3> QED
      BY <3>1, <3>2
  <2> QED
    BY <2>1, <2>2 DEF TornIsOwned, Timestamped, Wanted
<1>3. ASSUME NEW p \in Processors, Reject(p) PROVE TornIsOwned'
  <2>1. /\ files' = files /\ abandoned' = abandoned /\ cur[p] \in Malformed
    BY <1>3 DEF Reject
  <2>2. \A m \in Msgs \ Malformed : InCustody(m) => InCustody(m)'
    BY <1>3, <2>1, AnswerCustody
  <2> QED
    BY <1>1, <2>1, <2>2
<1>4. ASSUME NEW p \in Processors, Open(p) \/ Write(p) PROVE TornIsOwned'
  <2>1. /\ cur[p] \in Msgs \ Malformed /\ key[p] \in KeysOf[cur[p]] /\ kind[p] \in Wanted(cur[p])
        /\ Busy(p) /\ UNCHANGED <<queue, unacked, abandoned>>
    BY <1>4 DEF Open, Write, AfterPut, JobInv, Busy, TypeOK, brokerVars, histVars
  <2>2. InCustody(cur[p])
    BY <2>1, BusyCustody
  <2>3. PICK v : files' = [files EXCEPT ![<<kind[p], key[p]>>] = v]
    BY <1>4 DEF Open, Write, PutOpen, PutWrite, File
  <2>4. \A m \in Msgs : InCustody(m)' <=> InCustody(m)
    BY <2>1, SameCustody
  <2>5. ASSUME NEW m \in Msgs \ Malformed, Timestamped(m), NEW kd \in Kinds,
               NEW k \in KeysOf[m], files'[<<kd, k>>] = Torn
        PROVE  kd \in Wanted(m) /\ (InCustody(m)' \/ <<kd, m>> \in abandoned')
    <3>1. CASE kd = kind[p] /\ k = key[p]
      <4>1. m = cur[p]
        BY <2>1, <3>1 DEF SafeDeployment
      <4> QED
        BY <2>1, <2>2, <2>4, <3>1, <4>1
    <3>2. CASE ~(kd = kind[p] /\ k = key[p])
      <4>1. files[<<kd, k>>] = Torn
        BY <2>3, <2>5, <3>2, MessagesAssumption DEF TypeOK, StoreTypeOK
      <4> QED
        BY <2>1, <2>4, <2>5, <4>1, TornOwner
    <3> QED
      BY <3>1, <3>2
  <2> QED
    BY <2>5 DEF TornIsOwned, Timestamped, Wanted
<1>5. ASSUME NEW m \in Msgs, Publish(m) PROVE TornIsOwned'
  BY <1>1, <1>5 DEF Publish, InCustody
<1>6. ASSUME NEW p \in Processors, Progress(p), ~(Ack(p) \/ Reject(p) \/ Open(p) \/ Write(p))
      PROVE  TornIsOwned'
  <2>1. UNCHANGED <<files, abandoned>>
    BY <1>6 DEF Progress, Deliver, Connect, IdleError, Restart, Parse, AnswerLost, histVars
  <2>2. \A m \in Msgs : InCustody(m) => InCustody(m)'
    BY <1>6, SameCustody, DeliverCustody
       DEF Progress, Connect, IdleError, Restart, Parse, AnswerLost, brokerVars
  <2> QED
    BY <1>1, <2>1, <2>2
<1>7. ASSUME NEW p \in Processors, Fault(p) PROVE TornIsOwned'
  <2>1. UNCHANGED <<files, abandoned>>
    BY <1>7 DEF Fault, ConnectionLost, ConnectFails, Crash, OpenFails, WriteFails, AfterPut, histVars
  <2>2. \A m \in Msgs : InCustody(m) => InCustody(m)'
    BY <1>7, SameCustody, DisconnectCustody
       DEF Fault, ConnectionLost, ConnectFails, Crash, OpenFails, WriteFails, AfterPut, brokerVars
  <2> QED
    BY <1>1, <2>1, <2>2
<1>8. ASSUME NEW r \in Readers, DashboardStart(r) \/ DashboardStep(r) PROVE TornIsOwned'
  BY <1>1, <1>8, DashboardOnlyReads, SameCustody DEF pipeVars, histVars, brokerVars
<1>9. CASE UNCHANGED vars
  BY <1>1, <1>9, SameCustody DEF vars, histVars, brokerVars
<1> QED
  BY <1>2, <1>3, <1>4, <1>5, <1>6, <1>7, <1>8, <1>9 DEF Next

----------------------------------------------------------------------------
(* The theorems.                                                           *)

\* The inductive invariant holds in every safe deployment.
THEOREM Invariance == ASSUME SafeDeployment PROVE Spec => []IndInv
<1>1. Init => IndInv
  <2> SUFFICES ASSUME Init PROVE IndInv
    OBVIOUS
  <2>1. TypeOK
    BY InitTypeOK
  <2> QED
    BY <2>1, MarkersAssumption, MessagesAssumption
       DEF IndInv, Init, StoreInit, LinkInv, BrokerInv, JobInv, NoRecordLost, TornIsOwned,
           Busy, InCustody
<1>2. IndInv /\ [Next]_vars => IndInv'
  BY StepTypeOK, LinkStep, BrokerStep, JobStep, NoRecordLostStep, TornStep DEF IndInv
<1> QED
  BY <1>1, <1>2, PTL DEF Spec

\* In every safe deployment no record of an accepted log message is lost, for
\* any number of messages, crashes, lost connections and failed writes.
THEOREM NothingLost == ASSUME SafeDeployment PROVE Spec => []NoRecordLost
<1>1. IndInv => NoRecordLost
  BY DEF IndInv
<1> QED
  BY <1>1, Invariance, PTL

\* In every safe deployment a file of a message with a timestamp is truncated
\* only while the message is still to be rewritten by a redelivery, or because
\* its put was reported as failed.
THEOREM NothingTorn == ASSUME SafeDeployment PROVE Spec => []TornIsOwned
<1>1. IndInv => TornIsOwned
  BY DEF IndInv
<1> QED
  BY <1>1, Invariance, PTL

----------------------------------------------------------------------------
(* What a truncated file has cost.                                         *)

\* A put that is not disturbed keeps its file out of the files left truncated.
LEMMA PutsGoOn ==
  ASSUME files' = files,
         \A q \in Processors : pc[q] = "write" => pc'[q] = "write" /\ File(q)' = File(q)
  PROVE  LeftTorn' \subseteq LeftTorn
BY DEF LeftTorn

\* A step leaves at most one more file truncated, and only a crash or a failed
\* write leaves one.
LEMMA LeftTornStep ==
  ASSUME TypeOK, [Next]_vars
  PROVE  \/ /\ LeftTorn' \subseteq LeftTorn
            /\ crashes' + ioFaults' >= crashes + ioFaults
         \/ \E f \in Names :
              /\ LeftTorn' \subseteq LeftTorn \cup {f}
              /\ crashes' + ioFaults' = crashes + ioFaults + 1
<1> USE DEF TypeOK, StoreTypeOK, procVars, faultVars
<1> DEFINE Harmless == LeftTorn' \subseteq LeftTorn /\ crashes' + ioFaults' >= crashes + ioFaults
<1> DEFINE Costly(f) == /\ LeftTorn' \subseteq LeftTorn \cup {f}
                        /\ crashes' + ioFaults' = crashes + ioFaults + 1
<1> DEFINE Outcome == Harmless \/ \E f \in Names : Costly(f)
<1>0. crashes \in Nat /\ ioFaults \in Nat
  OBVIOUS
<1>1. ASSUME UNCHANGED <<files, pc, kind, key, faultVars>> PROVE Harmless
  <2>1. LeftTorn' \subseteq LeftTorn
    BY <1>1, PutsGoOn DEF File
  <2> QED
    BY <1>0, <1>1, <2>1
<1>2. ASSUME NEW m \in Msgs, Publish(m) PROVE Harmless
  BY <1>1, <1>2 DEF Publish
<1>3. ASSUME NEW p \in Processors, Progress(p) PROVE Harmless
  <2>1. UNCHANGED faultVars
    BY <1>3 DEF Progress, Deliver, Connect, IdleError, Restart, Parse, Reject, Open, Write,
                AfterPut, Ack, AnswerLost
  <2>2. CASE Open(p)
    <3>1. /\ files' = [files EXCEPT ![File(p)] = Torn] /\ pc' = [pc EXCEPT ![p] = "write"]
          /\ key' = key /\ kind' = kind
      BY <2>2 DEF Open, PutOpen
    <3>2. \A q \in Processors : File(q)' = File(q)
      BY <3>1 DEF File
    <3>3. pc'[p] = "write" /\ \A q \in Processors : pc[q] = "write" => pc'[q] = "write"
      BY <3>1
    <3>4. LeftTorn' \subseteq LeftTorn
      BY <3>1, <3>2, <3>3 DEF LeftTorn
    <3> QED
      BY <1>0, <2>1, <3>4
  <2>3. CASE Write(p)
    <3>1. /\ files' = [files EXCEPT ![File(p)] = cur[p]] /\ key' = key
          /\ cur[p] \in Msgs /\ File(p) \in Names
          /\ \A q \in Processors \ {p} : pc'[q] = pc[q] /\ kind'[q] = kind[q]
      BY <2>3 DEF Write, PutWrite, AfterPut, File, Busy
    <3>2. \A q \in Processors \ {p} : File(q)' = File(q)
      BY <3>1 DEF File
    <3>3. files'[File(p)] # Torn /\ \A n \in Names \ {File(p)} : files'[n] = files[n]
      BY <3>1, MarkersAssumption
    <3>4. LeftTorn' \subseteq LeftTorn
      BY <3>1, <3>2, <3>3 DEF LeftTorn
    <3> QED
      BY <1>0, <2>1, <3>4
  <2>4. CASE IdleError(p) \/ AnswerLost(p)
    <3>1. /\ files' = files /\ key' = key /\ kind' = kind /\ pc[p] # "write"
          /\ \A q \in Processors \ {p} : pc'[q] = pc[q]
      BY <2>4, LoopErrorTypes DEF IdleError, AnswerLost, LoopError
    <3>2. LeftTorn' \subseteq LeftTorn
      BY <3>1, PutsGoOn DEF File
    <3> QED
      BY <1>0, <2>1, <3>2
  <2>5. CASE Deliver(p) \/ Connect(p) \/ Restart(p) \/ Parse(p) \/ Reject(p) \/ Ack(p)
    <3>1. /\ files' = files /\ pc[p] # "write"
          /\ \A q \in Processors \ {p} : pc'[q] = pc[q] /\ kind'[q] = kind[q] /\ key'[q] = key[q]
      BY <2>5 DEF Deliver, Connect, Restart, Parse, Reject, Ack
    <3>2. LeftTorn' \subseteq LeftTorn
      BY <3>1, PutsGoOn DEF File
    <3> QED
      BY <1>0, <2>1, <3>2
  <2> QED
    BY <1>3, <2>2, <2>3, <2>4, <2>5 DEF Progress
<1>4. ASSUME NEW p \in Processors, Fault(p) PROVE Outcome
  <2>1. CASE ConnectionLost(p)
    BY <1>0, <2>1, PutsGoOn DEF ConnectionLost, File
  <2>2. CASE ConnectFails(p)
    <3>1. /\ files' = files /\ key' = key /\ kind' = kind /\ pc[p] # "write"
          /\ crashes' = crashes /\ ioFaults' = ioFaults
          /\ \A q \in Processors \ {p} : pc'[q] = pc[q]
      BY <2>2, LoopErrorTypes DEF ConnectFails, LoopError
    <3>2. LeftTorn' \subseteq LeftTorn
      BY <3>1, PutsGoOn DEF File
    <3> QED
      BY <1>0, <3>1, <3>2
  <2>3. CASE OpenFails(p)
    <3>1. /\ files' = files /\ key' = key /\ pc[p] # "write"
          /\ crashes' = crashes /\ ioFaults' = ioFaults + 1
          /\ \A q \in Processors \ {p} : pc'[q] = pc[q] /\ kind'[q] = kind[q]
      BY <2>3 DEF OpenFails, AfterPut
    <3>2. LeftTorn' \subseteq LeftTorn
      BY <3>1, PutsGoOn DEF File
    <3> QED
      BY <1>0, <3>1, <3>2
  <2>4. ASSUME pc[p] = "write", Crash(p) \/ WriteFails(p) PROVE Costly(File(p)) /\ File(p) \in Names
    <3>1. /\ files' = files /\ key' = key /\ crashes' + ioFaults' = crashes + ioFaults + 1
          /\ \A q \in Processors \ {p} : pc'[q] = pc[q] /\ kind'[q] = kind[q]
      BY <1>0, <2>4 DEF Crash, WriteFails, AfterPut
    <3>2. \A q \in Processors \ {p} : File(q)' = File(q)
      BY <3>1 DEF File
    <3>3. LeftTorn' \subseteq LeftTorn \cup {File(p)}
      BY <3>1, <3>2 DEF LeftTorn
    <3>4. File(p) \in Names
      BY <2>4 DEF File
    <3> QED
      BY <3>1, <3>3, <3>4
  <2>5. ASSUME pc[p] # "write", Crash(p) PROVE Harmless
    <3>1. /\ files' = files /\ key' = key /\ kind' = kind
          /\ crashes' = crashes + 1 /\ ioFaults' = ioFaults
          /\ \A q \in Processors \ {p} : pc'[q] = pc[q]
      BY <2>5 DEF Crash
    <3>2. LeftTorn' \subseteq LeftTorn
      BY <2>5, <3>1, PutsGoOn DEF File
    <3> QED
      BY <1>0, <3>1, <3>2
  <2>6. WriteFails(p) => pc[p] = "write"
    BY DEF WriteFails
  <2> HIDE DEF Harmless, Costly
  <2> QED
    BY <1>4, <2>1, <2>2, <2>3, <2>4, <2>5, <2>6 DEF Fault
<1>5. ASSUME NEW r \in Readers, DashboardStart(r) \/ DashboardStep(r) PROVE Harmless
  BY <1>1, <1>5, DashboardOnlyReads DEF pipeVars
<1>6. ASSUME UNCHANGED vars PROVE Harmless
  BY <1>1, <1>6 DEF vars
<1>7. Harmless => Outcome
  OBVIOUS
<1> HIDE DEF Harmless, Outcome
<1>8. Outcome
  BY <1>2, <1>3, <1>4, <1>5, <1>6, <1>7 DEF Next
<1> QED
  BY <1>8 DEF Harmless, Outcome

\* In every deployment, with any number of processors, lost connections and
\* shared file names, each file that is left truncated has cost a crash or a
\* failed write of its own.
THEOREM TornFilesCostFaults == Spec => []TornCostsFault
<1> DEFINE Inv == IsFiniteSet(LeftTorn) /\ TornCostsFault
<1>1. Init => Inv
  <2> SUFFICES ASSUME Init PROVE Inv
    OBVIOUS
  <2>1. LeftTorn = {}
    BY MarkersAssumption DEF Init, StoreInit, LeftTorn
  <2> QED
    BY <2>1, FS_EmptySet DEF Init, TornCostsFault
<1>2. TypeOK /\ Inv /\ [Next]_vars => Inv'
  <2> SUFFICES ASSUME TypeOK, Inv, [Next]_vars PROVE Inv'
    OBVIOUS
  <2>1. /\ crashes + ioFaults \in Nat /\ Cardinality(LeftTorn) \in Nat
        /\ Cardinality(LeftTorn) <= crashes + ioFaults
    BY FS_CardinalityType DEF TypeOK, TornCostsFault
  <2>2. crashes' + ioFaults' \in Nat
    BY StepTypeOK DEF TypeOK
  <2>3. CASE LeftTorn' \subseteq LeftTorn /\ crashes' + ioFaults' >= crashes + ioFaults
    <3>1. IsFiniteSet(LeftTorn') /\ Cardinality(LeftTorn') <= Cardinality(LeftTorn)
      BY <2>3, FS_Subset
    <3>2. Cardinality(LeftTorn') \in Nat
      BY <3>1, FS_CardinalityType
    <3> QED
      BY <2>1, <2>2, <2>3, <3>1, <3>2 DEF TornCostsFault
  <2>4. ASSUME NEW f \in Names, LeftTorn' \subseteq LeftTorn \cup {f},
               crashes' + ioFaults' = crashes + ioFaults + 1
        PROVE  Inv'
    <3> DEFINE Grown == LeftTorn \cup {f}
    <3>1. /\ IsFiniteSet(Grown)
          /\ Cardinality(Grown) = Cardinality(LeftTorn) \/ Cardinality(Grown) = Cardinality(LeftTorn) + 1
      BY FS_AddElement
    <3>2. IsFiniteSet(LeftTorn') /\ Cardinality(LeftTorn') <= Cardinality(Grown)
      BY <2>4, <3>1, FS_Subset
    <3>3. Cardinality(LeftTorn') \in Nat
      BY <3>2, FS_CardinalityType
    <3> QED
      BY <2>1, <2>2, <2>4, <3>1, <3>2, <3>3, FS_CardinalityType DEF TornCostsFault
  <2> QED
    BY <2>3, <2>4, LeftTornStep
<1> QED
  BY <1>1, <1>2, TypeCorrect, PTL DEF Spec

----------------------------------------------------------------------------
(* The pipeline implements the ledger.                                     *)

\* A message's status changes only with its custody or its files.
LEMMA SameStatus ==
  ASSUME NEW m \in Msgs, UNCHANGED histVars,
         InCustody(m)' <=> InCustody(m),
         ~InCustody(m) => \A kd \in Kinds : Stored(kd, m)' <=> Stored(kd, m)
  PROVE  Status(m)' = Status(m)
<1>1. published' = published /\ rejected' = rejected /\ abandoned' = abandoned
  BY DEF histVars
<1>2. CASE InCustody(m)
  BY <1>1, <1>2 DEF Status
<1>3. CASE ~InCustody(m)
  BY <1>1, <1>3 DEF Status, Wanted
<1> QED
  BY <1>2, <1>3

\* An answer that reaches the broker leaves the other messages as they are.
LEMMA AnswerStatus ==
  ASSUME TypeOK, LinkInv, BrokerInv, NEW p \in Processors, Ack(p) \/ Reject(p),
         NEW m \in Msgs, m # cur[p]
  PROVE  Status(m)' = Status(m)
<1>1. InCustody(m)' <=> InCustody(m)
  BY AnswerCustody
<1>2. /\ published' = published /\ files' = files
      /\ m \in rejected' <=> m \in rejected
      /\ \A kd \in Kinds : <<kd, m>> \in abandoned' <=> <<kd, m>> \in abandoned
  BY DEF Ack, Reject
<1>3. \A kd \in Kinds : Stored(kd, m)' <=> Stored(kd, m)
  BY <1>2 DEF Stored
<1> QED
  BY <1>1, <1>2, <1>3 DEF Status, Wanted

\* Every step of the pipeline is a step of the ledger or leaves it unchanged.
LEMMA LedgerStep ==
  ASSUME SafeDeployment, IndInv, [Next]_vars
  PROVE  [Ledger!Next]_[m \in Msgs |-> Status(m)]
<1> DEFINE status == [m \in Msgs |-> Status(m)]
<1> USE DEF IndInv
<1>1. ASSUME NEW m \in Msgs, Publish(m) PROVE Ledger!Accept(m)
  <2>1. Status(m) = "new"
    BY <1>1 DEF Publish, Status
  <2>2. Status(m)' = "pending"
    BY <1>1 DEF Publish, Status, InCustody
  <2>3. \A w \in Msgs \ {m} : Status(w)' = Status(w)
    BY <1>1 DEF Publish, Status, InCustody, Stored, Wanted
  <2> QED
    BY <2>1, <2>2, <2>3 DEF Ledger!Accept
<1>2. ASSUME NEW p \in Processors, Ack(p) \/ Reject(p) PROVE Ledger!Settle(cur[p])
  <2> DEFINE m == cur[p]
  <2>1. m \in Msgs /\ InCustody(m) /\ m \in published
    BY <1>2, BusyCustody DEF Ack, Reject, Busy, TypeOK, BrokerInv
  <2>2. Status(m) = "pending"
    BY <2>1 DEF Status
  <2>3. PICK w \in Msgs : w = cur[p]
    BY <2>1
  <2>4. ~InCustody(w)'
    BY <1>2, <2>3, AnswerCustody
  <2>5. Status(w)' \in Ledger!Outcomes(w)
    <3>1. CASE Ack(p)
      <4>1. w \notin Malformed /\ w \notin rejected' /\ w \in published'
        BY <2>1, <2>3, <3>1 DEF Ack, JobInv, BrokerInv
      <4>2. \A kd \in Wanted(w) : Stored(kd, w)' \/ <<kd, w>> \in abandoned'
        BY <2>3, <3>1, AckOutcome
      <4> QED
        BY <2>4, <4>1, <4>2 DEF Status, Wanted, Ledger!Outcomes
    <3>2. CASE Reject(p)
      BY <2>1, <2>3, <2>4, <3>2 DEF Reject, Status, Ledger!Outcomes
    <3> QED
      BY <1>2, <3>1, <3>2
  <2>6. \A x \in Msgs \ {w} : Status(x)' = Status(x)
    BY <1>2, <2>3, AnswerStatus
  <2>7. status' = [status EXCEPT ![w] = Status(w)']
    BY <2>6
  <2> QED
    BY <2>2, <2>3, <2>5, <2>7 DEF Ledger!Settle
<1>3. CASE /\ UNCHANGED histVars
           /\ \A m \in Msgs :
                /\ InCustody(m)' <=> InCustody(m)
                /\ ~InCustody(m) => \A kd \in Kinds : Stored(kd, m)' <=> Stored(kd, m)
  <2>1. \A m \in Msgs : Status(m)' = Status(m)
    BY <1>3, SameStatus
  <2> QED
    BY <2>1
<1>4. ASSUME NEW p \in Processors, Ack(p) \/ Reject(p) PROVE cur[p] \in Msgs
  BY <1>4 DEF Ack, Reject, Busy, TypeOK
<1> QED
  BY <1>1, <1>2, <1>3, <1>4, MessageStep DEF Ledger!Next

\* The pipeline implements the ledger in every safe deployment: whatever
\* processors, connections and disks do, a message is settled once and for good,
\* and never lost.
THEOREM ImplementsLedger == ASSUME SafeDeployment PROVE Spec => LedgerSpec
<1>1. Init => Ledger!Init
  BY DEF Init, Ledger!Init, Status
<1>2. IndInv /\ [Next]_vars => [Ledger!Next]_[m \in Msgs |-> Status(m)]
  BY LedgerStep
<1> QED
  BY <1>1, <1>2, Invariance, PTL DEF Spec, LedgerSpec, Ledger!Spec
=============================================================================
