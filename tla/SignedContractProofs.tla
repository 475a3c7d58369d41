------------------------ MODULE SignedContractProofs ------------------------
(***************************************************************************)
(* Theorems of SignedContract for any workers, replicas, faults and bound. *)
(***************************************************************************)
EXTENDS SignedContract, WellFoundedInduction, TLAPS

(***************************************************************************)
(* The operators the model is built from                                   *)
(***************************************************************************)

\* The fields of an operation, by the point it has reached.
LEMMA OperationFields ==
    ASSUME NEW o \in Operation
    PROVE  /\ o = Idle <=> o.at = "idle"
           /\ o.at = "queueing" => o.linked \in BOOLEAN
           /\ o.at = "reporting" => o.stage \in Stage /\ o.completes \in BOOLEAN
           /\ o.at \in {"deleting", "sending"} => o.contract \in Contracts
  BY DEF Operation, Idle

\* Every operation the actions build is one.
LEMMA OperationBuilt ==
    /\ Idle \in Operation
    /\ \A p \in {"uploaded", "reopening", "listing", "claiming", "reading", "synced", "failing"} :
        [at |-> p] \in Operation
    /\ \A b \in BOOLEAN : [at |-> "queueing", linked |-> b] \in Operation
    /\ \A s \in Stage, c \in BOOLEAN :
        [at |-> "reporting", completes |-> c, stage |-> s] \in Operation
    /\ \A p \in {"deleting", "sending"}, c \in Contracts :
        [at |-> p, contract |-> c] \in Operation
  BY DEF Operation

\* Max names the greatest contract: what the others lack to the bound is well
\* founded, so there is a contract that lacks least.
LEMMA LatestExists ==
    ASSUME NEW S \in SUBSET Contracts, S # {}
    PROVE  Max(S) \in S /\ \A c \in S : c <= Max(S)
<1>1. MaxContracts \in Nat /\ S \subseteq 1 .. MaxContracts
  BY SignedContractAssumption DEF Contracts
<1>2. \A c \in S : c \in Nat /\ MaxContracts - c \in Nat
  BY <1>1
<1> DEFINE Missing == {MaxContracts - c : c \in S}
<1>3. Missing \subseteq Nat /\ Missing # {}
  <2>1. PICK c \in S : TRUE
    OBVIOUS
  <2>2. MaxContracts - c \in Missing
    BY <2>1
  <2>3. \A x \in Missing : x \in Nat
    BY <1>2
  <2> QED
    BY <2>2, <2>3
<1>4. PICK x \in Missing : \A y \in Missing : ~(<<y, x>> \in OpToRel(<, Nat))
  <2> HIDE DEF Missing
  <2> QED
    BY <1>3, NatLessThanWellFounded, WFMin
<1>5. PICK m \in S : x = MaxContracts - m
  BY <1>4
<1>6. \A c \in S : c <= m
  <2> SUFFICES ASSUME NEW c \in S, ~(c <= m)
               PROVE  FALSE
    OBVIOUS
  <2>1. MaxContracts - c < x /\ MaxContracts - c \in Nat /\ x \in Nat
    BY <1>1, <1>2, <1>5
  <2>2. MaxContracts - c \in Missing
    OBVIOUS
  <2>3. <<MaxContracts - c, x>> \in OpToRel(<, Nat)
    BY <2>1 DEF OpToRel
  <2> QED
    BY <1>4, <2>2, <2>3
<1>7. \E n \in S : \A c \in S : n >= c
  BY <1>6, <1>2
<1> QED
  BY <1>7, <1>2 DEF Max

\* An operation goes on; the others are where they were.
LEMMA Continued ==
    ASSUME TypeOK, NEW w \in Actors, NEW o \in Operation, Continue(w, o)
    PROVE  /\ op' \in [Actors -> Operation]
           /\ op'[w] = o
           /\ \A v \in Actors \ {w} : op'[v] = op[v]
  BY DEF TypeOK, Continue

\* Nothing takes an announcement back.
LEMMA AnnouncedGrows ==
    ASSUME Next
    PROVE  announced \subseteq announced'
<1>1. ASSUME NEW w \in Workers, Request(w)
      PROVE  announced' = announced
  BY <1>1 DEF Request, uploadFile, deleteDocument, receiveReport, reopen
<1>2. ASSUME NEW w \in Actors, Proceed(w)
      PROVE  announced \subseteq announced'
  BY <1>2 DEF Proceed, ReadSale, queueSignedContract, DeleteRow, applySaleCallback, Reopen,
    List, Claim, ReadLatest, updateSaleStage, MarkSynced, MarkRetry
<1>3. ASSUME NEW p \in Replicas, processTaskSyncQueue(p) \/ NotDueYet(p)
      PROVE  announced' = announced
  BY <1>3 DEF processTaskSyncQueue, NotDueYet
<1>4. ASSUME NEW p \in Replicas, StageFails(p)
      PROVE  announced \subseteq announced'
  BY <1>4 DEF StageFails
<1>5. CASE Link
  BY <1>5 DEF Link
<1>6. ASSUME NEW w \in Actors, Crash(w)
      PROVE  announced' = announced
  BY <1>6 DEF Crash
<1>7. ASSUME NEW w \in Workers, ReceiveContract(w)
      PROVE  announced' = announced
  BY <1>7 DEF ReceiveContract
<1> QED
  BY <1>1, <1>2, <1>3, <1>4, <1>5, <1>6, <1>7 DEF Next, Step, Fault

(***************************************************************************)
(* Type correctness                                                        *)
(***************************************************************************)

LEMMA TypeInit == Init => TypeOK
<1> SUFFICES ASSUME Init
             PROVE  TypeOK
  OBVIOUS
<1>1. op \in [Actors -> Operation]
  BY OperationBuilt DEF Init
<1>2. stage \in Stage /\ sync \in SyncState /\ uploads \in 0 .. MaxContracts
  BY SignedContractAssumption DEF Init, Stage, SyncState
<1> QED
  BY <1>1, <1>2 DEF Init, TypeOK

\* The requests and the half of the queue that the panel shows.
LEMMA TypeRequest ==
    ASSUME TypeOK, NEW w \in Actors, Request(w)
    PROVE  TypeOK'
<1> USE DEF documents, row
<1>1. CASE uploadFile(w)
  <2>1. uploads' \in 0 .. MaxContracts /\ uploads' \in Contracts
    BY <1>1, SignedContractAssumption DEF uploadFile, TypeOK, Contracts
  <2>2. op' \in [Actors -> Operation]
    BY <1>1, OperationBuilt, Continued DEF uploadFile, Goto
  <2> QED
    BY <1>1, <2>1, <2>2 DEF uploadFile, TypeOK
<1>2. CASE deleteDocument(w)
  <2>1. PICK c \in contracts : Continue(w, [at |-> "deleting", contract |-> c])
    BY <1>2 DEF deleteDocument
  <2>2. op' \in [Actors -> Operation]
    BY <2>1, OperationBuilt, Continued DEF TypeOK
  <2> QED
    BY <1>2, <2>2 DEF deleteDocument, TypeOK
<1>3. CASE receiveReport(w)
  <2>1. PICK concluded \in BOOLEAN :
          Continue(w, [at |-> "reporting", completes |-> concluded /\ ~Closed,
                       stage |-> StageOf(concluded)])
    BY <1>3 DEF receiveReport
  <2>2. StageOf(concluded) \in Stage /\ (concluded /\ ~Closed) \in BOOLEAN
    BY DEF StageOf, Stage, TypeOK
  <2>3. op' \in [Actors -> Operation]
    BY <2>1, <2>2, OperationBuilt, Continued
  <2> QED
    BY <1>3, <2>3 DEF receiveReport, TypeOK
<1>4. CASE reopen(w)
  <2>1. op' \in [Actors -> Operation]
    BY <1>4, OperationBuilt, Continued DEF reopen, Goto
  <2> QED
    BY <1>4, <2>1 DEF reopen, TypeOK
<1> QED
  BY <1>1, <1>2, <1>3, <1>4 DEF Request

LEMMA TypeProceed ==
    ASSUME TypeOK, NEW w \in Actors, Proceed(w)
    PROVE  TypeOK'
<1> USE DEF documents, row
<1>1. op[w] \in Operation
  BY DEF TypeOK
<1>2. CASE ReadSale(w)
  <2>1. op' \in [Actors -> Operation]
    BY <1>2, OperationBuilt, Continued DEF ReadSale, TypeOK
  <2> QED
    BY <1>2, <2>1 DEF ReadSale, TypeOK
<1>3. CASE queueSignedContract(w)
  <2>1. op' \in [Actors -> Operation]
    BY <1>3, OperationBuilt, Continued DEF queueSignedContract, Done
  <2> QED
    BY <1>3, <2>1 DEF queueSignedContract, TypeOK, Stage, SyncState, Claimable
<1>4. CASE DeleteRow(w)
  <2>1. op' \in [Actors -> Operation]
    BY <1>4, OperationBuilt, Continued DEF DeleteRow, Done
  <2> QED
    BY <1>4, <2>1 DEF DeleteRow, TypeOK
<1>5. CASE applySaleCallback(w)
  <2>1. op' \in [Actors -> Operation]
    BY <1>5, OperationBuilt, Continued DEF applySaleCallback, Done
  <2>2. op[w].stage \in Stage /\ op[w].completes \in BOOLEAN
    BY <1>1, <1>5, OperationFields DEF applySaleCallback, At
  <2> QED
    BY <1>5, <2>1, <2>2 DEF applySaleCallback, TypeOK
<1>6. CASE Reopen(w)
  <2>1. op' \in [Actors -> Operation]
    BY <1>6, OperationBuilt, Continued DEF Reopen, Done
  <2> QED
    BY <1>6, <2>1 DEF Reopen, TypeOK, Stage
<1>7. CASE List(w)
  <2>1. op' \in [Actors -> Operation]
    BY <1>7, OperationBuilt, Continued DEF List, Goto, Done
  <2> QED
    BY <1>7, <2>1 DEF List, TypeOK
<1>8. CASE Claim(w)
  <2>1. op' \in [Actors -> Operation]
    BY <1>8, OperationBuilt, Continued DEF Claim, Goto, Done
  <2> QED
    BY <1>8, <2>1 DEF Claim, TypeOK, SyncState
<1>9. CASE ReadLatest(w)
  <2>1. contracts # {} => Latest \in Contracts
    BY LatestExists DEF TypeOK, Latest
  <2>2. op' \in [Actors -> Operation]
    BY <1>9, <2>1, OperationBuilt, Continued DEF ReadLatest, Done
  <2> QED
    BY <1>9, <2>2 DEF ReadLatest, TypeOK
<1>10. CASE updateSaleStage(w)
  <2>1. op' \in [Actors -> Operation]
    BY <1>10, OperationBuilt, Continued DEF updateSaleStage, Goto
  <2>2. op[w].contract \in Contracts
    BY <1>1, <1>10, OperationFields DEF updateSaleStage, At
  <2> QED
    BY <1>10, <2>1, <2>2 DEF updateSaleStage, TypeOK
<1>11. CASE MarkSynced(w) \/ MarkRetry(w)
  <2>1. op' \in [Actors -> Operation]
    BY <1>11, OperationBuilt, Continued DEF MarkSynced, MarkRetry, Done
  <2> QED
    BY <1>11, <2>1 DEF MarkSynced, MarkRetry, TypeOK, SyncState, Claimable
<1> QED
  BY <1>2, <1>3, <1>4, <1>5, <1>6, <1>7, <1>8, <1>9, <1>10, <1>11 DEF Proceed

LEMMA TypeNext == TypeOK /\ [Next]_vars => TypeOK'
<1> SUFFICES ASSUME TypeOK, [Next]_vars
             PROVE  TypeOK'
  OBVIOUS
<1> USE DEF documents, row
<1>1. ASSUME NEW w \in Workers, Request(w)
      PROVE  TypeOK'
  BY <1>1, TypeRequest DEF Actors
<1>2. ASSUME NEW w \in Actors, Proceed(w)
      PROVE  TypeOK'
  BY <1>2, TypeProceed
<1>3. ASSUME NEW p \in Replicas, processTaskSyncQueue(p) \/ NotDueYet(p)
      PROVE  TypeOK'
  <2>1. op' \in [Actors -> Operation]
    BY <1>3, OperationBuilt, Continued
    DEF processTaskSyncQueue, NotDueYet, Goto, Done, Actors
  <2> QED
    BY <1>3, <2>1
    DEF processTaskSyncQueue, NotDueYet, ResetClaims, TypeOK, SyncState, Claimable
<1>4. ASSUME NEW p \in Replicas, StageFails(p)
      PROVE  TypeOK'
  <2>1. op' \in [Actors -> Operation]
    BY <1>4, OperationBuilt, Continued DEF StageFails, Goto, Actors
  <2>2. op[p].contract \in Contracts
    BY <1>4, OperationFields DEF StageFails, At, TypeOK, Actors
  <2> QED
    BY <1>4, <2>1, <2>2 DEF StageFails, TypeOK
<1>5. ASSUME NEW w \in Actors, Crash(w)
      PROVE  TypeOK'
  <2>1. op' \in [Actors -> Operation]
    BY <1>5, OperationBuilt, Continued DEF Crash, Done
  <2> QED
    BY <1>5, <2>1 DEF Crash, TypeOK
<1>6. CASE Link
  BY <1>6 DEF Link, TypeOK
<1>7. ASSUME NEW w \in Workers, ReceiveContract(w)
      PROVE  TypeOK'
  <2>1. uploads' \in 0 .. MaxContracts /\ uploads' \in Contracts
    BY <1>7, SignedContractAssumption DEF ReceiveContract, TypeOK, Contracts
  <2> QED
    BY <1>7, <2>1 DEF ReceiveContract, TypeOK
<1>8. CASE UNCHANGED vars
  BY <1>8 DEF vars, TypeOK
<1> QED
  BY <1>1, <1>2, <1>3, <1>4, <1>5, <1>6, <1>7, <1>8 DEF Next, Step, Fault

\* Whatever the requests, the reports and the runs of the queue do, the variables
\* of SignedContract keep their types: the queue sends a contract that there was.
THEOREM ContractTypeCorrect == Spec => []TypeOK
  BY TypeInit, TypeNext, PTL DEF Spec

(***************************************************************************)
(* What shows as sent was announced                                        *)
(***************************************************************************)

\* The run that is about to write SYNCED has announced a contract.
AnnouncedInv ==
    /\ SyncedWasAnnounced
    /\ \A w \in Actors : At(w, "synced") => announced # {}

\* It is enough that the worker that moved kept to it.
LEMMA AnnouncedStep ==
    ASSUME TypeOK, AnnouncedInv, announced \subseteq announced',
           NEW w \in Actors, NEW o \in Operation, Continue(w, o),
           o.at = "synced" => announced' # {},
           sync' # "SYNCED" \/ sync = "SYNCED" \/ At(w, "synced")
    PROVE  AnnouncedInv'
<1>1. announced # {} => announced' # {}
  OBVIOUS
<1>2. SyncedWasAnnounced'
  BY <1>1 DEF AnnouncedInv, SyncedWasAnnounced
<1>3. ASSUME NEW v \in Actors, At(v, "synced")'
      PROVE  announced' # {}
  BY <1>1, <1>3, Continued DEF AnnouncedInv, At
<1> QED
  BY <1>2, <1>3 DEF AnnouncedInv

LEMMA AnnouncedInit == Init => AnnouncedInv
  BY DEF Init, AnnouncedInv, SyncedWasAnnounced, At, Idle

LEMMA AnnouncedNext == TypeOK /\ AnnouncedInv /\ [Next]_vars => AnnouncedInv'
<1> SUFFICES ASSUME TypeOK, AnnouncedInv, [Next]_vars
             PROVE  AnnouncedInv'
  OBVIOUS
<1>1. CASE UNCHANGED vars
  BY <1>1 DEF vars, AnnouncedInv, SyncedWasAnnounced, At, row
<1>2. CASE Next
  <2> announced \subseteq announced'
    BY <1>2, AnnouncedGrows
  <2> USE OperationBuilt DEF Goto, Done, row
  <2>1. ASSUME NEW w \in Actors, NEW p \in {"uploaded", "reopening", "listing", "claiming",
                                           "reading", "failing"},
               Goto(w, p), sync' # "SYNCED" \/ sync' = sync
        PROVE  AnnouncedInv'
    <3>1. [at |-> p] \in Operation /\ [at |-> p].at # "synced"
      BY <2>1
    <3> QED
      BY <2>1, <3>1, AnnouncedStep
  <2>2. ASSUME NEW w \in Actors, Done(w),
               sync' # "SYNCED" \/ sync' = sync \/ At(w, "synced")
        PROVE  AnnouncedInv'
    <3>1. Idle \in Operation /\ Idle.at # "synced"
      BY DEF Idle
    <3> QED
      BY <2>2, <3>1, AnnouncedStep
  <2>3. ASSUME NEW w \in Workers, Request(w)
        PROVE  AnnouncedInv'
    <3> USE <2>3 DEF Actors
    <3>1. CASE uploadFile(w) \/ reopen(w)
      BY <2>1, <3>1 DEF uploadFile, reopen
    <3>2. CASE deleteDocument(w)
      <4>1. PICK c \in contracts : Continue(w, [at |-> "deleting", contract |-> c])
        BY <3>2 DEF deleteDocument
      <4>2. c \in Contracts
        BY DEF TypeOK
      <4> QED
        BY <3>2, <4>1, <4>2, AnnouncedStep DEF deleteDocument
    <3>3. CASE receiveReport(w)
      <4>1. PICK b \in BOOLEAN :
              Continue(w, [at |-> "reporting", completes |-> b /\ ~Closed, stage |-> StageOf(b)])
        BY <3>3 DEF receiveReport
      <4>2. StageOf(b) \in Stage /\ (b /\ ~Closed) \in BOOLEAN
        BY DEF StageOf, Stage, TypeOK
      <4> QED
        BY <3>3, <4>1, <4>2, AnnouncedStep DEF receiveReport
    <3> QED
      BY <3>1, <3>2, <3>3 DEF Request
  <2>4. ASSUME NEW w \in Actors, Proceed(w)
        PROVE  AnnouncedInv'
    <3> USE <2>4
    <3>1. CASE ReadSale(w)
      BY <3>1, AnnouncedStep DEF ReadSale, TypeOK
    <3>2. CASE queueSignedContract(w) \/ DeleteRow(w) \/ applySaleCallback(w) \/ Reopen(w)
      BY <2>2, <3>2 DEF queueSignedContract, DeleteRow, applySaleCallback, Reopen
    <3>3. CASE List(w) \/ Claim(w)
      BY <2>1, <2>2, <3>3 DEF List, Claim
    <3>4. CASE ReadLatest(w)
      <4>1. CASE contracts = {}
        BY <2>2, <3>4, <4>1 DEF ReadLatest
      <4>2. CASE contracts # {}
        <5>1. Latest \in Contracts
          BY <4>2, LatestExists DEF TypeOK, Latest
        <5> QED
          BY <3>4, <4>2, <5>1, AnnouncedStep DEF ReadLatest
      <4> QED
        BY <4>1, <4>2
    <3>5. CASE updateSaleStage(w)
      BY <3>5, AnnouncedStep DEF updateSaleStage
    <3>6. CASE MarkSynced(w) \/ MarkRetry(w)
      BY <2>2, <3>6 DEF MarkSynced, MarkRetry
    <3> QED
      BY <3>1, <3>2, <3>3, <3>4, <3>5, <3>6 DEF Proceed
  <2>5. ASSUME NEW p \in Replicas, processTaskSyncQueue(p) \/ NotDueYet(p) \/ StageFails(p)
        PROVE  AnnouncedInv'
    BY <2>1, <2>2, <2>5 DEF processTaskSyncQueue, NotDueYet, StageFails, ResetClaims, Actors
  <2>6. ASSUME NEW w \in Actors, Crash(w)
        PROVE  AnnouncedInv'
    BY <2>2, <2>6 DEF Crash
  <2>7. CASE Link
    BY <2>7 DEF Link, AnnouncedInv, SyncedWasAnnounced, At
  <2>8. ASSUME NEW w \in Workers, ReceiveContract(w)
        PROVE  AnnouncedInv'
    BY <2>8 DEF ReceiveContract, AnnouncedInv, SyncedWasAnnounced, At
  <2> QED
    BY <1>2, <2>3, <2>4, <2>5, <2>6, <2>7, <2>8 DEF Next, Step, Fault
<1> QED
  BY <1>1, <1>2

\* Whatever overlaps, fails or crashes, a contract shows as sent only if one was
\* announced to the Task: a run writes SYNCED after its own announcement alone.
THEOREM SentIsAnnounced == Spec => []SyncedWasAnnounced
<1>1. AnnouncedInv => SyncedWasAnnounced
  BY DEF AnnouncedInv
<1> QED
  BY TypeInit, TypeNext, AnnouncedInit, AnnouncedNext, <1>1, PTL DEF Spec

(***************************************************************************)
(* Without overlap and crashes the latest contract is announced            *)
(***************************************************************************)

Covered == \A c \in contracts \ received : \E a \in announced : c <= a

\* The upload under way queues its contract yet.
Uploads(o) == o.at \in {"uploaded", "queueing"}

\* What an operation has read or done is still so when nothing else runs: a run
\* works on a linked sale, an upload queues a contract that shows as sent, no
\* contract is later than the one being sent, and all are covered once it was.
Knows(o) ==
    /\ o.at \in {"claiming", "reading", "sending", "synced"} => linked
    /\ o.at = "queueing" /\ sync = "SYNCED" => o.linked
    /\ o.at = "sending" => \A c \in contracts : c <= o.contract
    /\ o.at = "synced" => Covered

\* While an upload of a sale that shows as sent is under way, the queue waits.
Serial ==
    /\ \A v, w \in Actors : v = w \/ Free(v) \/ Free(w)
    /\ sync = "SYNCED" => linked
    /\ \A w \in Actors : Knows(op[w])
    /\ sync = "SYNCED" => Covered \/ \E w \in Actors : Uploads(op[w])

SerialInv == Without({"overlap", "crash"}) => Serial

\* A step of the one worker there is: what holds of its own operation holds.
LEMMA SerialStep ==
    ASSUME TypeOK, Serial, NEW w \in Actors, NEW o \in Operation, Continue(w, o),
           ~Free(w) \/ \A v \in Actors : Free(v),
           (sync = "SYNCED" => linked)', Knows(o)',
           sync' = "SYNCED" => Covered' \/ Uploads(o)
    PROVE  Serial'
<1>1. \A v \in Actors \ {w} : op'[v] = Idle
  BY Continued DEF Serial, Free
<1>2. op'[w] = o
  BY Continued
<1>3. \A v, u \in Actors : v = u \/ Free(v)' \/ Free(u)'
  BY <1>1 DEF Free
<1>4. \A v \in Actors : Knows(op[v])'
  BY <1>1, <1>2 DEF Knows, Idle
<1>5. (sync = "SYNCED" => Covered \/ \E v \in Actors : Uploads(op[v]))'
  BY <1>2
<1> QED
  BY <1>3, <1>4, <1>5 DEF Serial

LEMMA SerialInit == Init => SerialInv
  BY DEF Init, SerialInv, Serial, Free, Knows, Idle

LEMMA SerialRequest ==
    ASSUME TypeOK, Serial, Without({"overlap", "crash"}), NEW w \in Workers, Request(w)
    PROVE  Serial'
<1> w \in Actors /\ \A v \in Actors : Free(v)
  BY DEF Actors, Request, uploadFile, deleteDocument, receiveReport, reopen, Ready, Without
<1>1. sync = "SYNCED" => Covered
  BY DEF Serial, Uploads, Free, Idle
<1>2. CASE uploadFile(w)
  <2>1. Knows([at |-> "uploaded"])'
    BY DEF Knows
  <2>2. (sync = "SYNCED" => linked)'
    BY <1>2 DEF Serial, uploadFile, row
  <2> QED
    BY <1>2, <2>1, <2>2, OperationBuilt, SerialStep DEF uploadFile, Goto, Uploads
<1>3. CASE deleteDocument(w)
  <2>1. PICK c \in contracts : Continue(w, [at |-> "deleting", contract |-> c])
    BY <1>3 DEF deleteDocument
  <2>2. Knows([at |-> "deleting", contract |-> c])'
    BY DEF Knows
  <2>3. c \in Contracts
    BY DEF TypeOK
  <2>4. (sync = "SYNCED" => linked)' /\ (sync = "SYNCED" => Covered)'
    BY <1>1, <1>3 DEF Serial, deleteDocument, row, documents, Covered
  <2> QED
    BY <2>1, <2>2, <2>3, <2>4, OperationBuilt, SerialStep
<1>4. CASE receiveReport(w)
  <2>1. PICK b \in BOOLEAN :
          Continue(w, [at |-> "reporting", completes |-> b /\ ~Closed, stage |-> StageOf(b)])
    BY <1>4 DEF receiveReport
  <2>2. PICK c \in BOOLEAN, s \in Stage : c = (b /\ ~Closed) /\ s = StageOf(b)
    BY DEF StageOf, Stage, TypeOK
  <2>3. Knows([at |-> "reporting", completes |-> c, stage |-> s])'
    BY DEF Knows
  <2>4. (sync = "SYNCED" => linked)' /\ (sync = "SYNCED" => Covered)'
    BY <1>1, <1>4 DEF Serial, receiveReport, row, documents, Covered
  <2> QED
    BY <2>1, <2>2, <2>3, <2>4, OperationBuilt, SerialStep
<1>5. CASE reopen(w)
  <2>1. Knows([at |-> "reopening"])'
    BY DEF Knows
  <2>2. (sync = "SYNCED" => linked)' /\ (sync = "SYNCED" => Covered)'
    BY <1>1, <1>5 DEF Serial, reopen, row, documents, Covered
  <2> QED
    BY <1>5, <2>1, <2>2, OperationBuilt, SerialStep DEF reopen, Goto
<1> QED
  BY <1>2, <1>3, <1>4, <1>5 DEF Request

LEMMA SerialProceed ==
    ASSUME TypeOK, Serial, NEW w \in Actors, Proceed(w)
    PROVE  Serial'
<1>1. ~Free(w) /\ op[w] \in Operation /\ Knows(op[w]) /\ (sync = "SYNCED" => linked)
  BY DEF Proceed, ReadSale, queueSignedContract, DeleteRow, applySaleCallback, Reopen, List,
    Claim, ReadLatest, updateSaleStage, MarkSynced, MarkRetry, At, Free, Idle, TypeOK, Serial
<1>2. sync = "SYNCED" => Covered \/ Uploads(op[w])
  <2>1. \A v \in Actors \ {w} : ~Uploads(op[v])
    BY <1>1 DEF Serial, Free, Idle, Uploads
  <2> QED
    BY <2>1 DEF Serial
<1>3. Idle \in Operation /\ Knows(Idle)'
  BY OperationBuilt DEF Knows, Idle
<1>4. CASE ReadSale(w)
  <2>1. PICK b \in BOOLEAN : b = linked
    BY DEF TypeOK
  <2>2. Knows([at |-> "queueing", linked |-> b])'
    BY <1>1, <1>4, <2>1 DEF Knows, ReadSale, row
  <2>3. (sync = "SYNCED" => linked)'
    BY <1>1, <1>4 DEF ReadSale, row
  <2> QED
    BY <1>1, <1>4, <2>1, <2>2, <2>3, OperationBuilt, SerialStep DEF ReadSale, Uploads
<1>5. CASE queueSignedContract(w)
  <2>1. sync' # "SYNCED"
    BY <1>1, <1>5 DEF queueSignedContract, At, Knows
  <2> QED
    BY <1>1, <1>3, <1>5, <2>1, SerialStep DEF queueSignedContract, Done
<1>6. CASE DeleteRow(w)
  <2>1. (sync = "SYNCED" => linked)' /\ (sync = "SYNCED" => Covered)'
    BY <1>1, <1>2, <1>6 DEF DeleteRow, row, Covered, At, Uploads
  <2> QED
    BY <1>1, <1>3, <1>6, <2>1, SerialStep DEF DeleteRow, Done
<1>7. CASE applySaleCallback(w)
  <2>1. (sync = "SYNCED" => linked)' /\ (sync = "SYNCED" => Covered)'
    BY <1>1, <1>2, <1>7 DEF applySaleCallback, documents, Covered, At, Uploads
  <2> QED
    BY <1>1, <1>3, <1>7, <2>1, SerialStep DEF applySaleCallback, Done
<1>8. CASE Reopen(w)
  <2>1. (sync = "SYNCED" => linked)' /\ (sync = "SYNCED" => Covered)'
    BY <1>1, <1>2, <1>8 DEF Reopen, documents, Covered, At, Uploads
  <2> QED
    BY <1>1, <1>3, <1>8, <2>1, SerialStep DEF Reopen, Done
<1>9. CASE List(w)
  <2>1. (sync = "SYNCED" => linked)' /\ (sync = "SYNCED" => Covered)'
    BY <1>1, <1>2, <1>9 DEF List, row, documents, Covered, At, Uploads
  <2>2. Due => Knows([at |-> "claiming"])'
    BY <1>9 DEF Knows, Due, List, row
  <2> QED
    BY <1>1, <1>3, <1>9, <2>1, <2>2, OperationBuilt, SerialStep DEF List, Goto, Done
<1>10. CASE Claim(w)
  <2>1. (sync = "SYNCED" => linked)' /\ (sync = "SYNCED" => Covered)'
    BY <1>1, <1>2, <1>10 DEF Claim, documents, Covered, At, Uploads
  <2>2. Due => Knows([at |-> "reading"])'
    BY <1>10 DEF Knows, Due, Claim
  <2> QED
    BY <1>1, <1>3, <1>10, <2>1, <2>2, OperationBuilt, SerialStep DEF Claim, Goto, Done
<1>11. CASE ReadLatest(w)
  <2>1. (sync = "SYNCED" => linked)' /\ (sync = "SYNCED" => Covered)'
    BY <1>1, <1>2, <1>11 DEF ReadLatest, row, documents, Covered, At, Uploads
  <2>2. CASE contracts = {}
    BY <1>1, <1>3, <1>11, <2>1, <2>2, SerialStep DEF ReadLatest, Done
  <2>3. CASE contracts # {}
    <3>1. PICK c \in Contracts : c = Latest /\ \A d \in contracts : d <= c
      BY <2>3, LatestExists DEF Latest, TypeOK
    <3>2. Knows([at |-> "sending", contract |-> c])'
      BY <1>1, <1>11, <3>1 DEF Knows, ReadLatest, row, documents, At
    <3> QED
      BY <1>1, <1>11, <2>1, <2>3, <3>1, <3>2, OperationBuilt, SerialStep DEF ReadLatest
  <2> QED
    BY <2>2, <2>3
<1>12. CASE updateSaleStage(w)
  <2>1. \A c \in contracts : c <= op[w].contract
    BY <1>1, <1>12 DEF updateSaleStage, At, Knows
  <2>2. Covered' /\ (sync = "SYNCED" => linked)' /\ linked'
    BY <1>1, <1>12, <2>1 DEF updateSaleStage, row, documents, Covered, At, Knows
  <2>3. Knows([at |-> "synced"])'
    BY <2>2 DEF Knows
  <2> QED
    BY <1>1, <1>12, <2>2, <2>3, OperationBuilt, SerialStep DEF updateSaleStage, Goto
<1>13. CASE MarkSynced(w)
  <2>1. Covered' /\ linked'
    BY <1>1, <1>13 DEF MarkSynced, documents, Covered, At, Knows
  <2> QED
    BY <1>1, <1>3, <1>13, <2>1, SerialStep DEF MarkSynced, Done
<1>14. CASE MarkRetry(w)
  <2>1. sync' # "SYNCED"
    BY <1>14 DEF MarkRetry
  <2> QED
    BY <1>1, <1>3, <1>14, <2>1, SerialStep DEF MarkRetry, Done
<1> QED
  BY <1>4, <1>5, <1>6, <1>7, <1>8, <1>9, <1>10, <1>11, <1>12, <1>13, <1>14 DEF Proceed

LEMMA SerialQueue ==
    ASSUME TypeOK, Serial, Without({"overlap", "crash"}), NEW p \in Replicas,
           processTaskSyncQueue(p) \/ NotDueYet(p) \/ StageFails(p)
    PROVE  Serial'
<1> p \in Actors
  BY DEF Actors
<1>1. Idle \in Operation /\ Knows(Idle)'
  BY OperationBuilt DEF Knows, Idle
<1>2. CASE processTaskSyncQueue(p)
  <2>1. \A v \in Actors : Free(v)
    BY <1>2 DEF processTaskSyncQueue, Ready, Without
  <2>2. sync' = "SYNCED" => sync = "SYNCED"
    BY <1>2 DEF processTaskSyncQueue, ResetClaims
  <2>3. (sync = "SYNCED" => linked)' /\ (sync = "SYNCED" => Covered)'
    BY <1>2, <2>1, <2>2 DEF processTaskSyncQueue, documents, Serial, Covered, Uploads, Free, Idle
  <2>4. Knows([at |-> "listing"])'
    BY DEF Knows
  <2> QED
    BY <1>2, <2>1, <2>3, <2>4, OperationBuilt, SerialStep DEF processTaskSyncQueue, Goto
<1>3. CASE NotDueYet(p)
  <2>1. ~Free(p) /\ sync' # "SYNCED"
    BY <1>3 DEF NotDueYet, At, Free, Idle, row
  <2> QED
    BY <1>1, <1>3, <2>1, SerialStep DEF NotDueYet, Done
<1>4. CASE StageFails(p)
  <2>1. ~Free(p) /\ \A v \in Actors : ~Uploads(op[v])
    BY <1>4 DEF StageFails, At, Serial, Free, Idle, Uploads
  <2>2. (sync = "SYNCED" => linked)' /\ (sync = "SYNCED" => Covered)'
    BY <1>4, <2>1 DEF StageFails, row, documents, Serial, Covered
  <2>3. Knows([at |-> "failing"])'
    BY DEF Knows
  <2> QED
    BY <1>4, <2>1, <2>2, <2>3, OperationBuilt, SerialStep DEF StageFails, Goto
<1> QED
  BY <1>2, <1>3, <1>4

LEMMA SerialNext == TypeOK /\ SerialInv /\ [Next]_vars => SerialInv'
<1> SUFFICES ASSUME TypeOK, SerialInv, [Next]_vars, Without({"overlap", "crash"})'
             PROVE  Serial'
  BY DEF SerialInv
<1>1. weather' = weather
  BY DEF Next, Step, Fault, Request, Proceed, Link, uploadFile, deleteDocument,
    receiveReport, reopen, ReadSale, queueSignedContract, DeleteRow, ReceiveContract,
    applySaleCallback, Reopen, processTaskSyncQueue, List, NotDueYet, Claim, ReadLatest, updateSaleStage,
    StageFails, MarkSynced, MarkRetry, Crash, vars
<1>2. Without({"overlap", "crash"}) /\ Serial
  BY <1>1 DEF Without, SerialInv
<1>3. CASE Link
  <2>1. sync # "SYNCED" /\ sync' # "SYNCED"
    BY <1>2, <1>3 DEF Link, Serial
  <2>2. \A w \in Actors : Knows(op[w])'
    BY <1>2, <1>3, <2>1 DEF Link, Serial, Knows, documents, Covered
  <2> QED
    BY <1>2, <1>3, <2>1, <2>2 DEF Link, Serial, Free
<1>4. CASE UNCHANGED vars
  BY <1>2, <1>4 DEF vars, row, documents, Serial, Free, Knows, Covered, Uploads
<1>5. \A w \in Actors : ~Crash(w)
  BY <1>2 DEF Crash, Without
<1>6. ASSUME NEW w \in Workers, ReceiveContract(w)
      PROVE  Serial'
  <2>1. \A v \in Actors : Free(v) \/ At(v, "reporting")
    BY <1>2, <1>6 DEF Serial, ReceiveContract, At, Free, Idle, Actors
  <2>2. Covered => Covered'
    BY <1>6 DEF Covered, ReceiveContract
  <2>3. \A v \in Actors : Knows(op[v])' /\ ~Uploads(op[v])
    BY <1>6, <2>1 DEF Knows, Uploads, ReceiveContract, At, Free, Idle
  <2> QED
    BY <1>2, <1>6, <2>2, <2>3 DEF Serial, ReceiveContract, Free, row
<1> QED
  BY <1>2, <1>3, <1>4, <1>5, <1>6, SerialRequest, SerialProceed, SerialQueue DEF Next, Step, Fault

\* When operations and runs of the queue do not overlap and none is cut short,
\* whatever fails, is reported, deleted or reopened between them, what shows as
\* sent is the latest contract of the panel, or one that came after it.
THEOREM LatestIsSent == Spec => []LatestIsAnnounced
<1>1. SerialInv => LatestIsAnnounced
  <2> SUFFICES ASSUME Serial, Quiet, sync = "SYNCED"
               PROVE  \A c \in contracts \ received : \E a \in announced : c <= a
    BY DEF SerialInv, LatestIsAnnounced
  <2>1. \A w \in Actors : ~Uploads(op[w])
    BY DEF Quiet, Free, Idle, Uploads
  <2> QED
    BY <2>1 DEF Serial, Covered
<1> QED
  BY TypeInit, TypeNext, SerialInit, SerialNext, <1>1, PTL DEF Spec

=============================================================================
