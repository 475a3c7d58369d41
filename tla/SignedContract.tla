--------------------------- MODULE SignedContract ---------------------------
(***************************************************************************)
(* The signed contract of one sale: uploaded in the panel, queued, and     *)
(* announced to the Task, which fetches it, by the second half of the      *)
(* queue of sales.  Meanwhile the Task reports on its demand: every report *)
(* moves the stage that the queue looks for, and may bring a contract.     *)
(*                                                                         *)
(* A worker is a request or a callback; a replica runs its queue once at a *)
(* time, but runs of several replicas overlap: one holds the lock of the   *)
(* timer, others follow an approval.  Every write names the row by id,     *)
(* except the claim.                                                       *)
(***************************************************************************)
EXTENDS Naturals, FiniteSets, FiniteSetsExt

CONSTANTS
    MaxContracts,  \* bound: rows of a signed contract; a later one has a greater number
    Workers,       \* requests and callbacks under way
    Replicas,
    Weathers       \* sets of faults to consider: a subset of one allows no step more

Faults ==
    {"crash",    \* a replica stops in the middle of an operation
     "failure",  \* a request to the Task fails or its answer is lost
     "overlap"}  \* operations and runs overlap

ASSUME SignedContractAssumption ==
    /\ MaxContracts \in Nat
    /\ Weathers \subseteq SUBSET Faults
    /\ Workers \cap Replicas = {}

VARIABLES
    weather,    \* the faults that may happen, chosen once and for all
    linked,     \* whether the sale has a taskDemandId
    stage,      \* contractStage
    activated,  \* whether the status of the sale is ACTIVATED
    sync,       \* signedContractSyncStatus
    contracts,  \* the rows of signed contracts
    uploads,    \* how many there have been
    received,   \* those that the Task attached to its demand
    announced,  \* the contracts announced to the Task
    op          \* op[w]: what worker or replica w is in the middle of

row == <<linked, stage, activated, sync>>
documents == <<contracts, uploads, received>>
vars == <<weather, row, documents, announced, op>>

\* Every other stage is open: the queue passes over it, an upload is accepted.
Stage == {"OPEN", "TASK_VALIDATING_SIGNED_CONTRACT", "COMPLETED"}

Claimable == {"PENDING", "RETRY"}

SyncState == Claimable \cup {"NOT_READY", "PROCESSING", "SYNCED"}

Contracts == 1 .. MaxContracts

Idle == [at |-> "idle"]

Operation ==
    {Idle}
    \* an upload whose row is there; then the sale was read
    \cup [at : {"uploaded"}]
    \cup [at : {"queueing"}, linked : BOOLEAN]
    \* a report of the Task about to be written
    \cup [at : {"reporting"}, stage : Stage, completes : BOOLEAN]
    \cup [at : {"deleting"}, contract : Contracts]
    \cup [at : {"reopening"}]
    \* a run of the queue
    \cup [at : {"listing", "claiming", "reading", "synced", "failing"}]
    \cup [at : {"sending"}, contract : Contracts]

Actors == Workers \cup Replicas

Free(w) == op[w] = Idle

\* w may start an operation.
Ready(w) == Free(w) /\ ("overlap" \in weather \/ \A v \in Actors : Free(v))

At(w, point) == op[w].at = point

Continue(w, operation) == op' = [op EXCEPT ![w] = operation]

Goto(w, point) == Continue(w, [at |-> point])

Done(w) == Continue(w, Idle)

Closed == stage = "COMPLETED" \/ activated

TypeOK ==
    /\ weather \in Weathers
    /\ linked \in BOOLEAN
    /\ stage \in Stage
    /\ activated \in BOOLEAN
    /\ sync \in SyncState
    /\ contracts \in SUBSET Contracts
    /\ uploads \in 0 .. MaxContracts
    /\ received \in SUBSET Contracts
    /\ announced \in SUBSET Contracts
    /\ op \in [Actors -> Operation]

Init ==
    /\ weather \in Weathers
    /\ linked = FALSE
    /\ stage = "OPEN"
    /\ activated = FALSE
    /\ sync = "NOT_READY"
    /\ contracts = {}
    /\ uploads = 0
    /\ received = {}
    /\ announced = {}
    /\ op = [w \in Actors |-> Idle]

(***************************************************************************)
(* UploadsService: uploadFile and queueSignedContractFromParceiros,        *)
(* deleteDocument                                                          *)
(***************************************************************************)

uploadFile(w) ==
    /\ Ready(w)
    /\ ~Closed
    /\ uploads < MaxContracts
    /\ uploads' = uploads + 1
    /\ contracts' = contracts \cup {uploads'}
    /\ Goto(w, "uploaded")
    /\ UNCHANGED <<weather, row, received, announced>>

ReadSale(w) ==
    /\ At(w, "uploaded")
    /\ Continue(w, [at |-> "queueing", linked |-> linked])
    /\ UNCHANGED <<weather, row, documents, announced>>

queueSignedContract(w) ==
    /\ At(w, "queueing")
    /\ IF op[w].linked
       THEN stage' = "TASK_VALIDATING_SIGNED_CONTRACT" /\ sync' = "PENDING"
       ELSE UNCHANGED <<stage, sync>>
    /\ Done(w)
    /\ UNCHANGED <<weather, linked, activated, documents, announced>>

deleteDocument(w) ==
    /\ Ready(w)
    /\ ~Closed
    /\ \E c \in contracts : Continue(w, [at |-> "deleting", contract |-> c])
    /\ UNCHANGED <<weather, row, documents, announced>>

DeleteRow(w) ==
    /\ At(w, "deleting")
    /\ contracts' = contracts \ {op[w].contract}
    /\ Done(w)
    /\ UNCHANGED <<weather, row, uploads, received, announced>>

(***************************************************************************)
(* Luxus Task: syncSaleToTask links the sale, applySaleCallback reports    *)
(***************************************************************************)

Link ==
    /\ ~linked
    /\ linked' = TRUE
    /\ UNCHANGED <<weather, stage, activated, sync, documents, announced, op>>

\* Mutant: the status reported becomes the stage.
StageOf_Reported(concluded) ==
    IF Closed THEN stage ELSE IF concluded THEN "concluido" ELSE "OPEN"

\* resolveSaleContractStage: only a conclusion does not move the sale back.
\* The stage of a locked sale stays as it was read.
StageOf(concluded) ==
    IF Closed THEN stage ELSE IF concluded THEN "COMPLETED" ELSE "OPEN"

receiveReport(w) ==
    /\ Ready(w)
    /\ linked
    /\ \E concluded \in BOOLEAN :
        Continue(w, [at |-> "reporting", completes |-> concluded /\ ~Closed,
                     stage |-> StageOf(concluded)])
    /\ UNCHANGED <<weather, row, documents, announced>>

\* An attachment named as a contract gets the purpose of a signed one; it is not
\* queued.  The attachments come before the row of the sale.
ReceiveContract(w) ==
    /\ At(w, "reporting")
    /\ uploads < MaxContracts
    /\ uploads' = uploads + 1
    /\ contracts' = contracts \cup {uploads'}
    /\ received' = received \cup {uploads'}
    /\ UNCHANGED <<weather, row, announced, op>>

applySaleCallback(w) ==
    /\ At(w, "reporting")
    /\ stage' = op[w].stage
    /\ activated' = (activated \/ op[w].completes)
    /\ Done(w)
    /\ UNCHANGED <<weather, linked, sync, documents, announced>>

\* SalesService.reopen.
reopen(w) ==
    /\ Ready(w)
    /\ Closed
    /\ Goto(w, "reopening")
    /\ UNCHANGED <<weather, row, documents, announced>>

Reopen(w) ==
    /\ At(w, "reopening")
    /\ stage' = "OPEN"
    /\ activated' = FALSE
    /\ Done(w)
    /\ UNCHANGED <<weather, linked, sync, documents, announced>>

(***************************************************************************)
(* SalesService: processTaskSyncQueue and syncSignedContract               *)
(***************************************************************************)

\* Mutant: nothing takes a claim back.
ResetClaims_Not == sync

\* Every run takes every claim back, however young.
ResetClaims == IF sync = "PROCESSING" THEN "RETRY" ELSE sync

processTaskSyncQueue(p) ==
    /\ Ready(p)
    /\ sync' = ResetClaims
    /\ Goto(p, "listing")
    /\ UNCHANGED <<weather, linked, stage, activated, documents, announced>>

Due == linked /\ stage = "TASK_VALIDATING_SIGNED_CONTRACT" /\ sync \in Claimable

List(p) ==
    /\ At(p, "listing")
    /\ IF Due THEN Goto(p, "claiming") ELSE Done(p)
    /\ UNCHANGED <<weather, row, documents, announced>>

\* A contract whose next attempt is not due yet.
NotDueYet(p) ==
    /\ At(p, "listing")
    /\ sync = "RETRY"
    /\ Done(p)
    /\ UNCHANGED <<weather, row, documents, announced>>

Claim(p) ==
    /\ At(p, "claiming")
    /\ IF Due
       THEN sync' = "PROCESSING" /\ Goto(p, "reading")
       ELSE UNCHANGED sync /\ Done(p)
    /\ UNCHANGED <<weather, linked, stage, activated, documents, announced>>

\* Mutant: the first one there is.
Latest_First == Min(contracts)

Latest == Max(contracts)

\* Without a contract the claim is left as it is.
ReadLatest(p) ==
    /\ At(p, "reading")
    /\ IF contracts = {}
       THEN Done(p)
       ELSE Continue(p, [at |-> "sending", contract |-> Latest])
    /\ UNCHANGED <<weather, row, documents, announced>>

updateSaleStage(p) ==
    /\ At(p, "sending")
    /\ announced' = announced \cup {op[p].contract}
    /\ Goto(p, "synced")
    /\ UNCHANGED <<weather, row, documents>>

StageFails(p) ==
    /\ "failure" \in weather
    /\ At(p, "sending")
    /\ announced' = announced \cup {op[p].contract} \/ UNCHANGED announced
    /\ Goto(p, "failing")
    /\ UNCHANGED <<weather, row, documents>>

\* Whatever was queued meanwhile.
MarkSynced(p) ==
    /\ At(p, "synced")
    /\ sync' = "SYNCED"
    /\ Done(p)
    /\ UNCHANGED <<weather, linked, stage, activated, documents, announced>>

\* Mutant: a failure is taken for a success.
MarkRetry_Synced(p) ==
    /\ At(p, "failing")
    /\ sync' = "SYNCED"
    /\ Done(p)
    /\ UNCHANGED <<weather, linked, stage, activated, documents, announced>>

MarkRetry(p) ==
    /\ At(p, "failing")
    /\ sync' = "RETRY"
    /\ Done(p)
    /\ UNCHANGED <<weather, linked, stage, activated, documents, announced>>

Crash(w) ==
    /\ "crash" \in weather
    /\ ~Free(w)
    /\ Done(w)
    /\ UNCHANGED <<weather, row, documents, announced>>

(***************************************************************************)
(* Specification                                                           *)
(***************************************************************************)

Request(w) ==
    \/ uploadFile(w)
    \/ deleteDocument(w)
    \/ receiveReport(w)
    \/ reopen(w)

Proceed(w) ==
    \/ ReadSale(w)
    \/ queueSignedContract(w)
    \/ DeleteRow(w)
    \/ applySaleCallback(w)
    \/ Reopen(w)
    \/ List(w)
    \/ Claim(w)
    \/ ReadLatest(w)
    \/ updateSaleStage(w)
    \/ MarkSynced(w)
    \/ MarkRetry(w)

Fault ==
    \/ \E p \in Replicas : StageFails(p)
    \/ \E w \in Actors : Crash(w)

Step ==
    \/ Link
    \/ \E w \in Workers : Request(w) \/ ReceiveContract(w)
    \/ \E p \in Replicas : processTaskSyncQueue(p) \/ NotDueYet(p)
    \/ \E w \in Actors : Proceed(w)

Next == Step \/ Fault

Spec == Init /\ [][Next]_vars

\* An operation under way goes on, the timer runs the queue, and a retry is due
\* within 15 minutes.
Fairness ==
    /\ \A w \in Actors : WF_vars(Proceed(w))
    /\ SF_vars(\E p \in Replicas : processTaskSyncQueue(p))
    /\ SF_vars(\E p \in Replicas : List(p))

FairSpec == Spec /\ Fairness

(***************************************************************************)
(* Properties                                                              *)
(***************************************************************************)

Without(faults) == weather \cap faults = {}

Quiet == \A w \in Actors : Free(w)

\* Whatever overlaps, fails or crashes, a contract shows as sent only if one
\* was announced to the Task.
SyncedWasAnnounced == sync = "SYNCED" => announced # {}

\* When operations and runs do not overlap and none is cut short, what shows
\* as sent is the latest contract of the panel, or one that came after it; the
\* Task knows those that it attached.
LatestIsAnnounced ==
    Without({"overlap", "crash"}) /\ Quiet /\ sync = "SYNCED"
    => \A c \in contracts \ received : \E a \in announced : c <= a

\* Once faults stop, a queued contract is announced, unless a report moves the
\* stage on or the contracts are deleted: no claim is lost with its replica.
ContractIsSent ==
    <>[][Step]_vars
    => (/\ linked
        /\ contracts # {}
        /\ stage = "TASK_VALIDATING_SIGNED_CONTRACT"
        /\ sync \in Claimable \cup {"PROCESSING"}
        ~> sync = "SYNCED" \/ contracts = {} \/ stage # "TASK_VALIDATING_SIGNED_CONTRACT")

=============================================================================
