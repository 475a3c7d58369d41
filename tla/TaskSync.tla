------------------------------ MODULE TaskSync ------------------------------
(***************************************************************************)
(* How an approved sale and its documents reach Luxus Task: the queue that *)
(* claims sales, the demand it looks up or creates, the documents it       *)
(* imports one by one, the second pass 20 seconds later, and what other    *)
(* requests do to the same row meanwhile: uploads, deletions, edits,       *)
(* retries asked for in the panel, reviews and reopenings, callbacks of    *)
(* the Task.  Sales copied by the historical import, linked to a demand    *)
(* that was not created for them, are left out.                            *)
(*                                                                         *)
(* A worker is one run of such code on one replica.  Time is abstracted: a *)
(* retry that is due and a timer that fires are steps that may happen.     *)
(***************************************************************************)
EXTENDS FiniteSets

CONSTANTS
    Sales,
    Documents,
    Required,   \* documents of the types the sale cannot be synced without
    Workers,
    Happens     \* what happens besides the plain flow

Disturbances ==
    {"callback",  \* the Task calls back about a demand, or is polled
     "crash",     \* a replica stops in the middle of an operation
     "failure",   \* a request to the Task fails or its answer is lost
     "slow",      \* an operation outlives the 5 minutes of its claim
     "retry",     \* the panel asks for a retry
     "edit",      \* the sale is edited while it is not synced
     "review",    \* reviews go on beside an approval, a sale is reopened
     "delete",    \* a document is deleted
     "disk",      \* a file is lost: the volume with the uploads was not kept
     "end"}       \* the sale is cancelled or rejected

ASSUME TaskSyncAssumption ==
    /\ Required \subseteq Documents
    /\ Happens \subseteq Disturbances

VARIABLES
    review,    \* review[s]: reviewStatus, AWAITING for any that is not APPROVED
    status,    \* status[s]: OPEN, ACTIVATED, or ENDED (cancelled or rejected)
    completed, \* the sales whose contractStage is COMPLETED
    assigned,  \* the sales with a responsible and a deadline for the Task
    handoff,   \* the sales sent with sendToTask (taskHandoff)
    sync,      \* sync[s]: taskSyncStatus
    linked,    \* the sales with a taskDemandId
    docs,      \* docs[s]: documents of the sale in the database
    gone,      \* gone[s]: documents deleted or whose file was lost
    demand,    \* the sales that Luxus Task has a demand for
    remote,    \* remote[s]: documents of s attached in Luxus Task
    op         \* op[w]: the operation worker w is in the middle of

decision == <<review, status, completed, assigned, handoff>>
sale == <<decision, sync, linked>>
files == <<docs, gone>>
task == <<demand, remote>>
vars == <<sale, files, task, op>>

Claimable == {"PENDING", "RETRY"}

SyncStatus == Claimable \cup {"NOT_READY", "PROCESSING", "SYNCED"}

Idle == [at |-> "idle"]

Operation ==
    {Idle}
    \* accepted, about to write; the panel's retry goes on with the sync
    \cup [at : {"approving", "sending", "reviewing", "reopening", "editing",
                "retrying", "calling"}, sale : Sales]
    \* a claimed sale, with the documents read, or without a responsible;
    \* and the timer that a sync leaves
    \cup [at : {"looking"}, sale : Sales, left : SUBSET Documents]
    \cup [at : {"refused", "timer"}, sale : Sales]
    \* documents left to upload, of a claimed sale or in the second pass
    \cup [at : {"importing", "pushing"}, sale : Sales,
          left : SUBSET Documents, failed : BOOLEAN]
    \* a document was stored; it is to be removed from the Task, from here
    \cup [at : {"uploaded", "deleting", "removing"}, sale : Sales, document : Documents]

Free(w) == op[w] = Idle

At(w, point) == op[w].at = point

Continue(w, operation) == op' = [op EXCEPT ![w] = operation]

Done(w) == Continue(w, Idle)

SetSync(s, state) == sync' = [sync EXCEPT ![s] = state]

Attach(s, documents) == remote' = [remote EXCEPT ![s] = @ \cup documents]

TypeOK ==
    /\ review \in [Sales -> {"AWAITING", "APPROVED"}]
    /\ status \in [Sales -> {"OPEN", "ACTIVATED", "ENDED"}]
    /\ completed \in SUBSET Sales
    /\ assigned \in SUBSET Sales
    /\ handoff \in SUBSET Sales
    /\ sync \in [Sales -> SyncStatus]
    /\ linked \in SUBSET demand
    /\ docs \in [Sales -> SUBSET Documents]
    /\ gone \in [Sales -> SUBSET Documents]
    /\ demand \in SUBSET Sales
    /\ remote \in [Sales -> SUBSET Documents]
    /\ op \in [Workers -> Operation]

\* Sales submitted for review, and rows that a spreadsheet brought in as
\* concluded and synced, which the Task knows nothing of; no documents yet.
Init ==
    /\ \E rows \in SUBSET Sales :
        /\ review = [s \in Sales |-> IF s \in rows THEN "APPROVED" ELSE "AWAITING"]
        /\ status = [s \in Sales |-> IF s \in rows THEN "ACTIVATED" ELSE "OPEN"]
        /\ completed = rows
        /\ sync = [s \in Sales |-> IF s \in rows THEN "SYNCED" ELSE "NOT_READY"]
    /\ assigned = {}
    /\ handoff = {}
    /\ linked = {}
    /\ docs = [s \in Sales |-> {}]
    /\ gone = [s \in Sales |-> {}]
    /\ demand = {}
    /\ remote = [s \in Sales |-> {}]
    /\ op = [w \in Workers |-> Idle]

(***************************************************************************)
(* Decisions of the administrator: each is checked on the sale read first  *)
(* and written by id.                                                      *)
(***************************************************************************)

\* Neither edited, nor given documents, nor concluded by a callback.
Closed(s) == s \in completed \/ status[s] # "OPEN"

\* startReview and requestCorrection; a corrected sale is submitted again.
startReview(w, s) ==
    /\ "review" \in Happens
    /\ Free(w)
    /\ review[s] = "AWAITING"
    /\ Continue(w, [at |-> "reviewing", sale |-> s])
    /\ UNCHANGED <<sale, files, task>>

WriteReview(w) ==
    /\ At(w, "reviewing")
    /\ review' = [review EXCEPT ![op[w].sale] = "AWAITING"]
    /\ Done(w)
    /\ UNCHANGED <<status, completed, assigned, handoff, sync, linked, files, task>>

approveForTask(w, s) ==
    /\ Free(w)
    /\ review[s] = "AWAITING"
    /\ Continue(w, [at |-> "approving", sale |-> s])
    /\ UNCHANGED <<sale, files, task>>

sendToTask(w, s) ==
    /\ Free(w)
    /\ status[s] # "ENDED"
    /\ s \notin linked \cup handoff
    /\ sync[s] \notin {"PENDING", "PROCESSING", "SYNCED"}
    /\ Continue(w, [at |-> "sending", sale |-> s])
    /\ UNCHANGED <<sale, files, task>>

Approve(w) ==
    /\ op[w].at \in {"approving", "sending"}
    /\ review' = [review EXCEPT ![op[w].sale] = "APPROVED"]
    /\ completed' = completed \ {op[w].sale}
    /\ assigned' = assigned \cup {op[w].sale}
    /\ handoff' = IF At(w, "sending") THEN handoff \cup {op[w].sale} ELSE handoff
    /\ SetSync(op[w].sale, "PENDING")
    /\ Done(w)
    /\ UNCHANGED <<status, linked, files, task>>

\* A concluded sale, one cancelled after its conclusion included.
reopen(w, s) ==
    /\ "review" \in Happens
    /\ Free(w)
    /\ s \in completed \/ status[s] = "ACTIVATED"
    /\ Continue(w, [at |-> "reopening", sale |-> s])
    /\ UNCHANGED <<sale, files, task>>

ReopenSale(w) ==
    /\ At(w, "reopening")
    /\ review' = [review EXCEPT ![op[w].sale] = "AWAITING"]
    /\ status' = [status EXCEPT ![op[w].sale] = "OPEN"]
    /\ completed' = completed \ {op[w].sale}
    /\ Done(w)
    /\ UNCHANGED <<assigned, handoff, sync, linked, files, task>>

\* The part of updateStatus that ends a sale; Settlement has the rest.
EndSale(s) ==
    /\ "end" \in Happens
    /\ status[s] # "ENDED"
    /\ status' = [status EXCEPT ![s] = "ENDED"]
    /\ UNCHANGED <<review, completed, assigned, handoff, sync, linked, files, task, op>>

retryTaskSync(w, s) ==
    /\ "retry" \in Happens
    /\ Free(w)
    /\ review[s] = "APPROVED"
    /\ Continue(w, [at |-> "retrying", sale |-> s])
    /\ UNCHANGED <<sale, files, task>>

\* The retry writes PENDING and calls syncSaleToTask itself.
Rearm(w) ==
    /\ At(w, "retrying")
    /\ SetSync(op[w].sale, "PENDING")
    /\ Continue(w, [at |-> "calling", sale |-> op[w].sale])
    /\ UNCHANGED <<decision, linked, files, task>>

\* update, where it puts the sale back in the queue.
update(w, s) ==
    /\ "edit" \in Happens
    /\ Free(w)
    /\ ~Closed(s)
    /\ review[s] = "APPROVED"
    /\ sync[s] # "SYNCED"
    /\ Continue(w, [at |-> "editing", sale |-> s])
    /\ UNCHANGED <<sale, files, task>>

Requeue(w) ==
    /\ At(w, "editing")
    /\ SetSync(op[w].sale, "PENDING")
    /\ Done(w)
    /\ UNCHANGED <<decision, linked, files, task>>

(***************************************************************************)
(* SalesService.processTaskSyncQueue and syncSaleToTask                    *)
(***************************************************************************)

Syncing(w, s) ==
    /\ op[w].at \in {"looking", "importing", "refused"}
    /\ op[w].sale = s

\* Mutant: looks for the sales that wait instead of those that are stuck.
Stuck_Waiting(s) ==
    /\ sync[s] = "RETRY"
    /\ "slow" \in Happens \/ \A w \in Workers : ~Syncing(w, s)

\* Claimed for more than 5 minutes.
Stuck(s) ==
    /\ sync[s] = "PROCESSING"
    /\ "slow" \in Happens \/ \A w \in Workers : ~Syncing(w, s)

Reclaim(s) ==
    /\ Stuck(s)
    /\ SetSync(s, "RETRY")
    /\ UNCHANGED <<decision, linked, files, task, op>>

\* Mutant: a sale without a responsible goes to the Task as well.
MayGo_Any(s) == TRUE

MayGo(s) == s \in assigned

\* The conditional update that claims, and the read of the sale after it.
Claim(w, s) ==
    /\ sync[s] \in Claimable
    /\ SetSync(s, "PROCESSING")
    /\ Continue(w, IF MayGo(s) THEN [at |-> "looking", sale |-> s, left |-> docs[s]]
                   ELSE [at |-> "refused", sale |-> s])
    /\ UNCHANGED <<decision, linked, files, task>>

\* The queue only takes sales with a responsible.
ClaimNext(w, s) ==
    /\ Free(w)
    /\ s \in assigned
    /\ Claim(w, s)

\* Without a responsible or a deadline: to be tried again in a minute.
Refuse(w) ==
    /\ At(w, "refused")
    /\ SetSync(op[w].sale, "RETRY")
    /\ Done(w)
    /\ UNCHANGED <<decision, linked, files, task>>

ClaimRetried(w) ==
    /\ At(w, "calling")
    /\ \/ Claim(w, op[w].sale)
       \/ /\ sync[op[w].sale] \notin Claimable
          /\ Done(w)
          /\ UNCHANGED <<sale, files, task>>

\* Files missing on the disk are only logged, unless they are required.
Importable(w) ==
    LET s == op[w].sale
    IN gone[s] \cap op[w].left \cap Required = {}

\* Mutant: a demand that getDemand did not find is taken to exist.
EnsureDemand_Assumed(w) ==
    /\ At(w, "looking")
    /\ Importable(w)
    /\ Continue(w, [at |-> "importing", sale |-> op[w].sale,
                    left |-> op[w].left \ gone[op[w].sale], failed |-> FALSE])
    /\ UNCHANGED <<sale, files, task>>

\* getDemand finds the demand or createDemand creates it; then the files of
\* the documents read are loaded.
EnsureDemand(w) ==
    /\ At(w, "looking")
    /\ Importable(w)
    /\ LET s == op[w].sale IN
        /\ demand' = demand \cup {s}
        /\ Continue(w, [at |-> "importing", sale |-> s,
                        left |-> op[w].left \ gone[s], failed |-> FALSE])
    /\ UNCHANGED <<sale, files, remote>>

\* importSaleDocumentsToTask: one request per document, whatever became of
\* the one before; a request that fails may still have been carried out.
ImportDocument(w) ==
    /\ op[w].at \in {"importing", "pushing"}
    /\ \E d \in op[w].left :
        \/ /\ Attach(op[w].sale, {d})
           /\ Continue(w, [op[w] EXCEPT !.left = @ \ {d}])
        \/ /\ "failure" \in Happens
           /\ Attach(op[w].sale, {d}) \/ UNCHANGED remote
           /\ Continue(w, [op[w] EXCEPT !.left = @ \ {d}, !.failed = TRUE])
    /\ UNCHANGED <<sale, files, demand>>

Imported(w) == op[w].left = {} /\ ~op[w].failed

\* Mutant: no second pass.
Link_Once(w) ==
    /\ At(w, "importing")
    /\ Imported(w)
    /\ linked' = linked \cup {op[w].sale}
    /\ SetSync(op[w].sale, "SYNCED")
    /\ Done(w)
    /\ UNCHANGED <<decision, files, task>>

Link(w) ==
    /\ At(w, "importing")
    /\ Imported(w)
    /\ linked' = linked \cup {op[w].sale}
    /\ SetSync(op[w].sale, "SYNCED")
    /\ Continue(w, [at |-> "timer", sale |-> op[w].sale])
    /\ UNCHANGED <<decision, files, task>>

\* An error after the claim, when the demand may exist already: the sale
\* waits for another attempt.
SyncFails(w) ==
    /\ \/ /\ At(w, "looking")
          /\ \/ ~Importable(w) /\ demand' = demand \cup {op[w].sale}
             \/ /\ "failure" \in Happens
                /\ demand' = demand \cup {op[w].sale} \/ UNCHANGED demand
       \/ /\ At(w, "importing")
          /\ op[w].left = {}
          /\ op[w].failed
          /\ UNCHANGED demand
    /\ SetSync(op[w].sale, "RETRY")
    /\ Done(w)
    /\ UNCHANGED <<decision, linked, files, remote>>

(***************************************************************************)
(* SalesService.reinforceSaleAttachmentsToTask, 20 seconds after the link  *)
(***************************************************************************)

Reinforce(w) ==
    /\ At(w, "timer")
    /\ LET s == op[w].sale IN
        IF s \notin linked \/ sync[s] # "SYNCED" \/ docs[s] = {}
        THEN Done(w) /\ UNCHANGED sync
        ELSE IF docs[s] \cap gone[s] # {}
        THEN Done(w) /\ SetSync(s, "RETRY")
        ELSE /\ Continue(w, [at |-> "pushing", sale |-> s,
                             left |-> docs[s], failed |-> FALSE])
             /\ UNCHANGED sync
    /\ UNCHANGED <<decision, linked, files, task>>

EndReinforce(w) ==
    /\ At(w, "pushing")
    /\ op[w].left = {}
    /\ IF op[w].failed THEN SetSync(op[w].sale, "RETRY") ELSE UNCHANGED sync
    /\ Done(w)
    /\ UNCHANGED <<decision, linked, files, task>>

(***************************************************************************)
(* UploadsService: uploadFile and deleteDocument of a sale                 *)
(***************************************************************************)

uploadFile(w, s, d) ==
    /\ Free(w)
    /\ ~Closed(s)
    /\ d \notin docs[s] \cup gone[s]
    /\ docs' = [docs EXCEPT ![s] = @ \cup {d}]
    /\ Continue(w, [at |-> "uploaded", sale |-> s, document |-> d])
    /\ UNCHANGED <<sale, gone, task>>

DeliveryFailed(s) == SetSync(s, "RETRY")

pushSaleDocumentIfSynced(w) ==
    /\ At(w, "uploaded")
    /\ LET s == op[w].sale
           d == op[w].document
       IN \/ s \notin linked /\ UNCHANGED <<sync, remote>>
          \/ s \in linked /\ d \notin gone[s] /\ Attach(s, {d}) /\ UNCHANGED sync
          \/ s \in linked /\ d \in gone[s] /\ DeliveryFailed(s) /\ UNCHANGED remote
          \/ /\ s \in linked
             /\ "failure" \in Happens
             /\ Attach(s, {d}) \/ UNCHANGED remote
             /\ DeliveryFailed(s)
    /\ Done(w)
    /\ UNCHANGED <<decision, linked, files, demand>>

deleteDocument(w, s, d) ==
    /\ "delete" \in Happens
    /\ Free(w)
    /\ ~Closed(s)
    /\ d \in docs[s]
    /\ Continue(w, [at |-> IF s \in linked THEN "deleting" ELSE "removing",
                    sale |-> s, document |-> d])
    /\ UNCHANGED <<sale, files, task>>

removeSaleDocumentFromTask(w) ==
    /\ At(w, "deleting")
    /\ LET s == op[w].sale
           d == op[w].document
       IN \/ /\ remote' = [remote EXCEPT ![s] = @ \ {d}]
             /\ Continue(w, [op[w] EXCEPT !.at = "removing"])
          \* the answer is lost or is an error: the deletion stops here
          \/ /\ "failure" \in Happens
             /\ remote' = [remote EXCEPT ![s] = @ \ {d}] \/ UNCHANGED remote
             /\ Done(w)
    /\ UNCHANGED <<sale, files, demand>>

RemoveDocument(w) ==
    /\ At(w, "removing")
    /\ LET s == op[w].sale
           d == op[w].document
       IN /\ docs' = [docs EXCEPT ![s] = @ \ {d}]
          /\ gone' = [gone EXCEPT ![s] = @ \cup {d}]
    /\ Done(w)
    /\ UNCHANGED <<sale, task>>

\* A redeployment without the volume of the uploads.
LoseFile(s, d) ==
    /\ "disk" \in Happens
    /\ d \in docs[s] \ gone[s]
    /\ gone' = [gone EXCEPT ![s] = @ \cup {d}]
    /\ UNCHANGED <<sale, docs, task, op>>

(***************************************************************************)
(* A callback of the Task, or a poll of reconcileTaskProgress or           *)
(* refreshTaskStatus: whatever the sale is doing, it is synced; it may be  *)
(* concluded with it.  Settlement has its steps.                           *)
(***************************************************************************)

Callback(s) ==
    /\ "callback" \in Happens
    /\ s \in demand
    /\ linked' = linked \cup {s}
    /\ SetSync(s, "SYNCED")
    /\ \/ UNCHANGED <<review, status, completed>>
       \/ /\ ~Closed(s)
          /\ review' = [review EXCEPT ![s] = "APPROVED"]
          /\ status' = [status EXCEPT ![s] = "ACTIVATED"]
          /\ completed' = completed \cup {s}
    /\ UNCHANGED <<assigned, handoff, files, task, op>>

\* A replica stops: its operations and its timers are lost.
Crash(w) ==
    /\ "crash" \in Happens
    /\ ~Free(w)
    /\ Done(w)
    /\ UNCHANGED <<sale, files, task>>

(***************************************************************************)
(* Specification                                                           *)
(***************************************************************************)

Begin(w, s) ==
    \/ startReview(w, s)
    \/ approveForTask(w, s)
    \/ sendToTask(w, s)
    \/ reopen(w, s)
    \/ retryTaskSync(w, s)
    \/ update(w, s)
    \/ ClaimNext(w, s)
    \/ \E d \in Documents : uploadFile(w, s, d) \/ deleteDocument(w, s, d)

Advance(w) ==
    \/ WriteReview(w)
    \/ Approve(w)
    \/ ReopenSale(w)
    \/ Rearm(w)
    \/ Requeue(w)
    \/ ClaimRetried(w)
    \/ Refuse(w)
    \/ EnsureDemand(w)
    \/ ImportDocument(w)
    \/ Link(w)
    \/ Reinforce(w)
    \/ EndReinforce(w)
    \/ pushSaleDocumentIfSynced(w)
    \/ removeSaleDocumentFromTask(w)
    \/ RemoveDocument(w)

Proceed(w) == Advance(w) \/ SyncFails(w)

\* Whatever may happen but a failure of a sync or a crash.
Step ==
    \/ \E w \in Workers :
        \/ \E s \in Sales : Begin(w, s)
        \/ Advance(w)
    \/ \E s \in Sales :
        \/ EndSale(s)
        \/ Reclaim(s)
        \/ Callback(s)
        \/ \E d \in Documents : LoseFile(s, d)

Next == Step \/ \E w \in Workers : Proceed(w) \/ Crash(w)

Spec == Init /\ [][Next]_vars

\* An operation under way goes on; the queue's timer, which does not wait for
\* requests, takes back what is stuck and claims what is due.
Fairness ==
    /\ \A w \in Workers : WF_vars(Proceed(w))
    /\ \A s \in Sales :
        /\ SF_vars(Reclaim(s))
        /\ SF_vars(\E w \in Workers : ClaimNext(w, s))

FairSpec == Spec /\ Fairness

(***************************************************************************)
(* Properties                                                              *)
(***************************************************************************)

\* A worker that may still attach documents of s or hand it to the queue.
BusyWith(s) == \E w \in Workers : ~Free(w) /\ op[w].sale = s

\* Every approved sale has its place in the queue, whatever reviews,
\* reopenings, retries and callbacks overlapped; Luxus Task has a demand only
\* of sales that an administrator handed over, never of an imported row that
\* was merely retried; and such a sale counts as synced only once it is linked.
\* The converse fails: a reopened sale awaits review while it is synced.
QueueMatchesSale ==
    \A s \in Sales :
        /\ review[s] = "APPROVED" => sync[s] # "NOT_READY"
        /\ s \in demand => s \in assigned
        /\ s \in assigned => sync[s] # "NOT_READY"
        /\ s \in assigned /\ sync[s] = "SYNCED" => s \in linked

\* Once nobody works on a sale that is synced to its demand, Luxus Task has
\* every document of it whose file still exists, those uploaded while it was
\* being synced and those whose delivery failed included.
DocumentsDelivered ==
    \A s \in linked :
        sync[s] = "SYNCED" /\ ~BusyWith(s) => docs[s] \ gone[s] \subseteq remote[s]

\* Once requests stop failing and replicas stop crashing, a sale that was
\* handed over and waits for the queue is synced: no claim is lost with its
\* replica.
ApprovedIsSynced ==
    <>[][Step]_vars
    => \A s \in Sales : s \in assigned /\ sync[s] = "PENDING" ~> sync[s] = "SYNCED"

=============================================================================
