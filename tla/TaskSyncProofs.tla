--------------------------- MODULE TaskSyncProofs ---------------------------
(***************************************************************************)
(* Theorems of TaskSync for any sales, documents, workers and              *)
(* disturbances.                                                           *)
(***************************************************************************)
EXTENDS TaskSync, TLAPS

\* The fields of the operation of a worker, by the point it has reached.
LEMMA OperationFields ==
    ASSUME TypeOK, NEW w \in Workers
    PROVE  /\ op[w].at # "idle" => op[w].sale \in Sales
           /\ op[w].at \in {"looking", "importing", "pushing"}
                => op[w].left \in SUBSET Documents
           /\ op[w].at \in {"importing", "pushing"} => op[w].failed \in BOOLEAN
           /\ op[w].at \in {"uploaded", "deleting", "removing"}
                => op[w].document \in Documents
<1>1. op[w] \in Operation
  BY DEF TypeOK
<1> QED
  BY <1>1 DEF Operation, Idle

\* Every operation the actions build is one.
LEMMA OperationBuilt ==
    ASSUME NEW s \in Sales
    PROVE  /\ Idle \in Operation
           /\ \A p \in {"approving", "sending", "reviewing", "reopening", "editing", "retrying",
                      "calling", "refused", "timer"} :
                [at |-> p, sale |-> s] \in Operation
           /\ \A l \in SUBSET Documents :
                [at |-> "looking", sale |-> s, left |-> l] \in Operation
           /\ \A p \in {"importing", "pushing"}, l \in SUBSET Documents, f \in BOOLEAN :
                [at |-> p, sale |-> s, left |-> l, failed |-> f] \in Operation
           /\ \A p \in {"uploaded", "deleting", "removing"}, d \in Documents :
                [at |-> p, sale |-> s, document |-> d] \in Operation
  BY DEF Operation

\* An operation that goes on with fewer documents, or failed, is still one.
LEMMA OperationReduced ==
    ASSUME TypeOK, NEW w \in Workers, op[w].at \in {"importing", "pushing"}, NEW d
    PROVE  /\ [op[w] EXCEPT !.left = @ \ {d}] \in Operation
           /\ [op[w] EXCEPT !.left = @ \ {d}, !.failed = TRUE] \in Operation
<1>1. op[w] \in [at : {"importing", "pushing"}, sale : Sales,
                 left : SUBSET Documents, failed : BOOLEAN]
  BY DEF TypeOK, Operation, Idle
<1> QED
  BY <1>1 DEF Operation

LEMMA UploadFields ==
    ASSUME TypeOK, NEW w \in Workers, op[w].at \in {"importing", "pushing"}, NEW d
    PROVE  LET rest == [op[w] EXCEPT !.left = @ \ {d}]
               spoilt == [op[w] EXCEPT !.left = @ \ {d}, !.failed = TRUE]
           IN /\ rest.at = op[w].at /\ rest.sale = op[w].sale
              /\ rest.left = op[w].left \ {d} /\ rest.failed = op[w].failed
              /\ spoilt.at = op[w].at /\ spoilt.sale = op[w].sale
              /\ spoilt.left = op[w].left \ {d} /\ spoilt.failed = TRUE
<1>1. op[w] \in [at : {"importing", "pushing"}, sale : Sales,
                 left : SUBSET Documents, failed : BOOLEAN]
  BY DEF TypeOK, Operation, Idle
<1> QED
  BY <1>1

LEMMA OperationRemoving ==
    ASSUME TypeOK, NEW w \in Workers, op[w].at = "deleting"
    PROVE  [op[w] EXCEPT !.at = "removing"] \in Operation
<1>1. op[w] \in [at : {"uploaded", "deleting", "removing"}, sale : Sales, document : Documents]
  BY DEF TypeOK, Operation, Idle
<1> QED
  BY <1>1 DEF Operation

\* What an operation under way still knows of its sale, without which
\* QueueMatchesSale and the type of linked are not inductive: whoever may
\* create a demand saw the responsible, and whoever may link one has made
\* sure that there is one.
WorkIsAssigned ==
    \A w \in Workers :
        /\ op[w].at = "looking" => op[w].sale \in assigned
        /\ op[w].at = "importing" => op[w].sale \in demand

SyncInv == TypeOK /\ QueueMatchesSale /\ WorkIsAssigned

LEMMA SyncInit == Init => SyncInv
<1>1. Idle \in Operation /\ Idle.at = "idle"
  BY DEF Operation, Idle
<1> QED
  BY <1>1 DEF Init, SyncInv, TypeOK, QueueMatchesSale, WorkIsAssigned, SyncStatus

\* What the steps of a worker leave to prove of the types.
LEMMA OpTyped ==
    ASSUME TypeOK, NEW w \in Workers, NEW o \in Operation, Continue(w, o)
    PROVE  /\ op' \in [Workers -> Operation]
           /\ op'[w] = o
           /\ \A v \in Workers \ {w} : op'[v] = op[v]
  BY DEF TypeOK, Continue

\* A step of worker w whose operation then neither looks for a demand nor
\* imports, and that leaves the rest consistent.
LEMMA WorkKept ==
    ASSUME WorkIsAssigned, TypeOK, NEW w \in Workers, NEW o \in Operation, Continue(w, o),
           o.at = "looking" => o.sale \in assigned',
           o.at = "importing" => o.sale \in demand',
           assigned \subseteq assigned', demand \subseteq demand'
    PROVE  WorkIsAssigned' /\ op' \in [Workers -> Operation]
<1>1. op' \in [Workers -> Operation] /\ op'[w] = o /\ \A v \in Workers \ {w} : op'[v] = op[v]
  BY OpTyped
<1> QED
  BY <1>1 DEF WorkIsAssigned

\* A taskSyncStatus other than SYNCED and NOT_READY breaks nothing.
LEMMA QueueKept ==
    ASSUME TypeOK, QueueMatchesSale, NEW s \in Sales, NEW state \in {"PENDING", "RETRY", "PROCESSING"},
           SetSync(s, state), UNCHANGED <<review, assigned, linked, demand>>
    PROVE  QueueMatchesSale' /\ sync' \in [Sales -> SyncStatus]
  BY DEF TypeOK, QueueMatchesSale, SetSync, SyncStatus, Claimable

LEMMA SyncBegin ==
    ASSUME SyncInv, NEW w \in Workers, NEW s \in Sales, Begin(w, s)
    PROVE  SyncInv'
<1> USE DEF SyncInv
<1>1. CASE startReview(w, s) \/ approveForTask(w, s) \/ sendToTask(w, s) \/ reopen(w, s)
           \/ retryTaskSync(w, s) \/ update(w, s)
  <2>1. PICK p \in {"approving", "sending", "reviewing", "reopening", "editing", "retrying"} :
          Continue(w, [at |-> p, sale |-> s])
    BY <1>1 DEF startReview, approveForTask, sendToTask, reopen, retryTaskSync, update
  <2>2. UNCHANGED <<sale, files, task>>
    BY <1>1 DEF startReview, approveForTask, sendToTask, reopen, retryTaskSync, update
  <2> DEFINE o == [at |-> p, sale |-> s]
  <2>3. o \in Operation /\ o.at = p
    BY OperationBuilt
  <2>4. WorkIsAssigned' /\ op' \in [Workers -> Operation]
    BY <2>1, <2>2, <2>3, WorkKept DEF sale, decision, task
  <2> QED
    BY <2>2, <2>4 DEF TypeOK, QueueMatchesSale, sale, decision, files, task
<1>2. CASE ClaimNext(w, s)
  <2> DEFINE o == [at |-> "looking", sale |-> s, left |-> docs[s]]
  <2>1. o \in Operation /\ o.at = "looking" /\ o.sale = s
    BY OperationBuilt DEF TypeOK
  <2>2. Continue(w, o) /\ s \in assigned /\ SetSync(s, "PROCESSING")
    BY <1>2 DEF ClaimNext, Claim, MayGo
  <2>3. UNCHANGED <<decision, linked, files, task>>
    BY <1>2 DEF ClaimNext, Claim
  <2>4. WorkIsAssigned' /\ op' \in [Workers -> Operation]
    BY <2>1, <2>2, <2>3, WorkKept DEF decision, task
  <2>5. QueueMatchesSale' /\ sync' \in [Sales -> SyncStatus]
    BY <2>2, <2>3, QueueKept DEF decision, task
  <2> QED
    BY <2>3, <2>4, <2>5 DEF TypeOK, decision, files, task
<1>3. ASSUME NEW d \in Documents, uploadFile(w, s, d) \/ deleteDocument(w, s, d)
      PROVE  SyncInv'
  <2>1. PICK p \in {"uploaded", "deleting", "removing"} :
          Continue(w, [at |-> p, sale |-> s, document |-> d])
    BY <1>3 DEF uploadFile, deleteDocument
  <2>2. docs' \in [Sales -> SUBSET Documents] /\ UNCHANGED <<sale, gone, task>>
    BY <1>3 DEF uploadFile, deleteDocument, TypeOK, files
  <2> DEFINE o == [at |-> p, sale |-> s, document |-> d]
  <2>3. o \in Operation /\ o.at = p
    BY OperationBuilt
  <2>4. WorkIsAssigned' /\ op' \in [Workers -> Operation]
    BY <2>1, <2>2, <2>3, WorkKept DEF sale, decision, task
  <2> QED
    BY <2>2, <2>4 DEF TypeOK, QueueMatchesSale, sale, decision, task
<1> QED
  BY <1>1, <1>2, <1>3 DEF Begin

\* The writes of an administrator's decision, and the edits and retries that
\* put a sale back in the queue.
LEMMA SyncDecision ==
    ASSUME SyncInv, NEW w \in Workers,
           \/ WriteReview(w) \/ Approve(w) \/ ReopenSale(w) \/ Rearm(w) \/ Requeue(w) \/ Refuse(w)
    PROVE  SyncInv'
<1> USE DEF SyncInv, Done, At
<1> DEFINE s == op[w].sale
<1>1. s \in Sales
  BY OperationFields DEF WriteReview, Approve, ReopenSale, Rearm, Requeue, Refuse
<1>2. PICK o \in Operation : Continue(w, o) /\ o.at \in {"idle", "calling"}
  <2>1. Idle \in Operation /\ Idle.at = "idle"
    BY DEF Operation, Idle
  <2>2. CASE Rearm(w)
    <3> DEFINE c == [at |-> "calling", sale |-> s]
    <3>1. c \in Operation /\ c.at = "calling"
      BY <1>1, OperationBuilt
    <3>2. Continue(w, c)
      BY <2>2 DEF Rearm
    <3> QED
      BY <3>1, <3>2
  <2> QED
    BY <2>1, <2>2 DEF WriteReview, Approve, ReopenSale, Requeue, Refuse
<1>3. assigned \subseteq assigned' /\ UNCHANGED <<linked, files, task>>
  BY DEF WriteReview, Approve, ReopenSale, Rearm, Requeue, Refuse, decision
<1>4. WorkIsAssigned' /\ op' \in [Workers -> Operation]
  BY <1>2, <1>3, WorkKept DEF task
<1>5. CASE WriteReview(w)
  BY <1>1, <1>3, <1>4, <1>5 DEF WriteReview, TypeOK, QueueMatchesSale, files, task
<1>6. CASE Approve(w)
  <2>1. /\ review' = [review EXCEPT ![s] = "APPROVED"] /\ sync' = [sync EXCEPT ![s] = "PENDING"]
        /\ assigned' = assigned \cup {s} /\ completed' = completed \ {s}
        /\ handoff' \in SUBSET Sales /\ UNCHANGED status
    BY <1>1, <1>6 DEF Approve, SetSync, TypeOK
  <2>2. QueueMatchesSale'
    BY <1>1, <1>3, <2>1 DEF QueueMatchesSale, TypeOK, task
  <2> QED
    BY <1>1, <1>3, <1>4, <2>1, <2>2 DEF TypeOK, SyncStatus, Claimable, files, task
<1>7. CASE ReopenSale(w)
  BY <1>1, <1>3, <1>4, <1>7 DEF ReopenSale, TypeOK, QueueMatchesSale, files, task
<1>8. CASE Rearm(w) \/ Requeue(w) \/ Refuse(w)
  <2>1. PICK state \in {"PENDING", "RETRY"} : SetSync(s, state)
    BY <1>8 DEF Rearm, Requeue, Refuse
  <2>2. UNCHANGED decision
    BY <1>8 DEF Rearm, Requeue, Refuse
  <2>3. QueueMatchesSale' /\ sync' \in [Sales -> SyncStatus]
    BY <1>1, <1>3, <2>1, <2>2, QueueKept DEF decision, task
  <2> QED
    BY <1>3, <1>4, <2>2, <2>3 DEF TypeOK, decision, files, task
<1> QED
  BY <1>5, <1>6, <1>7, <1>8

LEMMA SyncProceed ==
    ASSUME SyncInv, NEW w \in Workers, Proceed(w)
    PROVE  SyncInv'
<1> USE DEF SyncInv, Done, At
<1> DEFINE s == op[w].sale
<1>1. op[w].at # "idle" => s \in Sales
  BY OperationFields
<1>2. Idle \in Operation /\ Idle.at = "idle"
  BY DEF Operation, Idle
<1>3. CASE \/ WriteReview(w) \/ Approve(w) \/ ReopenSale(w) \/ Rearm(w) \/ Requeue(w) \/ Refuse(w)
  BY <1>3, SyncDecision
<1>6. CASE ClaimRetried(w)
  <2>1. CASE Claim(w, s)
    <3> DEFINE look == [at |-> "looking", sale |-> s, left |-> docs[s]]
               refuse == [at |-> "refused", sale |-> s]
    <3>1. s \in Sales
      BY <1>1, <1>6 DEF ClaimRetried
    <3>2. /\ look \in Operation /\ look.at = "looking" /\ look.sale = s
          /\ refuse \in Operation /\ refuse.at = "refused"
      BY <3>1, OperationBuilt DEF TypeOK
    <3>3. (Continue(w, look) /\ s \in assigned) \/ Continue(w, refuse)
      BY <2>1 DEF Claim, MayGo
    <3>4. SetSync(s, "PROCESSING") /\ UNCHANGED <<decision, linked, files, task>>
      BY <2>1 DEF Claim
    <3>5. assigned \subseteq assigned' /\ demand \subseteq demand'
      BY <3>4 DEF decision, task
    <3>6. WorkIsAssigned' /\ op' \in [Workers -> Operation]
      <4> HIDE DEF look, refuse, s
      <4> QED
        BY <3>2, <3>3, <3>5, WorkKept
    <3>7. QueueMatchesSale' /\ sync' \in [Sales -> SyncStatus]
      BY <3>1, <3>4, QueueKept DEF decision, task
    <3> QED
      BY <3>4, <3>6, <3>7 DEF TypeOK, decision, files, task
  <2>2. CASE Done(w) /\ UNCHANGED <<sale, files, task>>
    <3>1. WorkIsAssigned' /\ op' \in [Workers -> Operation]
      BY <1>2, <2>2, WorkKept DEF sale, decision, task
    <3> QED
      BY <2>2, <3>1 DEF TypeOK, QueueMatchesSale, sale, decision, files, task
  <2> QED
    BY <1>6, <2>1, <2>2 DEF ClaimRetried
<1>7. CASE EnsureDemand(w)
  <2> DEFINE o == [at |-> "importing", sale |-> s,
                   left |-> op[w].left \ gone[s], failed |-> FALSE]
  <2>1. o \in Operation /\ o.at = "importing" /\ o.sale = s
    BY <1>1, <1>7, OperationFields, OperationBuilt DEF EnsureDemand
  <2>2. /\ Continue(w, o) /\ demand' = demand \cup {s} /\ UNCHANGED <<sale, files, remote>>
        /\ s \in assigned /\ s \in Sales
    BY <1>1, <1>7 DEF EnsureDemand, WorkIsAssigned
  <2>3. WorkIsAssigned' /\ op' \in [Workers -> Operation]
    BY <2>1, <2>2, WorkKept DEF sale, decision
  <2> QED
    BY <2>2, <2>3 DEF TypeOK, QueueMatchesSale, sale, decision, files
<1>8. CASE ImportDocument(w)
  <2>1. PICK d \in op[w].left :
          \/ /\ Attach(s, {d})
             /\ Continue(w, [op[w] EXCEPT !.left = @ \ {d}])
          \/ /\ Attach(s, {d}) \/ UNCHANGED remote
             /\ Continue(w, [op[w] EXCEPT !.left = @ \ {d}, !.failed = TRUE])
    BY <1>8 DEF ImportDocument
  <2> DEFINE rest == [op[w] EXCEPT !.left = @ \ {d}]
             spoilt == [op[w] EXCEPT !.left = @ \ {d}, !.failed = TRUE]
  <2>4. rest \in Operation /\ spoilt \in Operation
    BY <1>8, OperationReduced DEF ImportDocument
  <2>5. /\ rest.at = op[w].at /\ rest.sale = s
        /\ spoilt.at = op[w].at /\ spoilt.sale = s
    BY <1>8, UploadFields DEF ImportDocument
  <2>6. Continue(w, rest) \/ Continue(w, spoilt)
    BY <2>1
  <2>2. PICK o \in Operation : Continue(w, o) /\ o.at = op[w].at /\ o.sale = s
    <3> HIDE DEF rest, spoilt
    <3> QED
      BY <2>4, <2>5, <2>6
  <2>3. remote' \in [Sales -> SUBSET Documents]
    BY <1>1, <1>8, <2>1, OperationFields DEF ImportDocument, Attach, TypeOK
  <2>7. UNCHANGED <<sale, files, demand>> /\ op[w].at \in {"importing", "pushing"}
    BY <1>8 DEF ImportDocument
  <2>8. WorkIsAssigned' /\ op' \in [Workers -> Operation]
    <3>1. o.at = "importing" => o.sale \in demand'
      BY <2>2, <2>7 DEF WorkIsAssigned
    <3> QED
      BY <2>2, <2>7, <3>1, WorkKept DEF sale, decision
  <2> QED
    BY <2>3, <2>7, <2>8 DEF TypeOK, QueueMatchesSale, sale, decision, files
<1>9. CASE Link(w)
  <2> DEFINE o == [at |-> "timer", sale |-> s]
  <2>1. s \in Sales /\ s \in demand
    BY <1>1, <1>9 DEF Link, WorkIsAssigned
  <2>2. o \in Operation /\ o.at = "timer"
    BY <2>1, OperationBuilt
  <2>3. /\ Continue(w, o) /\ sync' = [sync EXCEPT ![s] = "SYNCED"] /\ linked' = linked \cup {s}
        /\ UNCHANGED <<decision, files, task>>
    BY <1>9 DEF Link, SetSync
  <2>4. WorkIsAssigned' /\ op' \in [Workers -> Operation]
    BY <2>2, <2>3, WorkKept DEF decision, task
  <2>5. QueueMatchesSale'
    BY <2>1, <2>3 DEF QueueMatchesSale, TypeOK, decision, task
  <2> QED
    BY <2>1, <2>3, <2>4, <2>5 DEF TypeOK, SyncStatus, decision, files, task
<1>10. CASE SyncFails(w)
  <2>1. /\ demand' = demand \/ (demand' = demand \cup {s} /\ s \in assigned)
        /\ SetSync(s, "RETRY") /\ Done(w) /\ UNCHANGED <<decision, linked, files, remote>>
    BY <1>10 DEF SyncFails, WorkIsAssigned
  <2>2. s \in Sales
    BY <1>1, <1>10 DEF SyncFails
  <2>3. WorkIsAssigned' /\ op' \in [Workers -> Operation]
    <3>1. demand \subseteq demand' /\ assigned \subseteq assigned'
      BY <2>1 DEF decision
    <3> QED
      BY <1>2, <2>1, <3>1, WorkKept
  <2>4. QueueMatchesSale'
    BY <2>1, <2>2 DEF QueueMatchesSale, TypeOK, SetSync, decision
  <2>5. sync' \in [Sales -> SyncStatus]
    BY <2>1, <2>2 DEF TypeOK, SetSync, SyncStatus, Claimable
  <2> QED
    BY <2>1, <2>2, <2>3, <2>4, <2>5 DEF TypeOK, decision, files
<1>11. CASE Reinforce(w) \/ EndReinforce(w) \/ pushSaleDocumentIfSynced(w)
  <2>1. s \in Sales
    BY <1>1, <1>11 DEF Reinforce, EndReinforce, pushSaleDocumentIfSynced
  <2>2. PICK o \in Operation : Continue(w, o) /\ o.at \in {"idle", "pushing"}
    <3> DEFINE o == [at |-> "pushing", sale |-> s, left |-> docs[s], failed |-> FALSE]
    <3>1. docs[s] \in SUBSET Documents
      BY <2>1 DEF TypeOK
    <3>2. o \in Operation /\ o.at = "pushing"
      BY <2>1, <3>1, OperationBuilt
    <3>3. Done(w) \/ Continue(w, o)
      BY <1>11 DEF Reinforce, EndReinforce, pushSaleDocumentIfSynced
    <3>4. CASE Done(w)
      BY <1>2, <3>4
    <3>5. CASE Continue(w, o)
      <4> HIDE DEF o
      <4> QED
        BY <3>2, <3>5
    <3> QED
      BY <3>3, <3>4, <3>5
  <2>3. UNCHANGED sync \/ SetSync(s, "RETRY")
    BY <1>11 DEF Reinforce, EndReinforce, pushSaleDocumentIfSynced, DeliveryFailed
  <2>4. UNCHANGED <<decision, linked, files, demand>>
    BY <1>11 DEF Reinforce, EndReinforce, pushSaleDocumentIfSynced, task
  <2>5. remote' \in [Sales -> SUBSET Documents]
    <3>1. CASE pushSaleDocumentIfSynced(w)
      <4>1. op[w].document \in Documents
        BY <3>1, OperationFields DEF pushSaleDocumentIfSynced
      <4> QED
        BY <2>1, <3>1, <4>1 DEF pushSaleDocumentIfSynced, Attach, TypeOK
    <3> QED
      BY <1>11, <3>1 DEF Reinforce, EndReinforce, TypeOK, task
  <2>6. WorkIsAssigned' /\ op' \in [Workers -> Operation]
    BY <2>2, <2>4, WorkKept DEF decision
  <2>7. QueueMatchesSale' /\ sync' \in [Sales -> SyncStatus]
    <3>1. CASE UNCHANGED sync
      BY <2>4, <3>1 DEF QueueMatchesSale, TypeOK, decision
    <3>2. CASE SetSync(s, "RETRY")
      BY <2>1, <2>4, <3>2, QueueKept DEF decision
    <3> QED
      BY <2>3, <3>1, <3>2
  <2> QED
    BY <2>4, <2>5, <2>6, <2>7 DEF TypeOK, decision, files
<1>14. CASE removeSaleDocumentFromTask(w)
  <2>1. s \in Sales /\ UNCHANGED <<sale, files, demand>>
    BY <1>1, <1>14 DEF removeSaleDocumentFromTask
  <2>2. PICK o \in Operation : Continue(w, o) /\ o.at \in {"idle", "removing"}
    BY <1>2, <1>14, OperationRemoving, OperationFields DEF removeSaleDocumentFromTask, TypeOK, Operation
  <2>3. remote' \in [Sales -> SUBSET Documents]
    BY <1>14, <2>1 DEF removeSaleDocumentFromTask, TypeOK
  <2>4. WorkIsAssigned' /\ op' \in [Workers -> Operation]
    BY <2>1, <2>2, WorkKept DEF sale, decision
  <2> QED
    BY <2>1, <2>3, <2>4 DEF TypeOK, QueueMatchesSale, sale, decision, files
<1>15. CASE RemoveDocument(w)
  <2>1. s \in Sales /\ op[w].document \in Documents /\ Done(w) /\ UNCHANGED <<sale, task>>
    BY <1>1, <1>15, OperationFields DEF RemoveDocument
  <2>2. docs' \in [Sales -> SUBSET Documents] /\ gone' \in [Sales -> SUBSET Documents]
    BY <1>15, <2>1 DEF RemoveDocument, TypeOK
  <2>3. WorkIsAssigned' /\ op' \in [Workers -> Operation]
    BY <1>2, <2>1, WorkKept DEF sale, decision, task
  <2> QED
    BY <2>1, <2>2, <2>3 DEF TypeOK, QueueMatchesSale, sale, decision, task
<1> QED
  BY <1>3, <1>6, <1>7, <1>8, <1>9, <1>10, <1>11, <1>14, <1>15 DEF Proceed, Advance

LEMMA SyncStep == SyncInv /\ [Next]_vars => SyncInv'
<1> SUFFICES ASSUME SyncInv, [Next]_vars PROVE SyncInv'
  OBVIOUS
<1> USE DEF SyncInv
<1>1. CASE UNCHANGED vars
  BY <1>1 DEF vars, sale, decision, files, task, TypeOK, QueueMatchesSale, WorkIsAssigned
<1>2. ASSUME NEW w \in Workers, NEW s \in Sales, Begin(w, s)
      PROVE  SyncInv'
  BY <1>2, SyncBegin
<1>3. ASSUME NEW w \in Workers, Proceed(w)
      PROVE  SyncInv'
  BY <1>3, SyncProceed
<1>4. ASSUME NEW w \in Workers, Crash(w)
      PROVE  SyncInv'
  <2>1. Idle \in Operation /\ Idle.at = "idle"
    BY DEF Operation, Idle
  <2>2. WorkIsAssigned' /\ op' \in [Workers -> Operation]
    BY <1>4, <2>1, WorkKept DEF Crash, Done, sale, decision, task
  <2> QED
    BY <1>4, <2>2 DEF Crash, TypeOK, QueueMatchesSale, sale, decision, files, task
<1>5. ASSUME NEW s \in Sales, EndSale(s)
      PROVE  SyncInv'
  BY <1>5 DEF EndSale, TypeOK, QueueMatchesSale, WorkIsAssigned, files, task
<1>6. ASSUME NEW s \in Sales, Reclaim(s)
      PROVE  SyncInv'
  <2>1. SetSync(s, "RETRY") /\ UNCHANGED <<decision, linked, files, task, op>>
    BY <1>6 DEF Reclaim
  <2>2. QueueMatchesSale' /\ sync' \in [Sales -> SyncStatus]
    BY <2>1, QueueKept DEF decision, task
  <2> QED
    BY <2>1, <2>2 DEF TypeOK, WorkIsAssigned, decision, files, task
<1>7. ASSUME NEW s \in Sales, Callback(s)
      PROVE  SyncInv'
  <2>1. /\ s \in demand /\ linked' = linked \cup {s} /\ SetSync(s, "SYNCED")
        /\ UNCHANGED <<assigned, handoff, files, task, op>>
    BY <1>7 DEF Callback
  <2>2. /\ review' = review \/ review' = [review EXCEPT ![s] = "APPROVED"]
        /\ status' \in [Sales -> {"OPEN", "ACTIVATED", "ENDED"}]
        /\ completed' \in SUBSET Sales
        /\ review' \in [Sales -> {"AWAITING", "APPROVED"}]
    BY <1>7 DEF Callback, TypeOK
  <2>3. QueueMatchesSale'
    BY <2>1, <2>2 DEF QueueMatchesSale, TypeOK, SetSync, task
  <2> QED
    BY <2>1, <2>2, <2>3 DEF TypeOK, WorkIsAssigned, SetSync, SyncStatus, files, task
<1>8. ASSUME NEW s \in Sales, NEW d \in Documents, LoseFile(s, d)
      PROVE  SyncInv'
  BY <1>8 DEF LoseFile, sale, decision, task, TypeOK, QueueMatchesSale, WorkIsAssigned
<1> QED
  BY <1>1, <1>2, <1>3, <1>4, <1>5, <1>6, <1>7, <1>8 DEF Next, Step, Proceed

\* Whatever happens, the state keeps its types, and no sale is linked to a
\* demand that Luxus Task does not have.
THEOREM SyncTypeCorrect == Spec => []TypeOK
<1> QED
  BY SyncInit, SyncStep, PTL DEF Spec, SyncInv

\* Whatever overlaps, reopenings and reviews included, an approved sale has
\* its place in the queue, a demand comes only of a sale that was handed over
\* with a responsible, and such a sale is linked while it counts as synced.
THEOREM QueueConsistent == Spec => []QueueMatchesSale
<1> QED
  BY SyncInit, SyncStep, PTL DEF Spec, SyncInv

(***************************************************************************)
(* No document of a synced sale is forgotten, as long as no callback,      *)
(* crash or deletion comes in between                                      *)
(***************************************************************************)

\* What the theorem excludes: a callback writes SYNCED over a RETRY, a crash
\* loses the delivery under way, a deletion undoes one.
NothingUndone == Happens \cap {"callback", "crash", "delete"} = {}

Missing(s) == docs[s] \ (gone[s] \cup remote[s])

Delivering == {"timer", "pushing", "uploaded"}

\* Worker w will still attach document d of s or ask for another attempt.
Owes(w, s, d) ==
    /\ op[w].at \in Delivering
    /\ op[w].sale = s
    /\ op[w].at = "pushing" => d \in op[w].left \/ op[w].failed
    /\ op[w].at = "uploaded" => op[w].document = d

\* The inductive form of DocumentsDelivered: it names who is responsible for
\* each document that is missing while the sale counts as synced.
EachIsOwed ==
    \A s \in linked : sync[s] = "SYNCED"
        => \A d \in Missing(s) : \E w \in Workers : Owes(w, s, d)

DeliveryInv == SyncInv /\ EachIsOwed /\ \A w \in Workers : op[w].at # "deleting"

LEMMA OwedImpliesDelivered == DeliveryInv => DocumentsDelivered
<1> SUFFICES ASSUME DeliveryInv,
                    NEW s \in linked, sync[s] = "SYNCED", ~BusyWith(s),
                    NEW d \in docs[s] \ gone[s], d \notin remote[s]
             PROVE  FALSE
  BY DEF DocumentsDelivered
<1>1. PICK w \in Workers : Owes(w, s, d)
  BY DEF DeliveryInv, EachIsOwed, Missing
<1>2. op[w].at # "idle" /\ op[w].sale = s
  BY <1>1 DEF Owes, Delivering
<1>3. ~Free(w)
  BY <1>2 DEF Free, Idle
<1> QED
  BY <1>2, <1>3 DEF BusyWith

LEMMA DeliveryInit == Init => EachIsOwed /\ \A w \in Workers : op[w].at # "deleting"
  BY DEF Init, EachIsOwed, Missing, Idle

\* A worker that owes nothing may do anything that neither syncs a sale nor
\* adds a missing document: those who owe are others.
LEMMA QuietStep ==
    ASSUME TypeOK, EachIsOwed, NEW w \in Workers, op[w].at \notin Delivering,
           \A v \in Workers \ {w} : op'[v] = op[v],
           \A s \in Sales :
              /\ sync'[s] = "SYNCED" => sync[s] = "SYNCED"
              /\ Missing(s)' \subseteq Missing(s),
           UNCHANGED linked
    PROVE  EachIsOwed'
<1> SUFFICES ASSUME NEW s \in linked, sync'[s] = "SYNCED", NEW d \in Missing(s)'
             PROVE  \E v \in Workers : Owes(v, s, d)'
  BY DEF EachIsOwed
<1>1. PICK v \in Workers : Owes(v, s, d)
  BY DEF EachIsOwed, TypeOK
<1>2. v # w
  BY <1>1 DEF Owes
<1> QED
  BY <1>1, <1>2 DEF Owes

LEMMA DeliveryBegin ==
    ASSUME NothingUndone, DeliveryInv, NEW w \in Workers, NEW s \in Sales, Begin(w, s)
    PROVE  EachIsOwed' /\ \A v \in Workers : op'[v].at # "deleting"
<1> USE DEF DeliveryInv, SyncInv
<1>1. op[w].at \notin Delivering
  <2>1. Free(w)
    BY DEF Begin, startReview, approveForTask, sendToTask, reopen, retryTaskSync, update, ClaimNext,
           uploadFile, deleteDocument
  <2> QED
    BY <2>1 DEF Free, Idle, Delivering
<1>2. PICK o : Continue(w, o) /\ o.at # "deleting"
  <2>1. ASSUME NEW d \in Documents, deleteDocument(w, s, d)
        PROVE  FALSE
    BY <2>1 DEF deleteDocument, NothingUndone
  <2>2. CASE ClaimNext(w, s)
    <3>1. Continue(w, [at |-> "looking", sale |-> s, left |-> docs[s]])
      BY <2>2 DEF ClaimNext, Claim, MayGo
    <3> QED
      BY <3>1
  <2>3. ASSUME NEW d \in Documents, uploadFile(w, s, d)
        PROVE  \E o : Continue(w, o) /\ o.at # "deleting"
    <3>1. Continue(w, [at |-> "uploaded", sale |-> s, document |-> d])
      BY <2>3 DEF uploadFile
    <3> QED
      BY <3>1
  <2>4. CASE startReview(w, s) \/ approveForTask(w, s) \/ sendToTask(w, s) \/ reopen(w, s)
             \/ retryTaskSync(w, s) \/ update(w, s)
    <3>1. PICK p \in {"approving", "sending", "reviewing", "reopening", "editing", "retrying"} :
            Continue(w, [at |-> p, sale |-> s])
      BY <2>4 DEF startReview, approveForTask, sendToTask, reopen, retryTaskSync, update
    <3> QED
      BY <3>1
  <2> QED
    BY <2>1, <2>2, <2>3, <2>4 DEF Begin
<1>3. op'[w] = o /\ \A v \in Workers \ {w} : op'[v] = op[v]
  BY <1>2 DEF Continue, TypeOK
<1>4. CASE \E d \in Documents : uploadFile(w, s, d)
  <2>1. PICK d \in Documents : uploadFile(w, s, d)
    BY <1>4
  <2>0. UNCHANGED linked
    BY <2>1 DEF uploadFile, sale
  <2> SUFFICES ASSUME NEW t \in linked, sync'[t] = "SYNCED", NEW e \in Missing(t)'
               PROVE  \E v \in Workers : Owes(v, t, e)'
    BY <1>2, <1>3, <2>0 DEF EachIsOwed
  <2>2. CASE t = s /\ e = d
    <3>1. op'[w] = [at |-> "uploaded", sale |-> s, document |-> d]
      BY <2>1 DEF uploadFile, Continue, TypeOK
    <3>2. Owes(w, t, e)'
      BY <2>2, <3>1 DEF Owes, Delivering
    <3> QED
      BY <3>2
  <2>3. CASE ~(t = s /\ e = d)
    <3>1. e \in Missing(t) /\ sync[t] = "SYNCED"
      BY <2>1, <2>3 DEF uploadFile, Missing, TypeOK, sale, task
    <3>2. PICK v \in Workers : Owes(v, t, e)
      BY <3>1 DEF EachIsOwed
    <3>3. v # w
      BY <1>1, <3>2 DEF Owes
    <3> QED
      BY <1>3, <3>2, <3>3 DEF Owes
  <2> QED
    BY <2>2, <2>3
<1>5. CASE ~\E d \in Documents : uploadFile(w, s, d)
  <2>1. \A t \in Sales :
          /\ sync'[t] = "SYNCED" => sync[t] = "SYNCED"
          /\ Missing(t)' = Missing(t)
    <3>1. UNCHANGED <<files, task>> /\ (UNCHANGED sync \/ SetSync(s, "PROCESSING"))
      BY <1>5 DEF Begin, startReview, approveForTask, sendToTask, reopen, retryTaskSync, update,
                  ClaimNext, Claim, deleteDocument, sale
    <3> QED
      BY <3>1 DEF SetSync, Missing, TypeOK, files, task
  <2>3. UNCHANGED linked
    BY <1>5 DEF Begin, startReview, approveForTask, sendToTask, reopen, retryTaskSync, update,
                ClaimNext, Claim, deleteDocument, sale
  <2>2. EachIsOwed'
    BY <1>1, <1>3, <2>1, <2>3, QuietStep
  <2> QED
    BY <1>2, <1>3, <2>2
<1> QED
  BY <1>4, <1>5

\* The steps of a sync up to its link, of a decision and of a deletion.
Quiet(w) ==
    \/ WriteReview(w) \/ Approve(w) \/ ReopenSale(w) \/ Rearm(w) \/ Requeue(w) \/ Refuse(w)
    \/ ClaimRetried(w) \/ EnsureDemand(w) \/ SyncFails(w) \/ RemoveDocument(w)
    \/ ImportDocument(w) /\ At(w, "importing")

LEMMA DeliveryQuiet ==
    ASSUME DeliveryInv, NEW w \in Workers, Quiet(w)
    PROVE  EachIsOwed'
<1> USE DEF DeliveryInv, SyncInv, Done
<1>1. op[w].at \notin Delivering /\ op[w].at # "idle"
  BY DEF Quiet, WriteReview, Approve, ReopenSale, Rearm, Requeue, Refuse, ClaimRetried, EnsureDemand,
         SyncFails, RemoveDocument, At, Delivering
<1>2. \A v \in Workers \ {w} : op'[v] = op[v]
  <2>1. \E o : Continue(w, o)
    BY DEF Quiet, WriteReview, Approve, ReopenSale, Rearm, Requeue, Refuse, ClaimRetried, Claim,
           EnsureDemand, SyncFails, RemoveDocument, ImportDocument
  <2> QED
    BY <2>1 DEF Continue, TypeOK
<1>3. op[w].sale \in Sales
  BY <1>1, OperationFields
<1>4. \A t \in Sales : sync'[t] = "SYNCED" => sync[t] = "SYNCED"
  <2>1. UNCHANGED sync \/ \E state \in {"PENDING", "RETRY", "PROCESSING"} : SetSync(op[w].sale, state)
    BY DEF Quiet, WriteReview, Approve, ReopenSale, Rearm, Requeue, Refuse, ClaimRetried, Claim,
           EnsureDemand, SyncFails, RemoveDocument, ImportDocument, sale
  <2> QED
    BY <1>3, <2>1 DEF SetSync, TypeOK
<1>5. \A t \in Sales : Missing(t)' \subseteq Missing(t)
  <2>1. CASE RemoveDocument(w)
    BY <1>3, <2>1 DEF RemoveDocument, Missing, TypeOK, task
  <2>2. CASE ImportDocument(w)
    BY <1>3, <2>2 DEF ImportDocument, Attach, Missing, TypeOK, files
  <2>3. CASE ~RemoveDocument(w) /\ ~ImportDocument(w)
    <3>1. UNCHANGED <<docs, gone, remote>>
      BY <2>3 DEF Quiet, WriteReview, Approve, ReopenSale, Rearm, Requeue, Refuse, ClaimRetried,
                  Claim, EnsureDemand, SyncFails, files, task
    <3> QED
      BY <3>1 DEF Missing
  <2> QED
    BY <2>1, <2>2, <2>3
<1>6. UNCHANGED linked
  BY DEF Quiet, WriteReview, Approve, ReopenSale, Rearm, Requeue, Refuse, ClaimRetried, Claim,
         EnsureDemand, SyncFails, RemoveDocument, ImportDocument, sale
<1> QED
  BY <1>1, <1>2, <1>4, <1>5, <1>6, QuietStep

\* The link leaves a timer, which owes every document.
LEMMA DeliveryLink ==
    ASSUME DeliveryInv, NEW w \in Workers, Link(w)
    PROVE  EachIsOwed'
<1> USE DEF DeliveryInv, SyncInv
<1> SUFFICES ASSUME NEW t \in linked', sync'[t] = "SYNCED", NEW e \in Missing(t)'
             PROVE  \E v \in Workers : Owes(v, t, e)'
  BY DEF EachIsOwed
<1>1. /\ op[w].at = "importing" /\ op[w].sale \in Sales
      /\ op'[w] = [at |-> "timer", sale |-> op[w].sale]
      /\ \A v \in Workers \ {w} : op'[v] = op[v]
  BY OperationFields DEF Link, At, Continue, TypeOK
<1>2. CASE t = op[w].sale
  <2>1. Owes(w, t, e)'
    BY <1>1, <1>2 DEF Owes, Delivering
  <2> QED
    BY <2>1
<1>3. CASE t # op[w].sale
  <2>1. t \in linked /\ sync[t] = "SYNCED" /\ e \in Missing(t)
    BY <1>1, <1>3 DEF Link, SetSync, Missing, TypeOK, files, task
  <2>2. PICK v \in Workers : Owes(v, t, e)
    BY <2>1 DEF EachIsOwed
  <2>3. v # w
    BY <1>1, <2>2 DEF Owes, Delivering
  <2> QED
    BY <1>1, <2>2, <2>3 DEF Owes
<1> QED
  BY <1>2, <1>3

\* A worker that owes documents delivers them, passes them on to its next
\* step, or hands the sale back to the queue.
LEMMA DeliveryKept ==
    ASSUME DeliveryInv, NEW w \in Workers,
           \/ Reinforce(w) \/ EndReinforce(w) \/ pushSaleDocumentIfSynced(w)
           \/ ImportDocument(w) /\ At(w, "pushing")
    PROVE  EachIsOwed'
<1> USE DEF DeliveryInv, SyncInv, Done, At
<1>0. UNCHANGED linked
  BY DEF Reinforce, EndReinforce, pushSaleDocumentIfSynced, ImportDocument, sale
<1> SUFFICES ASSUME NEW t \in linked, sync'[t] = "SYNCED", NEW e \in Missing(t)'
             PROVE  \E v \in Workers : Owes(v, t, e)'
  BY <1>0 DEF EachIsOwed
<1>1. op[w].at \in Delivering /\ op[w].sale \in Sales
  BY OperationFields
  DEF Reinforce, EndReinforce, pushSaleDocumentIfSynced, Delivering
<1>2. \A v \in Workers \ {w} : op'[v] = op[v]
  BY DEF Reinforce, EndReinforce, pushSaleDocumentIfSynced, ImportDocument, Continue, TypeOK
<1>3. sync[t] = "SYNCED"
  BY <1>1 DEF Reinforce, EndReinforce, pushSaleDocumentIfSynced, ImportDocument, DeliveryFailed,
              SetSync, TypeOK, sale
<1>4. e \in Missing(t)
  <2>1. CASE ImportDocument(w)
    <3>1. \/ UNCHANGED remote
          \/ \E d : Attach(op[w].sale, {d})
      BY <2>1 DEF ImportDocument
    <3>2. UNCHANGED <<docs, gone>>
      BY <2>1 DEF ImportDocument, files
    <3> QED
      BY <1>1, <3>1, <3>2 DEF Attach, Missing, TypeOK
  <2>2. CASE pushSaleDocumentIfSynced(w)
    BY <1>1, <2>2 DEF pushSaleDocumentIfSynced, Attach, Missing, TypeOK, files
  <2>3. CASE Reinforce(w) \/ EndReinforce(w)
    BY <2>3 DEF Reinforce, EndReinforce, Missing, files, task
  <2> QED
    BY <2>1, <2>2, <2>3
<1>5. PICK v \in Workers : Owes(v, t, e)
  BY <1>3, <1>4 DEF EachIsOwed
<1>6. CASE v # w
  BY <1>2, <1>5, <1>6 DEF Owes
<1>7. CASE v = w /\ Reinforce(w)
  <2>1. op[w].sale = t /\ t \in linked /\ docs[t] # {}
    BY <1>3, <1>4, <1>5, <1>7 DEF Owes, Missing
  <2>2. sync'[t] # "RETRY"
    OBVIOUS
  <2>3. docs[t] \cap gone[t] = {}
    BY <1>3, <1>7, <2>1, <2>2 DEF Reinforce, SetSync, TypeOK
  <2>4. op'[w] = [at |-> "pushing", sale |-> t, left |-> docs[t], failed |-> FALSE]
    BY <1>3, <1>7, <2>1, <2>3 DEF Reinforce, Continue, TypeOK
  <2>5. Owes(w, t, e)'
    BY <1>4, <2>4 DEF Owes, Delivering, Missing
  <2> QED
    BY <2>5
<1>8. CASE v = w /\ EndReinforce(w)
  <2>1. op[w].sale = t /\ op[w].failed
    BY <1>5, <1>8 DEF Owes, EndReinforce
  <2> QED
    BY <1>8, <2>1 DEF EndReinforce, SetSync, TypeOK
<1>9. CASE v = w /\ pushSaleDocumentIfSynced(w)
  <2>1. op[w].sale = t /\ op[w].document = e /\ t \in linked /\ e \notin gone[t]
    BY <1>3, <1>4, <1>5, <1>9 DEF Owes, pushSaleDocumentIfSynced, Missing
  <2>2. ~SetSync(t, "RETRY")
    BY DEF SetSync, TypeOK
  <2>3. Attach(t, {e})
    BY <1>9, <2>1, <2>2 DEF pushSaleDocumentIfSynced, DeliveryFailed
  <2> QED
    BY <2>3 DEF Attach, Missing, TypeOK
<1>10. CASE v = w /\ ImportDocument(w) /\ op[w].at = "pushing"
  <2>1. op[w].sale = t /\ (e \in op[w].left \/ op[w].failed)
    BY <1>5, <1>10 DEF Owes
  <2>2. PICK d \in op[w].left :
          \/ /\ Attach(t, {d})
             /\ Continue(w, [op[w] EXCEPT !.left = @ \ {d}])
          \/ Continue(w, [op[w] EXCEPT !.left = @ \ {d}, !.failed = TRUE])
    BY <1>10, <2>1 DEF ImportDocument
  <2> DEFINE rest == [op[w] EXCEPT !.left = @ \ {d}]
             spoilt == [op[w] EXCEPT !.left = @ \ {d}, !.failed = TRUE]
  <2>3. /\ rest.at = "pushing" /\ rest.sale = t
        /\ rest.left = op[w].left \ {d} /\ rest.failed = op[w].failed
        /\ spoilt.at = "pushing" /\ spoilt.sale = t /\ spoilt.failed
    BY <1>10, <2>1, UploadFields
  <2>4. CASE Attach(t, {d}) /\ Continue(w, rest)
    <3>1. e # d
      BY <2>4 DEF Attach, Missing, TypeOK
    <3>2. op'[w] = rest
      BY <2>4 DEF Continue, TypeOK
    <3> HIDE DEF rest
    <3>3. Owes(w, t, e)'
      BY <2>1, <2>3, <3>1, <3>2 DEF Owes, Delivering
    <3> QED
      BY <3>3
  <2>5. CASE Continue(w, spoilt)
    <3>1. op'[w] = spoilt
      BY <2>5 DEF Continue, TypeOK
    <3> HIDE DEF spoilt
    <3>2. Owes(w, t, e)'
      BY <2>3, <3>1 DEF Owes, Delivering
    <3> QED
      BY <3>2
  <2> QED
    BY <2>2, <2>4, <2>5
<1> QED
  BY <1>6, <1>7, <1>8, <1>9, <1>10

\* No step of an operation starts a deletion at Luxus Task.
LEMMA NoDeletion ==
    ASSUME NothingUndone, DeliveryInv, NEW w \in Workers, Proceed(w)
    PROVE  ~removeSaleDocumentFromTask(w) /\ \A v \in Workers : op'[v].at # "deleting"
<1> USE DEF DeliveryInv, SyncInv, Done, At, TypeOK, Idle
<1>1. ~removeSaleDocumentFromTask(w)
  BY DEF removeSaleDocumentFromTask
<1>2. CASE ImportDocument(w)
  <2>1. PICK d : \/ Continue(w, [op[w] EXCEPT !.left = @ \ {d}])
                 \/ Continue(w, [op[w] EXCEPT !.left = @ \ {d}, !.failed = TRUE])
    BY <1>2 DEF ImportDocument
  <2>2. \A v \in Workers \ {w} : op'[v] = op[v]
    BY <2>1 DEF Continue
  <2>3. op'[w].at = op[w].at
    <3> DEFINE rest == [op[w] EXCEPT !.left = @ \ {d}]
               spoilt == [op[w] EXCEPT !.left = @ \ {d}, !.failed = TRUE]
    <3>1. rest.at = op[w].at /\ spoilt.at = op[w].at
      BY <1>2, UploadFields DEF ImportDocument
    <3>2. op'[w] = rest \/ op'[w] = spoilt
      BY <2>1 DEF Continue
    <3> HIDE DEF rest, spoilt
    <3> QED
      BY <3>1, <3>2
  <2> QED
    BY <1>1, <2>2, <2>3
<1>3. CASE ~ImportDocument(w)
  BY <1>1, <1>3
  DEF Proceed, Advance, WriteReview, Approve, ReopenSale, Rearm, Requeue, Refuse, ClaimRetried,
      Claim, EnsureDemand, Link, SyncFails, Reinforce, EndReinforce, pushSaleDocumentIfSynced,
      RemoveDocument, Continue
<1> QED
  BY <1>2, <1>3

LEMMA DeliveryStep ==
    ASSUME NothingUndone, DeliveryInv, [Next]_vars
    PROVE  DeliveryInv'
<1> USE DEF DeliveryInv
<1>1. SyncInv'
  BY SyncStep
<1>2. CASE UNCHANGED vars
  BY <1>1, <1>2 DEF vars, sale, files, task, EachIsOwed, Missing, Owes
<1>3. ASSUME NEW w \in Workers, NEW s \in Sales, Begin(w, s)
      PROVE  DeliveryInv'
  BY <1>1, <1>3, DeliveryBegin
<1>4. ASSUME NEW w \in Workers, Proceed(w)
      PROVE  DeliveryInv'
  <2>1. EachIsOwed'
    BY <1>4, DeliveryQuiet, DeliveryLink, DeliveryKept, NoDeletion
    DEF Proceed, Advance, Quiet, ImportDocument, At
  <2> QED
    BY <1>1, <1>4, <2>1, NoDeletion
<1>5. ASSUME NEW w \in Workers, Crash(w)
      PROVE  DeliveryInv'
  BY <1>5 DEF Crash, NothingUndone
<1>6. ASSUME NEW s \in Sales, EndSale(s) \/ Reclaim(s) \/ \E d \in Documents : LoseFile(s, d)
      PROVE  DeliveryInv'
  <2>1. UNCHANGED op
    BY <1>6 DEF EndSale, Reclaim, LoseFile
  <2>2. \A t \in Sales : sync'[t] = "SYNCED" => sync[t] = "SYNCED"
    BY <1>6 DEF EndSale, Reclaim, LoseFile, SetSync, SyncInv, TypeOK, sale
  <2>3. \A t \in Sales : Missing(t)' \subseteq Missing(t)
    BY <1>6 DEF EndSale, Reclaim, LoseFile, Missing, SyncInv, TypeOK, files, task
  <2>4. UNCHANGED linked
    BY <1>6 DEF EndSale, Reclaim, LoseFile, sale
  <2> QED
    BY <1>1, <2>1, <2>2, <2>3, <2>4 DEF EachIsOwed, Owes, SyncInv, TypeOK
<1>7. ASSUME NEW s \in Sales, Callback(s)
      PROVE  DeliveryInv'
  BY <1>7 DEF Callback, NothingUndone
<1> QED
  BY <1>2, <1>3, <1>4, <1>5, <1>6, <1>7 DEF Next, Step, Proceed

\* Every document of a synced sale reaches Luxus Task, for any number of
\* sales, documents and workers and however requests fail, retries overlap
\* and files are lost, when no callback, crash or deletion undoes it.
THEOREM DocumentsArrive == NothingUndone => (Spec => []DocumentsDelivered)
<1> SUFFICES ASSUME NothingUndone PROVE Spec => []DocumentsDelivered
  OBVIOUS
<1>1. Init => DeliveryInv
  BY SyncInit, DeliveryInit DEF DeliveryInv
<1>2. DeliveryInv /\ [Next]_vars => DeliveryInv'
  BY DeliveryStep
<1> QED
  BY <1>1, <1>2, OwedImpliesDelivered, PTL DEF Spec

=============================================================================
