----------------------------- MODULE SaleReview -----------------------------
(***************************************************************************)
(* One sale from its draft to its approval, its reopening or its deletion, *)
(* with the documents attached to it: their rows, their files on disk and  *)
(* the list of required documents that the sale carries.  Rows imported as *)
(* concluded, whose documents come from elsewhere, are left out.           *)
(*                                                                         *)
(* Every change of the sale reads it, checks what it read, and later       *)
(* writes some fields by id.  A file is written before the row that refers *)
(* to it and removed after the row is gone.  What a worker read before an  *)
(* await travels in its record.                                            *)
(***************************************************************************)
EXTENDS Functions

CONSTANTS
    Types,          \* document types
    RequiredTypes,  \* the types a sale needs to be submitted
    Documents,      \* rows
    TypeOf,         \* TypeOf[d]: type of the document of row d
    Files,
    Workers,        \* requests and callbacks under way
    Weathers,       \* sets of faults to consider: a subset of one allows no step more
    None

Faults ==
    {"crash",      \* a replica stops in the middle of an operation
     "failure",    \* a query fails or its answer is lost
     "redelivery", \* the Task reports an attachment once more
     "overlap"}    \* operations on the sale overlap

ASSUME SaleReviewAssumption ==
    /\ RequiredTypes \subseteq Types
    /\ TypeOf \in [Documents -> Types]
    /\ Weathers \subseteq SUBSET Faults
    /\ None \notin Files \cup Documents
    /\ "remote" \notin Files \cup {None}

VARIABLES
    weather,     \* the faults that may happen, chosen once and for all
    sale,        \* its review, status, whether its contractStage is COMPLETED, whether it
                 \* was sent to the Task, its required documents
    rows,        \* rows[d]: the file that row d refers to, "remote" or None
    attachment,  \* the row of the Task's attachment (Document.externalId), or None
    files,       \* the files on disk
    op           \* op[w]: the operation worker w is in the middle of

vars == <<weather, sale, rows, attachment, files, op>>

ReviewStatus == {"DRAFT", "AWAITING_REVIEW", "UNDER_REVIEW", "CHANGES_REQUESTED", "APPROVED"}

NoSale == {"ABSENT", "REMOVED"}

\* IN_ANALYSIS, PENDING and CONTESTED are OPEN; CANCELLED and REJECTED, ENDED.
SaleStatus == {"OPEN", "DOCUMENTS_PENDING", "ACTIVATED", "ENDED"}

\* Sale.requiredDocuments.
Lists == [Types -> {"unlisted", "pending", "fulfilled"}]

\* What one update writes to the sale.
Change ==
    [review : ReviewStatus \ {"DRAFT"}]
    \cup [review : {"APPROVED"}, sent : {TRUE}, completed : {FALSE}]
    \cup [review : {"APPROVED"}, status : {"ACTIVATED"}, completed : {TRUE}]
    \cup [review : {"UNDER_REVIEW"}, status : {"OPEN"}, completed : {FALSE}]
    \cup [status : SaleStatus]
    \cup [status : {"DOCUMENTS_PENDING"}, required : Lists]

Idle == [at |-> "idle"]

Operation ==
    {Idle}
    \* about to write to the sale what was decided on an earlier read
    \cup [at : {"writing"}, change : Change]
    \* an upload: file written, row created, list read
    \cup [at : {"storing"}, doc : Documents, new : Files]
    \* a deletion: row read, row deleted, file removed
    \cup [at : {"deleting", "unlinking"}, doc : Documents, old : SUBSET Files]
    \cup [at : {"counting"}, type : Types]
    \* the list of required documents, before and after it is read
    \cup [at : {"listing"}, type : Types, mark : {"pending", "fulfilled"}]
    \cup [at : {"marking"}, required : Lists]
    \* a replacement: new file written, row updated, old file removed
    \cup [at : {"replacing", "dropping"}, doc : Documents, new : Files, old : SUBSET Files]
    \cup [at : {"delivering"}, new : Files]
    \* an attachment of the Task: file written, or kept in the Task
    \cup [at : {"attaching"}, new : Files \cup {"remote"}]
    \* the deletion of the sale: rows read, rows deleted
    \cup [at : {"removing", "sweeping"}, old : SUBSET Files]

Free(w) == op[w] = Idle

\* w may start an operation.
Ready(w) == Free(w) /\ ("overlap" \in weather \/ \A v \in Workers : Free(v))

At(w, point) == op[w].at = point

Continue(w, operation) == op' = [op EXCEPT ![w] = operation]

Done(w) == Continue(w, Idle)

Exists == sale.review \notin NoSale

\* Takes no documents and no conclusion (saleClosed, saleLocked).
SaleClosed == sale.completed \/ sale.status \in {"ACTIVATED", "ENDED"}

Referred == Range(rows) \ {"remote", None}

\* The files and rows no worker holds.
FreshFile(f) ==
    /\ f \notin files \cup Referred
    /\ \A w \in Workers :
        /\ op[w].at \in {"storing", "replacing", "dropping", "delivering", "attaching"} => op[w].new # f
        /\ op[w].at \in {"deleting", "unlinking", "replacing", "dropping", "removing", "sweeping"}
           => f \notin op[w].old

FreshRow(d) ==
    /\ rows[d] = None
    /\ \A w \in Workers :
        op[w].at \in {"storing", "deleting", "unlinking", "replacing", "dropping"} => op[w].doc # d

TypeOK ==
    /\ weather \in Weathers
    /\ sale \in [review : ReviewStatus \cup NoSale, status : SaleStatus,
                 completed : BOOLEAN, sent : BOOLEAN, required : Lists]
    /\ rows \in [Documents -> Files \cup {"remote", None}]
    /\ attachment \in Documents \cup {None}
    /\ files \in SUBSET Files
    /\ op \in [Workers -> Operation]

Init ==
    /\ weather \in Weathers
    /\ sale = [review |-> "ABSENT", status |-> "OPEN", completed |-> FALSE, sent |-> FALSE,
               required |-> [t \in Types |-> IF t \in RequiredTypes THEN "pending" ELSE "unlisted"]]
    /\ rows = [d \in Documents |-> None]
    /\ attachment = None
    /\ files = {}
    /\ op = [w \in Workers |-> Idle]

(***************************************************************************)
(* SalesService: the changes of a sale                                     *)
(***************************************************************************)

\* A change is decided on the sale as it is.
Decide(w, condition, change) ==
    /\ Ready(w)
    /\ Exists
    /\ condition
    /\ Continue(w, [at |-> "writing", change |-> change])
    /\ UNCHANGED <<weather, sale, rows, attachment, files>>

\* What a change names, and the rest of the sale as it has become.
Written(change) ==
    [field \in DOMAIN sale |-> IF field \in DOMAIN change THEN change[field] ELSE sale[field]]

\* By id; of a deleted sale it is an error.
Write(w) ==
    /\ At(w, "writing")
    /\ sale' = IF Exists THEN Written(op[w].change) ELSE sale
    /\ Done(w)
    /\ UNCHANGED <<weather, rows, attachment, files>>

\* By a partner, or from a spreadsheet, whose rows are then submitted unseen.
create(w) ==
    /\ Ready(w)
    /\ sale.review = "ABSENT"
    /\ sale' = [sale EXCEPT !.review = "DRAFT"]
    /\ \/ UNCHANGED op
       \/ Continue(w, [at |-> "writing", change |-> [review |-> "AWAITING_REVIEW"]])
    /\ UNCHANGED <<weather, rows, attachment, files>>

Uploaded == {TypeOf[d] : d \in {e \in Documents : rows[e] # None}}

\* Mutant: a sale can be submitted again whatever its review.
submitForReview_Anytime(w) ==
    Decide(w, RequiredTypes \subseteq Uploaded, [review |-> "AWAITING_REVIEW"])

submitForReview(w) ==
    Decide(w, /\ sale.review \in {"DRAFT", "CHANGES_REQUESTED"}
              /\ RequiredTypes \subseteq Uploaded,
           [review |-> "AWAITING_REVIEW"])

startReview(w) ==
    Decide(w, sale.review = "AWAITING_REVIEW", [review |-> "UNDER_REVIEW"])

Reviewable == sale.review \in {"AWAITING_REVIEW", "UNDER_REVIEW"}

requestCorrection(w) == Decide(w, Reviewable, [review |-> "CHANGES_REQUESTED"])

approveForTask(w) ==
    Decide(w, Reviewable, [review |-> "APPROVED", sent |-> TRUE, completed |-> FALSE])

\* Past the review; only the first time.
sendToTask(w) ==
    Decide(w, sale.status # "ENDED" /\ ~sale.sent,
           [review |-> "APPROVED", sent |-> TRUE, completed |-> FALSE])

\* TaskIntegrationService.applySaleCallback: the Task concludes its demand.
conclude(w) ==
    Decide(w, sale.sent /\ ~SaleClosed,
           [review |-> "APPROVED", status |-> "ACTIVATED", completed |-> TRUE])

\* A concluded sale, one cancelled after its conclusion included.
isCompleted == sale.completed \/ sale.status = "ACTIVATED"

reopen(w) ==
    Decide(w, isCompleted, [review |-> "UNDER_REVIEW", status |-> "OPEN", completed |-> FALSE])

STATUS_TRANSITIONS ==
    [OPEN |-> {"OPEN", "DOCUMENTS_PENDING", "ENDED"},
     DOCUMENTS_PENDING |-> {"OPEN", "ENDED"},
     ACTIVATED |-> {"ENDED"},
     ENDED |-> {}]

updateStatus(w, status) ==
    Decide(w, status \in STATUS_TRANSITIONS[sale.status], [status |-> status])

Requested(types) == [t \in Types |-> IF t \in types THEN "pending" ELSE "unlisted"]

requestDocuments(w, types) ==
    Decide(w, "DOCUMENTS_PENDING" \in STATUS_TRANSITIONS[sale.status] /\ types # {},
           [status |-> "DOCUMENTS_PENDING", required |-> Requested(types)])

\* Nothing is pending, and something was listed.
Answered == Range(sale.required) \subseteq {"unlisted", "fulfilled"} /\ "fulfilled" \in Range(sale.required)

resubmitDocuments(w) ==
    Decide(w, sale.status = "DOCUMENTS_PENDING" /\ Answered, [status |-> "OPEN"])

(***************************************************************************)
(* UploadsService: uploadFile, markSaleDocumentFulfilled                   *)
(***************************************************************************)

\* Attached to an open sale; to one that waits for documents, only those.
uploadFile(w, d, f) ==
    /\ Ready(w)
    /\ Exists
    /\ ~SaleClosed
    /\ sale.status = "DOCUMENTS_PENDING" => sale.required[TypeOf[d]] = "pending"
    /\ FreshRow(d)
    /\ FreshFile(f)
    /\ files' = files \cup {f}
    /\ Continue(w, [at |-> "storing", doc |-> d, new |-> f])
    /\ UNCHANGED <<weather, sale, rows, attachment>>

\* Of a deleted sale no row can be created: the file stays.
StoreRow(w) ==
    /\ At(w, "storing")
    /\ IF Exists
       THEN /\ rows' = [rows EXCEPT ![op[w].doc] = op[w].new]
            /\ Continue(w, [at |-> "listing", type |-> TypeOf[op[w].doc], mark |-> "fulfilled"])
       ELSE UNCHANGED rows /\ Done(w)
    /\ UNCHANGED <<weather, sale, attachment, files>>

ReadList(w) ==
    /\ At(w, "listing")
    /\ IF Exists
       THEN Continue(w, [at |-> "marking", required |->
                [sale.required EXCEPT ![op[w].type] = IF @ = "unlisted" THEN @ ELSE op[w].mark]])
       ELSE Done(w)
    /\ UNCHANGED <<weather, sale, rows, attachment, files>>

\* The whole list is written back.
WriteList(w) ==
    /\ At(w, "marking")
    /\ sale' = IF Exists THEN [sale EXCEPT !.required = op[w].required] ELSE sale
    /\ Done(w)
    /\ UNCHANGED <<weather, rows, attachment, files>>

(***************************************************************************)
(* deleteDocument, markSaleDocumentUnfulfilledIfEmpty, replaceDocument     *)
(***************************************************************************)

\* Mutant: the address of an attachment left in the Task is taken for a file.
FileOf_Remote(d) == {rows[d]}

FileOf(d) == {rows[d]} \cap Files

\* Mutant: the file goes before the row.
deleteDocument_FileFirst(w, d) ==
    /\ Ready(w)
    /\ rows[d] # None
    /\ ~SaleClosed
    /\ files' = files \ FileOf(d)
    /\ Continue(w, [at |-> "deleting", doc |-> d, old |-> FileOf(d)])
    /\ UNCHANGED <<weather, sale, rows, attachment>>

deleteDocument(w, d) ==
    /\ Ready(w)
    /\ rows[d] # None
    /\ ~SaleClosed
    /\ Continue(w, [at |-> "deleting", doc |-> d, old |-> FileOf(d)])
    /\ UNCHANGED <<weather, sale, rows, attachment, files>>

DeleteRow(w) ==
    /\ At(w, "deleting")
    /\ LET d == op[w].doc IN
        IF rows[d] # None
        THEN /\ rows' = [rows EXCEPT ![d] = None]
             /\ attachment' = IF attachment = d THEN None ELSE attachment
             /\ Continue(w, [op[w] EXCEPT !.at = "unlinking"])
        ELSE UNCHANGED <<rows, attachment>> /\ Done(w)
    /\ UNCHANGED <<weather, sale, files>>

RemoveStoredFile(w) ==
    /\ At(w, "unlinking")
    /\ files' = files \ op[w].old
    /\ Continue(w, [at |-> "counting", type |-> TypeOf[op[w].doc]])
    /\ UNCHANGED <<weather, sale, rows, attachment>>

\* Mutant: whatever is left, the type stays fulfilled.
CountRemaining_Ignored(w) ==
    /\ At(w, "counting")
    /\ Done(w)
    /\ UNCHANGED <<weather, sale, rows, attachment, files>>

CountRemaining(w) ==
    /\ At(w, "counting")
    /\ IF op[w].type \in Uploaded
       THEN Done(w)
       ELSE Continue(w, [at |-> "listing", type |-> op[w].type, mark |-> "pending"])
    /\ UNCHANGED <<weather, sale, rows, attachment, files>>

replaceDocument(w, d, f) ==
    /\ Ready(w)
    /\ rows[d] # None
    /\ ~SaleClosed
    /\ FreshFile(f)
    /\ files' = files \cup {f}
    /\ Continue(w, [at |-> "replacing", doc |-> d, new |-> f, old |-> FileOf(d)])
    /\ UNCHANGED <<weather, sale, rows, attachment>>

\* Of a row deleted meanwhile the update fails and the new file is removed.
UpdateRow(w) ==
    /\ At(w, "replacing")
    /\ LET d == op[w].doc IN
        IF rows[d] # None
        THEN /\ rows' = [rows EXCEPT ![d] = op[w].new]
             /\ Continue(w, [op[w] EXCEPT !.at = "dropping"])
             /\ UNCHANGED files
        ELSE /\ files' = files \ {op[w].new}
             /\ Done(w)
             /\ UNCHANGED rows
    /\ UNCHANGED <<weather, sale, attachment>>

\* Mutant: the previous file is not looked for.
DropPrevious_Kept(w) ==
    /\ At(w, "dropping")
    /\ Continue(w, [at |-> "delivering", new |-> op[w].new])
    /\ UNCHANGED <<weather, sale, rows, attachment, files>>

DropPrevious(w) ==
    /\ At(w, "dropping")
    /\ files' = files \ op[w].old
    /\ Continue(w, [at |-> "delivering", new |-> op[w].new])
    /\ UNCHANGED <<weather, sale, rows, attachment>>

\* pushSaleDocumentIfSynced, which TaskSync models.
Deliver(w) ==
    /\ At(w, "delivering")
    /\ Done(w)
    /\ UNCHANGED <<weather, sale, rows, attachment, files>>

\* Whatever fails once the new file is there, it is removed again.
ReplaceFails(w) ==
    /\ "failure" \in weather
    /\ op[w].at \in {"replacing", "dropping", "delivering"}
    /\ files' = files \ {op[w].new}
    /\ Done(w)
    /\ UNCHANGED <<weather, sale, rows, attachment>>

(***************************************************************************)
(* applySaleCallback: an attachment of the Task                            *)
(***************************************************************************)

\* Downloaded, or else referred to where it is.
receiveAttachment(w) ==
    /\ Ready(w)
    /\ Exists
    /\ sale.sent
    /\ attachment # None => "redelivery" \in weather
    /\ \/ \E f \in Files :
            /\ FreshFile(f)
            /\ files' = files \cup {f}
            /\ Continue(w, [at |-> "attaching", new |-> f])
       \/ Continue(w, [at |-> "attaching", new |-> "remote"]) /\ UNCHANGED files
    /\ UNCHANGED <<weather, sale, rows, attachment>>

\* The row with its externalId is updated, or created if the sale is there.
Attach(w) ==
    /\ At(w, "attaching")
    /\ \/ /\ attachment # None
          /\ rows' = IF op[w].new = "remote" THEN rows ELSE [rows EXCEPT ![attachment] = op[w].new]
          /\ UNCHANGED attachment
       \/ /\ attachment = None /\ Exists
          /\ \E d \in Documents :
                /\ FreshRow(d)
                /\ rows' = [rows EXCEPT ![d] = op[w].new]
                /\ attachment' = d
       \/ attachment = None /\ ~Exists /\ UNCHANGED <<rows, attachment>>
    /\ Done(w)
    /\ UNCHANGED <<weather, sale, files>>

(***************************************************************************)
(* SalesService: discardDraft, remove, bulkRemove                          *)
(***************************************************************************)

Removable == sale.review = "DRAFT" \/ (sale.status # "ACTIVATED" /\ ~sale.sent)

\* The files are those of the rows read before.
remove(w) ==
    /\ Ready(w)
    /\ Exists
    /\ Removable
    /\ Continue(w, [at |-> "removing", old |-> Referred])
    /\ UNCHANGED <<weather, sale, rows, attachment, files>>

\* One transaction, which fails if the sale is gone.
DeleteSale(w) ==
    /\ At(w, "removing")
    /\ IF Exists
       THEN /\ sale' = [sale EXCEPT !.review = "REMOVED"]
            /\ rows' = [d \in Documents |-> None]
            /\ attachment' = None
            /\ Continue(w, [op[w] EXCEPT !.at = "sweeping"])
       ELSE UNCHANGED <<sale, rows, attachment>> /\ Done(w)
    /\ UNCHANGED <<weather, files>>

removeStoredFiles(w) ==
    /\ At(w, "sweeping")
    /\ files' = files \ op[w].old
    /\ Done(w)
    /\ UNCHANGED <<weather, sale, rows, attachment>>

(***************************************************************************)
(* Specification                                                           *)
(***************************************************************************)

\* What is left of the operation never happens.
Crash(w) ==
    /\ "crash" \in weather
    /\ ~Free(w)
    /\ Done(w)
    /\ UNCHANGED <<weather, sale, rows, attachment, files>>

QueryFails(w) ==
    /\ "failure" \in weather
    /\ op[w].at \notin {"idle", "replacing", "dropping", "delivering"}
    /\ Done(w)
    /\ UNCHANGED <<weather, sale, rows, attachment, files>>

ChangeOfSale(w) ==
    \/ create(w)
    \/ submitForReview(w)
    \/ startReview(w)
    \/ requestCorrection(w)
    \/ approveForTask(w)
    \/ sendToTask(w)
    \/ conclude(w)
    \/ reopen(w)
    \/ \E status \in SaleStatus : updateStatus(w, status)
    \/ \E types \in SUBSET Types : requestDocuments(w, types)
    \/ resubmitDocuments(w)
    \/ remove(w)

ChangeOfDocuments(w) ==
    \/ \E d \in Documents, f \in Files : uploadFile(w, d, f) \/ replaceDocument(w, d, f)
    \/ \E d \in Documents : deleteDocument(w, d)
    \/ receiveAttachment(w)

Proceed(w) ==
    \/ Write(w)
    \/ StoreRow(w)
    \/ ReadList(w)
    \/ WriteList(w)
    \/ DeleteRow(w)
    \/ RemoveStoredFile(w)
    \/ CountRemaining(w)
    \/ UpdateRow(w)
    \/ DropPrevious(w)
    \/ Deliver(w)
    \/ Attach(w)
    \/ DeleteSale(w)
    \/ removeStoredFiles(w)

Fault(w) == Crash(w) \/ QueryFails(w) \/ ReplaceFails(w)

Next == \E w \in Workers : ChangeOfSale(w) \/ ChangeOfDocuments(w) \/ Proceed(w) \/ Fault(w)

Spec == Init /\ [][Next]_vars

(***************************************************************************)
(* Properties                                                              *)
(***************************************************************************)

Without(faults) == weather \cap faults = {}

Quiet == \A w \in Workers : Free(w)

\* Whatever overlaps and crashes, a row refers to a file that is there, and
\* two rows never share one: no upload, replacement, deletion of a document or
\* of the sale, and no attachment of the Task removes the file of another.
DocumentHasFile ==
    Without({"failure"})
    => /\ Referred \subseteq files
       /\ \A d, e \in Documents : rows[d] = rows[e] /\ rows[d] \in Files => d = e

\* When nothing goes wrong, no file is left behind on the volume: what is on
\* disk is what the rows refer to, uploads, replacements, deletions, discarded
\* drafts and the Task's attachments included.
NoOrphanFile == Without(Faults) /\ Quiet => files = Referred

\* While operations do not overlap and none is cut short, a required document
\* that counts as fulfilled has been uploaded and not deleted since.
FulfilledHasDocument ==
    Without({"overlap", "crash", "failure"}) /\ Quiet /\ Exists
    => \A t \in Types : sale.required[t] = "fulfilled" => t \in Uploaded

\* Only the reopening of a concluded sale takes back an approval, whether the
\* sale is still active or was cancelled after its conclusion.
ApprovalKept ==
    sale.review = "APPROVED" /\ sale'.review # "APPROVED"
    => isCompleted /\ sale'.review = "UNDER_REVIEW"

\* A sale cancelled or rejected comes back only if it had been concluded, for
\* another review.
EndKept ==
    sale.status = "ENDED" /\ sale'.status # "ENDED"
    => sale.completed /\ sale'.review = "UNDER_REVIEW"

\* A sale that was sent to the Task is not deleted.
SentKept == sale.sent => Exists'

\* While operations do not overlap, neither the partner's submission nor a
\* correction undoes an approval, no request or conclusion of the Task undoes
\* an end, and a sale that was sent stays, whatever became of it since.
ApprovalStands == [][Without({"overlap"}) => ApprovalKept /\ EndKept /\ SentKept]_vars

=============================================================================
