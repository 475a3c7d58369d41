-------------------------- MODULE SaleReviewProofs --------------------------
(***************************************************************************)
(* Theorems of SaleReview for any types, documents, files, workers and     *)
(* sets of faults.                                                         *)
(***************************************************************************)
EXTENDS SaleReview, TLAPS

SaleRow == [review : ReviewStatus \cup NoSale, status : SaleStatus, completed : BOOLEAN,
            sent : BOOLEAN, required : Lists]

\* What one update may write.
LEMMA ChangeFields ==
    ASSUME NEW c \in Change
    PROVE  /\ "review" \in DOMAIN c => c["review"] \in ReviewStatus \ {"DRAFT"}
           /\ "status" \in DOMAIN c => c["status"] \in SaleStatus
           /\ "sent" \in DOMAIN c => c["sent"] = TRUE /\ "review" \in DOMAIN c /\ c["review"] = "APPROVED"
           /\ "completed" \in DOMAIN c => c["completed"] \in BOOLEAN
           /\ "required" \in DOMAIN c => c["required"] \in Lists
<1>1. CASE c \in [review : ReviewStatus \ {"DRAFT"}]
  BY <1>1
<1>2. CASE c \in [review : {"APPROVED"}, sent : {TRUE}, completed : {FALSE}]
  BY <1>2 DEF ReviewStatus
<1>3. CASE c \in [review : {"APPROVED"}, status : {"ACTIVATED"}, completed : {TRUE}]
  BY <1>3 DEF ReviewStatus, SaleStatus
<1>4. CASE c \in [review : {"UNDER_REVIEW"}, status : {"OPEN"}, completed : {FALSE}]
  BY <1>4 DEF ReviewStatus, SaleStatus
<1>5. CASE c \in [status : SaleStatus]
  BY <1>5
<1>6. CASE c \in [status : {"DOCUMENTS_PENDING"}, required : Lists]
  BY <1>6 DEF SaleStatus
<1> QED
  BY <1>1, <1>2, <1>3, <1>4, <1>5, <1>6 DEF Change

\* A change leaves the fields it does not name.
LEMMA WrittenFields ==
    ASSUME sale \in SaleRow, NEW c \in Change
    PROVE  /\ Written(c) \in SaleRow
           /\ Written(c).review = IF "review" \in DOMAIN c THEN c["review"] ELSE sale.review
           /\ Written(c).status = IF "status" \in DOMAIN c THEN c["status"] ELSE sale.status
           /\ Written(c).completed = IF "completed" \in DOMAIN c THEN c["completed"] ELSE sale.completed
           /\ Written(c).sent = IF "sent" \in DOMAIN c THEN c["sent"] ELSE sale.sent
           /\ Written(c).required = IF "required" \in DOMAIN c THEN c["required"] ELSE sale.required
<1> DEFINE review == IF "review" \in DOMAIN c THEN c["review"] ELSE sale["review"]
           status == IF "status" \in DOMAIN c THEN c["status"] ELSE sale["status"]
           completed == IF "completed" \in DOMAIN c THEN c["completed"] ELSE sale["completed"]
           sent == IF "sent" \in DOMAIN c THEN c["sent"] ELSE sale["sent"]
           required == IF "required" \in DOMAIN c THEN c["required"] ELSE sale["required"]
<1>1. DOMAIN sale = {"review", "status", "completed", "sent", "required"}
  BY DEF SaleRow
<1>2. Written(c) = [field \in {"review", "status", "completed", "sent", "required"} |->
                       IF field \in DOMAIN c THEN c[field] ELSE sale[field]]
  BY <1>1 DEF Written
<1>3. Written(c) = [review |-> review, status |-> status, completed |-> completed, sent |-> sent,
                   required |-> required]
  BY <1>2
<1>4. /\ sale["review"] \in ReviewStatus \cup NoSale
      /\ sale["status"] \in SaleStatus
      /\ sale["completed"] \in BOOLEAN
      /\ sale["sent"] \in BOOLEAN
      /\ sale["required"] \in Lists
  BY DEF SaleRow
<1>5. /\ review \in ReviewStatus \cup NoSale
      /\ status \in SaleStatus
      /\ completed \in BOOLEAN
      /\ sent \in BOOLEAN
      /\ required \in Lists
  BY <1>4, ChangeFields
<1>6. Written(c) \in SaleRow
  BY <1>3, <1>5 DEF SaleRow
<1>7. /\ Written(c).review = review
      /\ Written(c).status = status
      /\ Written(c).completed = completed
      /\ Written(c).sent = sent
      /\ Written(c).required = required
  BY <1>3
<1> QED
  BY <1>6, <1>7

WithDoc == {"storing", "deleting", "unlinking", "replacing", "dropping"}
WithFile == {"storing", "replacing", "dropping", "delivering"}
WithOld == {"deleting", "unlinking", "replacing", "dropping", "removing", "sweeping"}

\* The fields of an operation, by the point it has reached.
LEMMA OperationFields ==
    ASSUME NEW o \in Operation
    PROVE  /\ o = Idle <=> o.at = "idle"
           /\ o.at = "writing" => o.change \in Change
           /\ o.at \in WithDoc => o.doc \in Documents
           /\ o.at \in WithFile => o.new \in Files
           /\ o.at = "attaching" => o.new \in Files \cup {"remote"}
           /\ o.at \in WithOld => o.old \in SUBSET Files
           /\ o.at \in {"counting", "listing"} => o.type \in Types
           /\ o.at = "listing" => o.mark \in {"pending", "fulfilled"}
           /\ o.at = "marking" => o.required \in Lists
  BY DEF Operation, Idle, WithDoc, WithFile, WithOld

\* Every operation the actions build is one.
LEMMA OperationBuilt ==
    /\ Idle \in Operation
    /\ \A c \in Change : [at |-> "writing", change |-> c] \in Operation
    /\ \A d \in Documents, f \in Files : [at |-> "storing", doc |-> d, new |-> f] \in Operation
    /\ \A a \in {"deleting", "unlinking"}, d \in Documents, old \in SUBSET Files :
        [at |-> a, doc |-> d, old |-> old] \in Operation
    /\ \A t \in Types : [at |-> "counting", type |-> t] \in Operation
    /\ \A t \in Types, m \in {"pending", "fulfilled"} : [at |-> "listing", type |-> t, mark |-> m] \in Operation
    /\ \A list \in Lists : [at |-> "marking", required |-> list] \in Operation
    /\ \A a \in {"replacing", "dropping"}, d \in Documents, f \in Files, old \in SUBSET Files :
        [at |-> a, doc |-> d, new |-> f, old |-> old] \in Operation
    /\ \A f \in Files : [at |-> "delivering", new |-> f] \in Operation
    /\ \A f \in Files \cup {"remote"} : [at |-> "attaching", new |-> f] \in Operation
    /\ \A a \in {"removing", "sweeping"}, old \in SUBSET Files : [at |-> a, old |-> old] \in Operation
  BY DEF Operation

\* An operation that goes on with the same fields.
LEMMA OperationGoesOn ==
    ASSUME NEW o \in Operation
    PROVE  /\ o.at = "deleting" => [o EXCEPT !.at = "unlinking"]
                = [at |-> "unlinking", doc |-> o.doc, old |-> o.old]
           /\ o.at = "replacing" => [o EXCEPT !.at = "dropping"]
                = [at |-> "dropping", doc |-> o.doc, new |-> o.new, old |-> o.old]
           /\ o.at = "removing" => [o EXCEPT !.at = "sweeping"]
                = [at |-> "sweeping", old |-> o.old]
  BY DEF Operation, Idle

LEMMA Continues ==
    ASSUME TypeOK, NEW w \in Workers, NEW o \in Operation, Continue(w, o)
    PROVE  /\ op' \in [Workers -> Operation]
           /\ op'[w] = o
           /\ \A v \in Workers \ {w} : op'[v] = op[v]
  BY DEF TypeOK, Continue

(***************************************************************************)
(* Types                                                                   *)
(***************************************************************************)

LEMMA InitTypes == Init => TypeOK
  BY OperationBuilt DEF Init, TypeOK, ReviewStatus, NoSale, SaleStatus, Lists

\* A step that leaves the rows, the files and the sale.
LEMMA OnlyOperation ==
    ASSUME TypeOK, NEW w \in Workers, NEW o \in Operation, Continue(w, o),
           UNCHANGED <<weather, sale, rows, attachment, files>>
    PROVE  TypeOK'
  BY Continues DEF TypeOK

LEMMA ChangeTypes ==
    ASSUME TypeOK, NEW w \in Workers, ChangeOfSale(w)
    PROVE  TypeOK'
<1>1. ASSUME NEW condition \in BOOLEAN, NEW change \in Change, Decide(w, condition, change)
      PROVE  TypeOK'
  BY <1>1, OperationBuilt, OnlyOperation DEF Decide
<1>2. CASE create(w)
  <2>1. [review |-> "AWAITING_REVIEW"] \in Change
    BY DEF Change, ReviewStatus
  <2>2. op' \in [Workers -> Operation]
    BY <1>2, <2>1, OperationBuilt, Continues DEF create, TypeOK
  <2>3. sale' \in [review : ReviewStatus \cup NoSale, status : SaleStatus, completed : BOOLEAN,
                   sent : BOOLEAN, required : Lists]
    BY <1>2 DEF create, TypeOK, ReviewStatus
  <2> QED
    BY <1>2, <2>2, <2>3 DEF create, TypeOK
<1>3. CASE submitForReview(w) \/ startReview(w) \/ requestCorrection(w)
  <2>1. PICK status \in {"AWAITING_REVIEW", "UNDER_REVIEW", "CHANGES_REQUESTED"} :
            Continue(w, [at |-> "writing", change |-> [review |-> status]])
    BY <1>3 DEF submitForReview, startReview, requestCorrection, Decide
  <2>2. [review |-> status] \in Change
    BY DEF Change, ReviewStatus
  <2> QED
    BY <1>3, <2>1, <2>2, OperationBuilt, OnlyOperation
    DEF submitForReview, startReview, requestCorrection, Decide
<1>4. CASE approveForTask(w) \/ sendToTask(w)
  <2>1. [review |-> "APPROVED", sent |-> TRUE, completed |-> FALSE] \in Change
    BY DEF Change
  <2> QED
    BY <1>4, <2>1, OperationBuilt, OnlyOperation DEF approveForTask, sendToTask, Decide
<1>5. CASE conclude(w)
  <2>1. [review |-> "APPROVED", status |-> "ACTIVATED", completed |-> TRUE] \in Change
    BY DEF Change
  <2> QED
    BY <1>5, <2>1, OperationBuilt, OnlyOperation DEF conclude, Decide
<1>6. CASE reopen(w)
  <2>1. [review |-> "UNDER_REVIEW", status |-> "OPEN", completed |-> FALSE] \in Change
    BY DEF Change
  <2> QED
    BY <1>6, <2>1, OperationBuilt, OnlyOperation DEF reopen, Decide
<1>7. CASE resubmitDocuments(w) \/ \E status \in SaleStatus : updateStatus(w, status)
  <2>1. PICK status \in SaleStatus : Continue(w, [at |-> "writing", change |-> [status |-> status]])
    BY <1>7 DEF resubmitDocuments, updateStatus, Decide, SaleStatus
  <2>2. [status |-> status] \in Change
    BY DEF Change
  <2> QED
    BY <1>7, <2>1, <2>2, OperationBuilt, OnlyOperation DEF resubmitDocuments, updateStatus, Decide
<1>8. ASSUME NEW types \in SUBSET Types, requestDocuments(w, types)
      PROVE  TypeOK'
  <2>1. [status |-> "DOCUMENTS_PENDING", required |-> Requested(types)] \in Change
    BY DEF Change, Requested, Lists
  <2> QED
    BY <1>8, <2>1, OperationBuilt, OnlyOperation DEF requestDocuments, Decide
<1>9. CASE remove(w)
  <2>1. Referred \in SUBSET Files
    BY DEF TypeOK, Referred, Range
  <2> QED
    BY <1>9, <2>1, OperationBuilt, OnlyOperation DEF remove
<1> QED
  BY <1>2, <1>3, <1>4, <1>5, <1>6, <1>7, <1>8, <1>9 DEF ChangeOfSale

LEMMA DocumentTypes ==
    ASSUME TypeOK, NEW w \in Workers, ChangeOfDocuments(w)
    PROVE  TypeOK'
<1>1. ASSUME NEW o \in Operation, Continue(w, o), files' \in SUBSET Files,
             UNCHANGED <<weather, sale, rows, attachment>>
      PROVE  TypeOK'
  BY <1>1, Continues DEF TypeOK
<1>2. files \in SUBSET Files /\ \A d \in Documents : FileOf(d) \in SUBSET Files
  BY DEF TypeOK, FileOf
<1>3. ASSUME NEW d \in Documents, NEW f \in Files, uploadFile(w, d, f) \/ replaceDocument(w, d, f)
      PROVE  TypeOK'
  BY <1>1, <1>2, <1>3, OperationBuilt DEF uploadFile, replaceDocument
<1>4. ASSUME NEW d \in Documents, deleteDocument(w, d)
      PROVE  TypeOK'
  BY <1>1, <1>2, <1>4, OperationBuilt DEF deleteDocument
<1>5. CASE receiveAttachment(w)
  BY <1>1, <1>2, <1>5, OperationBuilt DEF receiveAttachment
<1> QED
  BY <1>3, <1>4, <1>5 DEF ChangeOfDocuments

LEMMA ProceedTypes ==
    ASSUME TypeOK, NEW w \in Workers, Proceed(w)
    PROVE  TypeOK'
<1>0. op[w] \in Operation
  BY DEF TypeOK
<1>1. ASSUME NEW o \in Operation, Continue(w, o), sale' \in SaleRow,
             rows' \in [Documents -> Files \cup {"remote", None}],
             attachment' \in Documents \cup {None}, files' \in SUBSET Files, UNCHANGED weather
      PROVE  TypeOK'
  BY <1>1, Continues DEF TypeOK, SaleRow
<1>2. /\ sale \in SaleRow /\ rows \in [Documents -> Files \cup {"remote", None}]
      /\ attachment \in Documents \cup {None} /\ files \in SUBSET Files /\ Idle \in Operation
  BY OperationBuilt DEF TypeOK, SaleRow
<1>3. CASE Write(w)
  <2>1. Written(op[w].change) \in SaleRow
    BY <1>0, <1>2, <1>3, OperationFields, WrittenFields DEF Write, At
  <2> QED
    BY <1>1, <1>2, <1>3, <2>1 DEF Write, Done
<1>4. CASE StoreRow(w)
  <2>1. op[w].doc \in Documents /\ op[w].new \in Files /\ TypeOf[op[w].doc] \in Types
    BY <1>0, <1>4, OperationFields, SaleReviewAssumption DEF StoreRow, At, WithDoc, WithFile
  <2> QED
    BY <1>1, <1>2, <1>4, <2>1, OperationBuilt DEF StoreRow, Done
<1>5. CASE ReadList(w)
  <2>1. op[w].type \in Types /\ op[w].mark \in {"pending", "fulfilled"}
    BY <1>0, <1>5, OperationFields DEF ReadList, At
  <2>2. [sale.required EXCEPT ![op[w].type] = IF @ = "unlisted" THEN @ ELSE op[w].mark] \in Lists
    BY <1>2, <2>1 DEF SaleRow, Lists
  <2> QED
    BY <1>1, <1>2, <1>5, <2>2, OperationBuilt DEF ReadList, Done
<1>6. CASE WriteList(w)
  <2>1. op[w].required \in Lists
    BY <1>0, <1>6, OperationFields DEF WriteList, At
  <2>2. sale' \in SaleRow
    BY <1>2, <1>6, <2>1 DEF WriteList, SaleRow
  <2> QED
    BY <1>1, <1>2, <1>6, <2>2 DEF WriteList, Done
<1>7. CASE DeleteRow(w)
  <2>1. op[w].doc \in Documents /\ op[w].old \in SUBSET Files
    BY <1>0, <1>7, OperationFields DEF DeleteRow, At, WithDoc, WithOld
  <2>2. [op[w] EXCEPT !.at = "unlinking"] \in Operation
    <3>1. [at |-> "unlinking", doc |-> op[w].doc, old |-> op[w].old] \in Operation
      BY <2>1, OperationBuilt
    <3> QED
      BY <1>0, <1>7, <3>1, OperationGoesOn DEF DeleteRow, At
  <2>3. rows' \in [Documents -> Files \cup {"remote", None}] /\ attachment' \in Documents \cup {None}
    BY <1>2, <1>7 DEF DeleteRow
  <2>4. UNCHANGED <<weather, sale, files>>
    BY <1>7 DEF DeleteRow
  <2>5. CASE rows[op[w].doc] # None
    <3>1. Continue(w, [op[w] EXCEPT !.at = "unlinking"])
      BY <1>7, <2>5 DEF DeleteRow
    <3> QED
      BY <1>1, <1>2, <2>2, <2>3, <2>4, <3>1
  <2>6. CASE rows[op[w].doc] = None
    BY <1>1, <1>2, <1>7, <2>3, <2>4, <2>6 DEF DeleteRow, Done
  <2> QED
    BY <2>5, <2>6
<1>8. CASE RemoveStoredFile(w)
  <2>1. TypeOf[op[w].doc] \in Types
    BY <1>0, <1>8, OperationFields, SaleReviewAssumption DEF RemoveStoredFile, At, WithDoc
  <2> QED
    BY <1>1, <1>2, <1>8, <2>1, OperationBuilt DEF RemoveStoredFile
<1>9. CASE CountRemaining(w)
  <2>1. op[w].type \in Types
    BY <1>0, <1>9, OperationFields DEF CountRemaining, At
  <2> QED
    BY <1>1, <1>2, <1>9, <2>1, OperationBuilt DEF CountRemaining, Done
<1>10. CASE UpdateRow(w)
  <2>1. op[w].doc \in Documents /\ op[w].new \in Files /\ op[w].old \in SUBSET Files
    BY <1>0, <1>10, OperationFields DEF UpdateRow, At, WithDoc, WithFile, WithOld
  <2>2. [op[w] EXCEPT !.at = "dropping"] \in Operation
    <3>1. [at |-> "dropping", doc |-> op[w].doc, new |-> op[w].new, old |-> op[w].old] \in Operation
      BY <2>1, OperationBuilt
    <3> QED
      BY <1>0, <1>10, <3>1, OperationGoesOn DEF UpdateRow, At
  <2>3. rows' \in [Documents -> Files \cup {"remote", None}] /\ files' \in SUBSET Files
    BY <1>2, <1>10, <2>1 DEF UpdateRow
  <2>4. UNCHANGED <<weather, sale, attachment>>
    BY <1>10 DEF UpdateRow
  <2>5. CASE rows[op[w].doc] # None
    <3>1. Continue(w, [op[w] EXCEPT !.at = "dropping"])
      BY <1>10, <2>5 DEF UpdateRow
    <3> QED
      BY <1>1, <1>2, <2>2, <2>3, <2>4, <3>1
  <2>6. CASE rows[op[w].doc] = None
    BY <1>1, <1>2, <1>10, <2>3, <2>4, <2>6 DEF UpdateRow, Done
  <2> QED
    BY <2>5, <2>6
<1>11. CASE DropPrevious(w)
  <2>1. op[w].new \in Files
    BY <1>0, <1>11, OperationFields DEF DropPrevious, At, WithFile
  <2> QED
    BY <1>1, <1>2, <1>11, <2>1, OperationBuilt DEF DropPrevious
<1>12. CASE Deliver(w)
  BY <1>1, <1>2, <1>12 DEF Deliver, Done
<1>13. CASE Attach(w)
  <2>1. op[w].new \in Files \cup {"remote"}
    BY <1>0, <1>13, OperationFields DEF Attach, At
  <2>2. rows' \in [Documents -> Files \cup {"remote", None}] /\ attachment' \in Documents \cup {None}
    BY <1>2, <1>13, <2>1 DEF Attach
  <2> QED
    BY <1>1, <1>2, <1>13, <2>2 DEF Attach, Done
<1>14. CASE DeleteSale(w)
  <2>1. op[w].old \in SUBSET Files
    BY <1>0, <1>14, OperationFields DEF DeleteSale, At, WithOld
  <2>2. [op[w] EXCEPT !.at = "sweeping"] \in Operation
    BY <1>0, <1>14, <2>1, OperationGoesOn, OperationBuilt DEF DeleteSale, At
  <2>3. sale' \in SaleRow
    BY <1>2, <1>14 DEF DeleteSale, SaleRow, NoSale
  <2> QED
    BY <1>1, <1>2, <1>14, <2>2, <2>3 DEF DeleteSale, Done
<1>15. CASE removeStoredFiles(w)
  BY <1>1, <1>2, <1>15 DEF removeStoredFiles, Done
<1> QED
  BY <1>3, <1>4, <1>5, <1>6, <1>7, <1>8, <1>9, <1>10, <1>11, <1>12, <1>13, <1>14, <1>15 DEF Proceed

LEMMA FaultTypes ==
    ASSUME TypeOK, NEW w \in Workers, Fault(w)
    PROVE  TypeOK'
<1>1. CASE Crash(w) \/ QueryFails(w)
  BY <1>1, OperationBuilt, OnlyOperation DEF Crash, QueryFails, Done
<1>2. CASE ReplaceFails(w)
  BY <1>2, OperationBuilt, Continues DEF ReplaceFails, Done, TypeOK
<1> QED
  BY <1>1, <1>2 DEF Fault

LEMMA NextTypes == TypeOK /\ [Next]_vars => TypeOK'
<1> SUFFICES ASSUME TypeOK, [Next]_vars PROVE TypeOK'
  OBVIOUS
<1>1. CASE UNCHANGED vars
  BY <1>1 DEF vars, TypeOK
<1>2. CASE Next
  BY <1>2, ChangeTypes, DocumentTypes, ProceedTypes, FaultTypes DEF Next
<1> QED
  BY <1>1, <1>2

\* The variables of SaleReview keep their types.
THEOREM ReviewTypeCorrect == Spec => []TypeOK
  BY InitTypes, NextTypes, PTL DEF Spec

(***************************************************************************)
(* Files                                                                   *)
(***************************************************************************)

\* o has written a file that no row refers to yet.
HasNew(o) == o.at \in {"storing", "replacing", "attaching"} /\ o.new \in Files

\* o knows files that it will remove.
HasOld(o) == o.at \in WithOld

\* The row that refers to them is still to be changed, or has been.
BeforeRow(o) == o.at \in {"deleting", "replacing"}
AfterRow(o) == o.at \in {"unlinking", "dropping", "sweeping"}

\* No row refers to f.
Unreferred(f) == \A d \in Documents : rows[d] # f

RowsHaveFiles ==
    /\ \A d \in Documents : rows[d] \in Files => rows[d] \in files
    /\ \A d, e \in Documents : rows[d] = rows[e] /\ rows[d] \in Files => d = e

NewFilesAreOwn ==
    /\ \A w \in Workers : HasNew(op[w]) => op[w].new \in files /\ Unreferred(op[w].new)
    /\ \A v, w \in Workers : HasNew(op[v]) /\ HasNew(op[w]) /\ op[v].new = op[w].new => v = w
    /\ \A v, w \in Workers : HasNew(op[v]) /\ HasOld(op[w]) => op[v].new \notin op[w].old

OldFilesAreOwn ==
    /\ \A w \in Workers, d \in Documents : BeforeRow(op[w]) /\ rows[d] \in op[w].old => d = op[w].doc
    /\ \A w \in Workers, d \in Documents : AfterRow(op[w]) => rows[d] \notin op[w].old

FilesInv == RowsHaveFiles /\ NewFilesAreOwn /\ OldFilesAreOwn

LEMMA ReferredFiles ==
    ASSUME TypeOK
    PROVE  /\ Referred = {f \in Files : \E d \in Documents : rows[d] = f}
           /\ \A d \in Documents : rows[d] \in Files \cup {"remote", None}
           /\ \A d \in Documents : rows[d] \in Referred <=> rows[d] \in Files
  BY SaleReviewAssumption DEF TypeOK, Referred, Range

LEMMA InitFiles == Init => FilesInv
  BY SaleReviewAssumption
  DEF Init, FilesInv, RowsHaveFiles, NewFilesAreOwn, OldFilesAreOwn, HasNew, HasOld, BeforeRow,
      AfterRow, WithOld, Idle

\* An operation that starts or goes on without files.
LEMMA HoldsNothing ==
    ASSUME TypeOK, FilesInv, NEW w \in Workers, NEW o \in Operation, Continue(w, o),
           ~HasNew(o), ~HasOld(o), UNCHANGED <<rows, files>>
    PROVE  FilesInv'
<1>1. op'[w] = o /\ \A v \in Workers \ {w} : op'[v] = op[v]
  BY Continues
<1>2. ~BeforeRow(o) /\ ~AfterRow(o)
  BY DEF HasOld, BeforeRow, AfterRow, WithOld
<1>3. RowsHaveFiles'
  BY DEF FilesInv, RowsHaveFiles
<1>4. NewFilesAreOwn'
  BY <1>1 DEF FilesInv, NewFilesAreOwn, HasNew, HasOld, Unreferred
<1>5. OldFilesAreOwn'
  BY <1>1, <1>2 DEF FilesInv, OldFilesAreOwn, BeforeRow, AfterRow
<1> QED
  BY <1>3, <1>4, <1>5 DEF FilesInv

\* A new file, which nobody holds, and the previous one of a row.
LEMMA TakesNewFile ==
    ASSUME TypeOK, FilesInv, NEW w \in Workers, NEW o \in Operation, Continue(w, o),
           NEW f \in Files, FreshFile(f), files' = files \cup {f}, UNCHANGED rows,
           HasNew(o), o.new = f,
           HasOld(o) => o.at = "replacing" /\ o.doc \in Documents /\ o.old = FileOf(o.doc)
    PROVE  FilesInv'
<1>1. op'[w] = o /\ \A v \in Workers \ {w} : op'[v] = op[v]
  BY Continues
<1>2. f \notin files /\ Unreferred(f)
  BY ReferredFiles DEF FreshFile, Unreferred
<1>3. \A v \in Workers : HasNew(op[v]) => op[v].new # f
  BY DEF FreshFile, HasNew
<1>4. \A v \in Workers : HasOld(op[v]) => f \notin op[v].old
  BY DEF FreshFile, HasOld, WithOld
<1>5. HasOld(o) => /\ f \notin o.old
                   /\ \A v \in Workers : HasNew(op[v]) => op[v].new \notin o.old
                   /\ \A d \in Documents : rows[d] \in o.old => d = o.doc
  BY <1>2 DEF FileOf, Unreferred, FilesInv, NewFilesAreOwn, RowsHaveFiles
<1>6. ~AfterRow(o) /\ (BeforeRow(o) => HasOld(o))
  BY DEF HasNew, HasOld, BeforeRow, AfterRow, WithOld
<1>7. RowsHaveFiles'
  BY DEF FilesInv, RowsHaveFiles
<1>8. NewFilesAreOwn'
  <2>1. \A v \in Workers : HasNew(op[v])' => op'[v].new \in files' /\ Unreferred(op[v].new)'
    BY <1>1, <1>2 DEF FilesInv, NewFilesAreOwn, HasNew, Unreferred
  <2>2. \A u, v \in Workers : HasNew(op[u])' /\ HasNew(op[v])' /\ op'[u].new = op'[v].new => u = v
    BY <1>1, <1>3 DEF FilesInv, NewFilesAreOwn, HasNew
  <2>3. \A u, v \in Workers : HasNew(op[u])' /\ HasOld(op[v])' => op'[u].new \notin op'[v].old
    BY <1>1, <1>4, <1>5 DEF FilesInv, NewFilesAreOwn, HasNew, HasOld
  <2> QED
    BY <2>1, <2>2, <2>3 DEF NewFilesAreOwn
<1>9. OldFilesAreOwn'
  BY <1>1, <1>5, <1>6 DEF FilesInv, OldFilesAreOwn, BeforeRow, AfterRow
<1> QED
  BY <1>7, <1>8, <1>9 DEF FilesInv

\* The files of rows, which are to be removed.
LEMMA TakesOldFiles ==
    ASSUME TypeOK, FilesInv, NEW w \in Workers, NEW o \in Operation, Continue(w, o),
           ~HasNew(o), UNCHANGED <<rows, files>>,
           \/ o.at = "deleting" /\ o.doc \in Documents /\ o.old = FileOf(o.doc)
           \/ o.at = "removing" /\ o.old = Referred
    PROVE  FilesInv'
<1>1. op'[w] = o /\ \A v \in Workers \ {w} : op'[v] = op[v]
  BY Continues
<1>2. \A f \in o.old : ~Unreferred(f)
  BY ReferredFiles DEF FileOf, Unreferred
<1>3. BeforeRow(o) => \A d \in Documents : rows[d] \in o.old => d = o.doc
  BY DEF BeforeRow, FileOf, FilesInv, RowsHaveFiles
<1>4. ~AfterRow(o)
  BY DEF AfterRow
<1>5. RowsHaveFiles'
  BY DEF FilesInv, RowsHaveFiles
<1>6. \A v \in Workers : HasNew(op[v]) => op[v].new \notin o.old
  BY <1>2 DEF FilesInv, NewFilesAreOwn
<1>7. NewFilesAreOwn'
  BY <1>1, <1>6 DEF FilesInv, NewFilesAreOwn, HasNew, HasOld, Unreferred
<1>8. OldFilesAreOwn'
  BY <1>1, <1>3, <1>4 DEF FilesInv, OldFilesAreOwn, BeforeRow, AfterRow
<1> QED
  BY <1>5, <1>7, <1>8 DEF FilesInv

\* A row is made to refer to the new file of the operation, or to none.
LEMMA WritesRow ==
    ASSUME TypeOK, FilesInv, NEW w \in Workers, NEW o \in Operation, Continue(w, o),
           NEW d \in Documents, NEW x \in Files \cup {"remote", None}, rows' = [rows EXCEPT ![d] = x],
           x \in Files => HasNew(op[w]) /\ op[w].new = x,
           UNCHANGED files, ~HasNew(o),
           HasOld(o) => BeforeRow(op[w]) /\ op[w].doc = d /\ o.old = op[w].old
    PROVE  FilesInv'
<1>1. op'[w] = o /\ \A v \in Workers \ {w} : op'[v] = op[v]
  BY Continues
<1>2. rows'[d] = x /\ \A e \in Documents \ {d} : rows'[e] = rows[e]
  BY DEF TypeOK
<1>3. \A v \in Workers : HasOld(op[v]) => op[v].old \in SUBSET Files /\ x \notin op[v].old
  BY SaleReviewAssumption, OperationFields DEF FilesInv, NewFilesAreOwn, HasOld, TypeOK
<1>4. \A v \in Workers \ {w} : HasNew(op[v]) => op[v].new # x
  BY SaleReviewAssumption DEF FilesInv, NewFilesAreOwn, HasNew
<1>5. HasOld(o) => HasOld(op[w])
  BY DEF HasOld, BeforeRow, WithOld
<1>6. RowsHaveFiles'
  BY <1>2 DEF FilesInv, RowsHaveFiles, NewFilesAreOwn, Unreferred
<1>7. NewFilesAreOwn'
  <2>1. \A v \in Workers : HasNew(op[v])' => op'[v].new \in files' /\ Unreferred(op[v].new)'
    BY <1>1, <1>2, <1>4 DEF FilesInv, NewFilesAreOwn, HasNew, Unreferred
  <2>2. \A u, v \in Workers : HasNew(op[u])' /\ HasNew(op[v])' /\ op'[u].new = op'[v].new => u = v
    BY <1>1 DEF FilesInv, NewFilesAreOwn, HasNew
  <2>3. \A u, v \in Workers : HasNew(op[u])' /\ HasOld(op[v])' => op'[u].new \notin op'[v].old
    BY <1>1, <1>5 DEF FilesInv, NewFilesAreOwn, HasNew, HasOld
  <2> QED
    BY <2>1, <2>2, <2>3 DEF NewFilesAreOwn
<1>8. OldFilesAreOwn'
  <2>1. \A v \in Workers \ {w}, e \in Documents : BeforeRow(op[v]) /\ rows'[e] \in op[v].old => e = op[v].doc
    BY <1>2, <1>3 DEF FilesInv, OldFilesAreOwn, BeforeRow, HasOld, WithOld
  <2>2. \A v \in Workers \ {w}, e \in Documents : AfterRow(op[v]) => rows'[e] \notin op[v].old
    BY <1>2, <1>3 DEF FilesInv, OldFilesAreOwn, AfterRow, HasOld, WithOld
  <2>3. HasOld(o) => \A e \in Documents : rows'[e] \notin o.old
    BY <1>2, <1>3, <1>5 DEF FilesInv, OldFilesAreOwn
  <2>4. BeforeRow(o) \/ AfterRow(o) => HasOld(o)
    BY DEF BeforeRow, AfterRow, HasOld, WithOld
  <2> QED
    BY <1>1, <2>1, <2>2, <2>3, <2>4 DEF OldFilesAreOwn, BeforeRow, AfterRow
<1> QED
  BY <1>6, <1>7, <1>8 DEF FilesInv

\* Files that no row refers to and that no other operation has written.
LEMMA RemovesFiles ==
    ASSUME TypeOK, FilesInv, NEW w \in Workers, NEW o \in Operation, Continue(w, o),
           ~HasNew(o), ~HasOld(o), UNCHANGED rows, NEW old, files' = files \ old,
           \A d \in Documents : rows[d] \notin old,
           \A v \in Workers \ {w} : HasNew(op[v]) => op[v].new \notin old
    PROVE  FilesInv'
<1>1. op'[w] = o /\ \A v \in Workers \ {w} : op'[v] = op[v]
  BY Continues
<1>2. ~BeforeRow(o) /\ ~AfterRow(o)
  BY DEF HasOld, BeforeRow, AfterRow, WithOld
<1>3. RowsHaveFiles'
  BY DEF FilesInv, RowsHaveFiles
<1>4. NewFilesAreOwn'
  BY <1>1 DEF FilesInv, NewFilesAreOwn, HasNew, HasOld, Unreferred
<1>5. OldFilesAreOwn'
  BY <1>1, <1>2 DEF FilesInv, OldFilesAreOwn, BeforeRow, AfterRow
<1> QED
  BY <1>3, <1>4, <1>5 DEF FilesInv

LEMMA ChangeKeepsFiles ==
    ASSUME TypeOK, FilesInv, NEW w \in Workers, ChangeOfSale(w), TypeOK'
    PROVE  FilesInv'
<1>1. CASE remove(w)
  <2>1. Referred \in SUBSET Files
    BY ReferredFiles
  <2>2. [at |-> "removing", old |-> Referred] \in Operation
    BY <2>1, OperationBuilt
  <2> QED
    BY <1>1, <2>2, TakesOldFiles DEF remove, HasNew
<1>2. CASE ~remove(w)
  <2>1. UNCHANGED <<rows, files>>
    BY <1>2 DEF ChangeOfSale, create, submitForReview, startReview, requestCorrection, approveForTask,
                sendToTask, conclude, reopen, updateStatus, requestDocuments, resubmitDocuments, Decide
  <2>2. UNCHANGED op \/ \E c : Continue(w, [at |-> "writing", change |-> c])
    BY <1>2 DEF ChangeOfSale, create, submitForReview, startReview, requestCorrection, approveForTask,
                sendToTask, conclude, reopen, updateStatus, requestDocuments, resubmitDocuments, Decide
  <2>3. CASE UNCHANGED op
    BY <2>1, <2>3 DEF FilesInv, RowsHaveFiles, NewFilesAreOwn, OldFilesAreOwn, Unreferred
  <2>4. ASSUME NEW c, Continue(w, [at |-> "writing", change |-> c])
        PROVE  FilesInv'
    <3>1. op'[w] = [at |-> "writing", change |-> c]
      BY <2>4 DEF TypeOK, Continue
    <3>2. op'[w] \in Operation /\ op'[w].at = "writing"
      BY <3>1 DEF TypeOK
    <3>3. Continue(w, op'[w])
      BY <2>4, <3>1
    <3> QED
      BY <2>1, <3>2, <3>3, HoldsNothing DEF HasNew, HasOld, WithOld
  <2> QED
    BY <2>2, <2>3, <2>4
<1> QED
  BY <1>1, <1>2

LEMMA DocumentsKeepFiles ==
    ASSUME TypeOK, FilesInv, NEW w \in Workers, ChangeOfDocuments(w)
    PROVE  FilesInv'
<1>0. \A d \in Documents : FileOf(d) \in SUBSET Files
  BY DEF FileOf
<1>1. ASSUME NEW d \in Documents, NEW f \in Files, uploadFile(w, d, f)
      PROVE  FilesInv'
  BY <1>1, OperationBuilt, TakesNewFile DEF uploadFile, HasNew, HasOld, WithOld
<1>2. ASSUME NEW d \in Documents, NEW f \in Files, replaceDocument(w, d, f)
      PROVE  FilesInv'
  BY <1>0, <1>2, OperationBuilt, TakesNewFile DEF replaceDocument, HasNew
<1>3. ASSUME NEW d \in Documents, deleteDocument(w, d)
      PROVE  FilesInv'
  BY <1>0, <1>3, OperationBuilt, TakesOldFiles DEF deleteDocument, HasNew
<1>4. CASE receiveAttachment(w)
  <2>1. ASSUME NEW f \in Files, FreshFile(f), files' = files \cup {f},
               Continue(w, [at |-> "attaching", new |-> f])
        PROVE  FilesInv'
    BY <1>4, <2>1, OperationBuilt, TakesNewFile DEF receiveAttachment, HasNew, HasOld, WithOld
  <2>2. CASE Continue(w, [at |-> "attaching", new |-> "remote"]) /\ UNCHANGED files
    BY <1>4, <2>2, OperationBuilt, HoldsNothing, SaleReviewAssumption
    DEF receiveAttachment, HasNew, HasOld, WithOld
  <2> QED
    BY <1>4, <2>1, <2>2 DEF receiveAttachment
<1> QED
  BY <1>1, <1>2, <1>3, <1>4 DEF ChangeOfDocuments

LEMMA ProceedKeepsFiles ==
    ASSUME TypeOK, FilesInv, NEW w \in Workers, Proceed(w)
    PROVE  FilesInv'
<1>0. op[w] \in Operation /\ Idle \in Operation /\ ~HasNew(Idle) /\ ~HasOld(Idle)
  BY OperationBuilt DEF TypeOK, HasNew, HasOld, WithOld, Idle
<1>1. CASE Write(w) \/ WriteList(w) \/ Deliver(w)
  BY <1>0, <1>1, HoldsNothing DEF Write, WriteList, Deliver, Done
<1>2. CASE StoreRow(w)
  <2>1. op[w].doc \in Documents /\ op[w].new \in Files /\ TypeOf[op[w].doc] \in Types
    BY <1>0, <1>2, OperationFields, SaleReviewAssumption DEF StoreRow, At, WithDoc, WithFile
  <2>2. CASE Exists
    <3> DEFINE o == [at |-> "listing", type |-> TypeOf[op[w].doc], mark |-> "fulfilled"]
    <3>1. o \in Operation /\ ~HasNew(o) /\ ~HasOld(o)
      BY <2>1, OperationBuilt DEF HasNew, HasOld, WithOld
    <3>2. Continue(w, o) /\ rows' = [rows EXCEPT ![op[w].doc] = op[w].new] /\ UNCHANGED files
      BY <1>2, <2>2 DEF StoreRow
    <3>3. HasNew(op[w])
      BY <1>2, <2>1 DEF StoreRow, At, HasNew
    <3> HIDE DEF o
    <3> QED
      BY <2>1, <3>1, <3>2, <3>3, WritesRow
  <2>3. CASE ~Exists
    BY <1>0, <1>2, <2>3, HoldsNothing DEF StoreRow, Done
  <2> QED
    BY <2>2, <2>3
<1>3. CASE ReadList(w)
  <2>1. op[w].type \in Types /\ op[w].mark \in {"pending", "fulfilled"}
    BY <1>0, <1>3, OperationFields DEF ReadList, At
  <2> DEFINE list == [sale.required EXCEPT ![op[w].type] = IF @ = "unlisted" THEN @ ELSE op[w].mark]
  <2>2. list \in Lists
    BY <2>1 DEF TypeOK, Lists
  <2>3. [at |-> "marking", required |-> list] \in Operation
    BY <2>2, OperationBuilt
  <2>4. ~HasNew([at |-> "marking", required |-> list]) /\ ~HasOld([at |-> "marking", required |-> list])
    BY DEF HasNew, HasOld, WithOld
  <2> QED
    BY <1>0, <1>3, <2>3, <2>4, HoldsNothing DEF ReadList, Done
<1>4. CASE CountRemaining(w)
  <2>1. op[w].type \in Types
    BY <1>0, <1>4, OperationFields DEF CountRemaining, At
  <2> DEFINE o == [at |-> "listing", type |-> op[w].type, mark |-> "pending"]
  <2>2. o \in Operation /\ ~HasNew(o) /\ ~HasOld(o)
    BY <2>1, OperationBuilt DEF HasNew, HasOld, WithOld
  <2> QED
    BY <1>0, <1>4, <2>2, HoldsNothing DEF CountRemaining, Done
<1>5. CASE DeleteRow(w)
  <2>1. op[w].doc \in Documents /\ op[w].old \in SUBSET Files
    BY <1>0, <1>5, OperationFields DEF DeleteRow, At, WithDoc, WithOld
  <2>2. CASE rows[op[w].doc] = None
    BY <1>0, <1>5, <2>2, HoldsNothing DEF DeleteRow, Done
  <2>3. CASE rows[op[w].doc] # None
    <3> DEFINE o == [at |-> "unlinking", doc |-> op[w].doc, old |-> op[w].old]
    <3>1. o = [op[w] EXCEPT !.at = "unlinking"]
      BY <1>0, <1>5, OperationGoesOn DEF DeleteRow, At
    <3>2. o \in Operation /\ ~HasNew(o) /\ o.old = op[w].old
      BY <2>1, OperationBuilt DEF HasNew
    <3>3. /\ Continue(w, [op[w] EXCEPT !.at = "unlinking"])
          /\ rows' = [rows EXCEPT ![op[w].doc] = None] /\ UNCHANGED files
      BY <1>5, <2>3 DEF DeleteRow
    <3>4. BeforeRow(op[w])
      BY <1>5 DEF DeleteRow, At, BeforeRow
    <3> HIDE DEF o
    <3> QED
      BY <2>1, <3>1, <3>2, <3>3, <3>4, WritesRow, SaleReviewAssumption
  <2> QED
    BY <2>2, <2>3
<1>6. CASE RemoveStoredFile(w)
  <2>1. TypeOf[op[w].doc] \in Types
    BY <1>0, <1>6, OperationFields, SaleReviewAssumption DEF RemoveStoredFile, At, WithDoc
  <2> DEFINE o == [at |-> "counting", type |-> TypeOf[op[w].doc]]
  <2>2. o \in Operation /\ ~HasNew(o) /\ ~HasOld(o)
    BY <2>1, OperationBuilt DEF HasNew, HasOld, WithOld
  <2>3. /\ \A d \in Documents : rows[d] \notin op[w].old
        /\ \A v \in Workers \ {w} : HasNew(op[v]) => op[v].new \notin op[w].old
    BY <1>6 DEF RemoveStoredFile, At, FilesInv, OldFilesAreOwn, NewFilesAreOwn, AfterRow, HasOld, WithOld
  <2> QED
    BY <1>6, <2>2, <2>3, RemovesFiles DEF RemoveStoredFile
<1>7. CASE UpdateRow(w)
  <2>1. op[w].doc \in Documents /\ op[w].new \in Files /\ op[w].old \in SUBSET Files
    BY <1>0, <1>7, OperationFields DEF UpdateRow, At, WithDoc, WithFile, WithOld
  <2>2. HasNew(op[w]) /\ BeforeRow(op[w])
    BY <1>7, <2>1 DEF UpdateRow, At, HasNew, BeforeRow
  <2>3. CASE rows[op[w].doc] = None
    <3>1. /\ \A d \in Documents : rows[d] \notin {op[w].new}
          /\ \A v \in Workers \ {w} : HasNew(op[v]) => op[v].new \notin {op[w].new}
      BY <2>2 DEF FilesInv, NewFilesAreOwn, Unreferred
    <3>2. files' = files \ {op[w].new} /\ Continue(w, Idle) /\ UNCHANGED rows
      BY <1>7, <2>3 DEF UpdateRow, Done
    <3> QED
      BY <1>0, <3>1, <3>2, RemovesFiles
  <2>4. CASE rows[op[w].doc] # None
    <3> DEFINE o == [at |-> "dropping", doc |-> op[w].doc, new |-> op[w].new, old |-> op[w].old]
    <3>1. o = [op[w] EXCEPT !.at = "dropping"]
      BY <1>0, <1>7, OperationGoesOn DEF UpdateRow, At
    <3>2. o \in Operation /\ ~HasNew(o) /\ o.old = op[w].old
      BY <2>1, OperationBuilt DEF HasNew
    <3>3. /\ Continue(w, [op[w] EXCEPT !.at = "dropping"])
          /\ rows' = [rows EXCEPT ![op[w].doc] = op[w].new] /\ UNCHANGED files
      BY <1>7, <2>4 DEF UpdateRow
    <3> HIDE DEF o
    <3> QED
      BY <2>1, <2>2, <3>1, <3>2, <3>3, WritesRow
  <2> QED
    BY <2>3, <2>4
<1>8. CASE DropPrevious(w)
  <2>1. op[w].new \in Files
    BY <1>0, <1>8, OperationFields DEF DropPrevious, At, WithFile
  <2> DEFINE o == [at |-> "delivering", new |-> op[w].new]
  <2>2. o \in Operation /\ ~HasNew(o) /\ ~HasOld(o)
    BY <2>1, OperationBuilt DEF HasNew, HasOld, WithOld
  <2>3. /\ \A d \in Documents : rows[d] \notin op[w].old
        /\ \A v \in Workers \ {w} : HasNew(op[v]) => op[v].new \notin op[w].old
    BY <1>8 DEF DropPrevious, At, FilesInv, OldFilesAreOwn, NewFilesAreOwn, AfterRow, HasOld, WithOld
  <2> QED
    BY <1>8, <2>2, <2>3, RemovesFiles DEF DropPrevious
<1>9. CASE Attach(w)
  <2>1. op[w].new \in Files \cup {"remote"} /\ (op[w].new \in Files => HasNew(op[w]))
    BY <1>0, <1>9, OperationFields DEF Attach, At, HasNew
  <2>2. CASE UNCHANGED rows
    BY <1>0, <1>9, <2>2, HoldsNothing DEF Attach, Done
  <2>3. CASE ~UNCHANGED rows
    <3>1. PICK d \in Documents : rows' = [rows EXCEPT ![d] = op[w].new]
      BY <1>9, <2>3 DEF Attach, TypeOK
    <3> QED
      BY <1>0, <1>9, <2>1, <3>1, WritesRow DEF Attach, Done
  <2> QED
    BY <2>2, <2>3
<1>10. CASE DeleteSale(w)
  <2>1. op[w].old \in SUBSET Files
    BY <1>0, <1>10, OperationFields DEF DeleteSale, At, WithOld
  <2>2. CASE ~Exists
    BY <1>0, <1>10, <2>2, HoldsNothing DEF DeleteSale, Done
  <2>3. CASE Exists
    <3> DEFINE o == [at |-> "sweeping", old |-> op[w].old]
    <3>1. o = [op[w] EXCEPT !.at = "sweeping"]
      BY <1>0, <1>10, OperationGoesOn DEF DeleteSale, At
    <3>2. o \in Operation /\ ~HasNew(o) /\ ~BeforeRow(o) /\ o.old = op[w].old
      BY <2>1, OperationBuilt DEF HasNew, BeforeRow
    <3>3. /\ Continue(w, [op[w] EXCEPT !.at = "sweeping"])
          /\ rows' = [d \in Documents |-> None] /\ UNCHANGED files
      BY <1>10, <2>3 DEF DeleteSale
    <3> HIDE DEF o
    <3>4. op'[w] = o /\ \A v \in Workers \ {w} : op'[v] = op[v]
      BY <3>1, <3>2, <3>3, Continues
    <3>5. HasOld(op[w])
      BY <1>10 DEF DeleteSale, At, HasOld, WithOld
    <3>6. \A d \in Documents : rows'[d] = None /\ None \notin Files
      BY <3>3, SaleReviewAssumption
    <3>7. RowsHaveFiles'
      BY <3>6 DEF RowsHaveFiles
    <3>8. NewFilesAreOwn'
      BY <3>2, <3>3, <3>4, <3>5, <3>6 DEF FilesInv, NewFilesAreOwn, HasNew, HasOld, Unreferred
    <3>9. OldFilesAreOwn'
      <4>1. \A v \in Workers : HasOld(op[v]) => op[v].old \in SUBSET Files
        BY OperationFields DEF TypeOK, HasOld
      <4>2. \A v \in Workers \ {w} : (BeforeRow(op[v]) \/ AfterRow(op[v])) => None \notin op[v].old
        BY <4>1, <3>6, SaleReviewAssumption DEF BeforeRow, AfterRow, HasOld, WithOld
      <4> QED
        BY <2>1, <3>2, <3>4, <3>6, <4>2, SaleReviewAssumption DEF OldFilesAreOwn, BeforeRow, AfterRow
    <3> QED
      BY <3>7, <3>8, <3>9 DEF FilesInv
  <2> QED
    BY <2>2, <2>3
<1>11. CASE removeStoredFiles(w)
  <2>1. /\ \A d \in Documents : rows[d] \notin op[w].old
        /\ \A v \in Workers \ {w} : HasNew(op[v]) => op[v].new \notin op[w].old
    BY <1>11 DEF removeStoredFiles, At, FilesInv, OldFilesAreOwn, NewFilesAreOwn, AfterRow, HasOld, WithOld
  <2> QED
    BY <1>0, <1>11, <2>1, RemovesFiles DEF removeStoredFiles, Done
<1> QED
  BY <1>1, <1>2, <1>3, <1>4, <1>5, <1>6, <1>7, <1>8, <1>9, <1>10, <1>11 DEF Proceed

\* The faults are those of the first state.
LEMMA WeatherHolds == [Next]_vars => weather' = weather
  BY DEF Next, ChangeOfSale, ChangeOfDocuments, Proceed, Fault, create, submitForReview, startReview,
         requestCorrection, approveForTask, sendToTask, conclude, reopen, updateStatus,
         requestDocuments, resubmitDocuments, remove, Decide, uploadFile, replaceDocument,
         deleteDocument, receiveAttachment, Write, StoreRow, ReadList, WriteList, DeleteRow,
         RemoveStoredFile, CountRemaining, UpdateRow, DropPrevious, Deliver, Attach, DeleteSale,
         removeStoredFiles, Crash, QueryFails, ReplaceFails, vars

LEMMA NextFiles ==
    ASSUME TypeOK, FilesInv, "failure" \notin weather, [Next]_vars
    PROVE  FilesInv'
<1>1. CASE UNCHANGED vars
  BY <1>1 DEF vars, FilesInv, RowsHaveFiles, NewFilesAreOwn, OldFilesAreOwn, Unreferred
<1>2. ASSUME NEW w \in Workers, Crash(w)
      PROVE  FilesInv'
  BY <1>2, HoldsNothing, OperationBuilt DEF Crash, Done, HasNew, HasOld, WithOld, Idle
<1>3. TypeOK'
  BY NextTypes
<1> QED
  BY <1>1, <1>2, <1>3, ChangeKeepsFiles, DocumentsKeepFiles, ProceedKeepsFiles
  DEF Next, Fault, QueryFails, ReplaceFails

\* In every interleaving and with crashes, a row refers to a file that is on
\* the volume, and no two rows to the same one.
THEOREM RowsKeepFiles == Spec => []DocumentHasFile
<1> DEFINE Inv == TypeOK /\ ("failure" \notin weather => FilesInv)
<1>1. Init => Inv
  BY InitTypes, InitFiles
<1>2. Inv /\ [Next]_vars => Inv'
  BY NextTypes, NextFiles, WeatherHolds
<1>3. Inv => DocumentHasFile
  BY ReferredFiles DEF DocumentHasFile, Without, FilesInv, RowsHaveFiles
<1> HIDE DEF Inv
<1> QED
  BY <1>1, <1>2, <1>3, PTL DEF Spec

(***************************************************************************)
(* Operations that do not overlap                                          *)
(***************************************************************************)

Alone == \A v, w \in Workers : op[v] # Idle /\ op[w] # Idle => v = w

LEMMA BeginsAlone ==
    ASSUME "overlap" \notin weather, NEW w \in Workers, ChangeOfSale(w) \/ ChangeOfDocuments(w)
    PROVE  Quiet
  BY DEF ChangeOfSale, ChangeOfDocuments, create, submitForReview, startReview, requestCorrection,
         approveForTask, sendToTask, conclude, reopen, updateStatus, requestDocuments,
         resubmitDocuments, remove, Decide, uploadFile, replaceDocument, deleteDocument,
         receiveAttachment, Ready, Quiet

\* A step is one of a worker, who leaves the operations of the others.
LEMMA OthersStay ==
    ASSUME TypeOK, NEW w \in Workers,
           ChangeOfSale(w) \/ ChangeOfDocuments(w) \/ Proceed(w) \/ Fault(w)
    PROVE  \A v \in Workers \ {w} : op'[v] = op[v]
<1>1. UNCHANGED op \/ \E o : op' = [op EXCEPT ![w] = o]
  BY DEF ChangeOfSale, ChangeOfDocuments, Proceed, Fault, create, submitForReview, startReview,
         requestCorrection, approveForTask, sendToTask, conclude, reopen, updateStatus,
         requestDocuments, resubmitDocuments, remove, Decide, uploadFile, replaceDocument,
         deleteDocument, receiveAttachment, Write, StoreRow, ReadList, WriteList, DeleteRow,
         RemoveStoredFile, CountRemaining, UpdateRow, DropPrevious, Deliver, Attach, DeleteSale,
         removeStoredFiles, Crash, QueryFails, ReplaceFails, Continue, Done
<1> QED
  BY <1>1 DEF TypeOK

LEMMA ProceedsAlone ==
    ASSUME Alone, NEW w \in Workers, Proceed(w) \/ Fault(w)
    PROVE  op[w] # Idle /\ \A v \in Workers \ {w} : op[v] = Idle
<1>1. op[w] # Idle
  BY DEF Proceed, Fault, Write, StoreRow, ReadList, WriteList, DeleteRow, RemoveStoredFile,
         CountRemaining, UpdateRow, DropPrevious, Deliver, Attach, DeleteSale, removeStoredFiles,
         Crash, QueryFails, ReplaceFails, At, Free, Idle
<1> QED
  BY <1>1 DEF Alone

LEMMA NextAlone ==
    ASSUME TypeOK, Alone, "overlap" \notin weather, [Next]_vars
    PROVE  Alone'
<1>1. CASE UNCHANGED vars
  BY <1>1 DEF vars, Alone
<1>2. ASSUME NEW w \in Workers, ChangeOfSale(w) \/ ChangeOfDocuments(w)
      PROVE  Alone'
  BY <1>2, BeginsAlone, OthersStay DEF Alone, Quiet, Free
<1>3. ASSUME NEW w \in Workers, Proceed(w) \/ Fault(w)
      PROVE  Alone'
  BY <1>3, ProceedsAlone, OthersStay DEF Alone
<1> QED
  BY <1>1, <1>2, <1>3 DEF Next

(***************************************************************************)
(* Approvals                                                               *)
(***************************************************************************)

\* What o decided on still holds.
Stands(o) ==
    /\ (o.at = "writing" /\ "review" \in DOMAIN o.change)
       => /\ o.change["review"] # "APPROVED" /\ sale.review = "APPROVED"
             => isCompleted /\ o.change["review"] = "UNDER_REVIEW"
          /\ o.change["review"] = "APPROVED" => sale.sent \/ "sent" \in DOMAIN o.change
    /\ (o.at = "writing" /\ "status" \in DOMAIN o.change)
       => (o.change["status"] # "ENDED" /\ sale.status = "ENDED"
             => sale.completed /\ "review" \in DOMAIN o.change /\ o.change["review"] = "UNDER_REVIEW")
    /\ o.at = "removing" => ~sale.sent

\* An approved sale was sent, and one that was sent is there, past its draft.
SentIsReviewed ==
    /\ sale.sent => sale.review \notin {"ABSENT", "REMOVED", "DRAFT"}
    /\ sale.review = "APPROVED" => sale.sent

ApprovalInv == Alone /\ SentIsReviewed /\ \A w \in Workers : Stands(op[w])

LEMMA SaleFields ==
    ASSUME TypeOK
    PROVE  sale \in SaleRow
  BY DEF TypeOK, SaleRow

\* An operation that begins.
LEMMA DecidesApproval ==
    ASSUME TypeOK, ApprovalInv, "overlap" \notin weather, NEW w \in Workers,
           ChangeOfSale(w) \/ ChangeOfDocuments(w)
    PROVE  SentIsReviewed' /\ Stands(op[w])' /\ (sale' = sale \/ create(w))
<1> USE DEF ApprovalInv
<1>1. ASSUME NEW condition \in BOOLEAN, NEW c \in Change, Decide(w, condition, c)
      PROVE  op'[w] = [at |-> "writing", change |-> c] /\ UNCHANGED sale
  BY <1>1, OperationBuilt, Continues DEF Decide
<1>2. ASSUME NEW c \in Change, op'[w] = [at |-> "writing", change |-> c], UNCHANGED sale,
             "review" \in DOMAIN c
             => /\ c["review"] # "APPROVED" /\ sale.review = "APPROVED"
                   => isCompleted /\ c["review"] = "UNDER_REVIEW"
                /\ c["review"] = "APPROVED" => sale.sent \/ "sent" \in DOMAIN c,
             "status" \in DOMAIN c
             => (c["status"] # "ENDED" /\ sale.status = "ENDED"
                   => sale.completed /\ "review" \in DOMAIN c /\ c["review"] = "UNDER_REVIEW")
      PROVE  SentIsReviewed' /\ Stands(op[w])' /\ sale' = sale
  BY <1>2 DEF SentIsReviewed, Stands, isCompleted
<1>13. sale.status = "ENDED" => STATUS_TRANSITIONS[sale.status] = {}
  BY DEF STATUS_TRANSITIONS
<1>3. ASSUME NEW o \in Operation, Continue(w, o), o.at \notin {"writing", "removing"}, UNCHANGED sale
      PROVE  SentIsReviewed' /\ Stands(op[w])' /\ sale' = sale
  BY <1>3, Continues DEF SentIsReviewed, Stands
<1>4. CASE create(w)
  <2>1. sale.review = "ABSENT" /\ sale' = [sale EXCEPT !.review = "DRAFT"]
    BY <1>4 DEF create
  <2>2. sale'.review = "DRAFT" /\ sale'.sent = sale.sent /\ ~sale.sent
    BY <2>1, SaleFields DEF SaleRow, SentIsReviewed
  <2>3. \/ op'[w] = Idle
        \/ op'[w] = [at |-> "writing", change |-> [review |-> "AWAITING_REVIEW"]]
    BY <1>4 DEF create, Ready, Free, Continue, TypeOK
  <2>4. Stands(op[w])'
    BY <2>2, <2>3 DEF Stands, Idle
  <2> QED
    BY <1>4, <2>2, <2>4 DEF SentIsReviewed
<1>5. CASE submitForReview(w) \/ startReview(w) \/ requestCorrection(w)
  <2>1. PICK status \in {"AWAITING_REVIEW", "UNDER_REVIEW", "CHANGES_REQUESTED"},
             condition \in BOOLEAN :
            Decide(w, condition, [review |-> status]) /\ sale.review # "APPROVED"
    BY <1>5 DEF submitForReview, startReview, requestCorrection, Reviewable, Decide
  <2>2. [review |-> status] \in Change
    BY DEF Change, ReviewStatus
  <2>3. [review |-> status]["review"] = status /\ "status" \notin DOMAIN [review |-> status]
    OBVIOUS
  <2> QED
    BY <1>1, <1>2, <2>1, <2>2, <2>3
<1>6. CASE approveForTask(w) \/ sendToTask(w)
  <2> DEFINE c == [review |-> "APPROVED", sent |-> TRUE, completed |-> FALSE]
  <2>1. c \in Change /\ c["review"] = "APPROVED" /\ "sent" \in DOMAIN c /\ "status" \notin DOMAIN c
    BY DEF Change
  <2>2. Continue(w, [at |-> "writing", change |-> c]) /\ UNCHANGED sale
    BY <1>6 DEF approveForTask, sendToTask, Decide
  <2>3. op'[w] = [at |-> "writing", change |-> c]
    BY <2>1, <2>2, OperationBuilt, Continues
  <2> HIDE DEF c
  <2> QED
    BY <1>2, <2>1, <2>2, <2>3
<1>7. CASE conclude(w)
  <2> DEFINE c == [review |-> "APPROVED", status |-> "ACTIVATED", completed |-> TRUE]
  <2>1. c \in Change /\ c["review"] = "APPROVED"
    BY DEF Change
  <2>2. sale.sent /\ sale.status # "ENDED"
    BY <1>7 DEF conclude, Decide, SaleClosed
  <2>3. PICK condition \in BOOLEAN : Decide(w, condition, c)
    BY <1>7, <2>2 DEF conclude, Decide
  <2> HIDE DEF c
  <2> QED
    BY <1>1, <1>2, <2>1, <2>2, <2>3
<1>8. CASE reopen(w)
  <2> DEFINE c == [review |-> "UNDER_REVIEW", status |-> "OPEN", completed |-> FALSE]
  <2>1. c \in Change /\ "review" \in DOMAIN c /\ c["review"] = "UNDER_REVIEW"
    BY DEF Change
  <2>2. isCompleted /\ (sale.status = "ENDED" => sale.completed)
    BY <1>8 DEF reopen, Decide, isCompleted
  <2>3. PICK condition \in BOOLEAN : Decide(w, condition, c)
    BY <1>8 DEF reopen, isCompleted
  <2> HIDE DEF c
  <2> QED
    BY <1>1, <1>2, <2>1, <2>2, <2>3
<1>9. CASE resubmitDocuments(w) \/ \E status \in SaleStatus : updateStatus(w, status)
  <2>1. PICK status \in SaleStatus : Continue(w, [at |-> "writing", change |-> [status |-> status]])
                                     /\ UNCHANGED sale /\ sale.status # "ENDED"
    BY <1>9, <1>13 DEF resubmitDocuments, updateStatus, Decide, SaleStatus
  <2> DEFINE c == [status |-> status]
  <2>2. c \in Change /\ "review" \notin DOMAIN c
    BY DEF Change
  <2>3. op'[w] = [at |-> "writing", change |-> c]
    BY <2>1, <2>2, OperationBuilt, Continues
  <2> HIDE DEF c
  <2> QED
    BY <1>2, <2>1, <2>2, <2>3
<1>10. ASSUME NEW types \in SUBSET Types, requestDocuments(w, types)
       PROVE  SentIsReviewed' /\ Stands(op[w])' /\ sale' = sale
  <2> DEFINE c == [status |-> "DOCUMENTS_PENDING", required |-> Requested(types)]
  <2>1. c \in Change /\ "review" \notin DOMAIN c
    BY DEF Change, Requested, Lists
  <2>2. Continue(w, [at |-> "writing", change |-> c]) /\ UNCHANGED sale /\ sale.status # "ENDED"
    BY <1>10, <1>13 DEF requestDocuments, Decide
  <2>3. op'[w] = [at |-> "writing", change |-> c]
    BY <2>1, <2>2, OperationBuilt, Continues
  <2> HIDE DEF c
  <2> QED
    BY <1>2, <2>1, <2>2, <2>3
<1>11. CASE remove(w)
  <2>1. ~sale.sent /\ UNCHANGED sale
    BY <1>11 DEF remove, Removable, SentIsReviewed
  <2>2. [at |-> "removing", old |-> Referred] \in Operation
    BY ReferredFiles, OperationBuilt
  <2>3. op'[w] = [at |-> "removing", old |-> Referred]
    BY <1>11, <2>2, Continues DEF remove
  <2> QED
    BY <2>1, <2>3 DEF SentIsReviewed, Stands
<1>12. CASE ChangeOfDocuments(w)
  <2>1. \A d \in Documents : FileOf(d) \in SUBSET Files
    BY DEF FileOf
  <2>2. UNCHANGED sale
    BY <1>12 DEF ChangeOfDocuments, uploadFile, replaceDocument, deleteDocument, receiveAttachment
  <2>3. ASSUME NEW d \in Documents, NEW f \in Files, uploadFile(w, d, f)
        PROVE  SentIsReviewed' /\ Stands(op[w])'
    BY <1>3, <2>3, OperationBuilt DEF uploadFile
  <2>4. ASSUME NEW d \in Documents, NEW f \in Files, replaceDocument(w, d, f)
        PROVE  SentIsReviewed' /\ Stands(op[w])'
    BY <1>3, <2>1, <2>4, OperationBuilt DEF replaceDocument
  <2>5. ASSUME NEW d \in Documents, deleteDocument(w, d)
        PROVE  SentIsReviewed' /\ Stands(op[w])'
    BY <1>3, <2>1, <2>5, OperationBuilt DEF deleteDocument
  <2>6. CASE receiveAttachment(w)
    BY <1>3, <2>6, OperationBuilt DEF receiveAttachment
  <2> QED
    BY <1>12, <2>2, <2>3, <2>4, <2>5, <2>6 DEF ChangeOfDocuments
<1> QED
  BY <1>4, <1>5, <1>6, <1>7, <1>8, <1>9, <1>10, <1>11, <1>12 DEF ChangeOfSale

\* What the steps of an operation do to an approval.
LEMMA WritesApproval ==
    ASSUME TypeOK, ApprovalInv, NEW w \in Workers, Proceed(w) \/ Fault(w)
    PROVE  /\ SentIsReviewed' /\ ApprovalKept /\ EndKept /\ op'[w].at \notin {"writing", "removing"}
           /\ sale.sent => sale'.sent
<1> USE DEF ApprovalInv
<1>0. op[w] \in Operation /\ sale \in SaleRow
  BY SaleFields DEF TypeOK
<1>1. op'[w].at \notin {"writing", "removing"}
  <2>1. \/ op'[w] \in {Idle, [op[w] EXCEPT !.at = "unlinking"], [op[w] EXCEPT !.at = "dropping"],
                       [op[w] EXCEPT !.at = "sweeping"]}
        \/ op'[w].at \in {"listing", "marking", "counting", "delivering"}
    BY DEF Proceed, Fault, Write, StoreRow, ReadList, WriteList, DeleteRow, RemoveStoredFile,
           CountRemaining, UpdateRow, DropPrevious, Deliver, Attach, DeleteSale, removeStoredFiles,
           Crash, QueryFails, ReplaceFails, Continue, Done, TypeOK
  <2> QED
    BY <1>0, <2>1 DEF Idle, Operation
<1>2. CASE UNCHANGED sale
  BY <1>1, <1>2 DEF SentIsReviewed, ApprovalKept, EndKept
<1>3. CASE Write(w) /\ Exists
  <2> DEFINE c == op[w].change
  <2>1. c \in Change /\ sale' = Written(c)
    BY <1>0, <1>3, OperationFields DEF Write, At
  <2>2. /\ sale'.review = IF "review" \in DOMAIN c THEN c["review"] ELSE sale.review
        /\ sale'.status = IF "status" \in DOMAIN c THEN c["status"] ELSE sale.status
        /\ sale'.sent = IF "sent" \in DOMAIN c THEN c["sent"] ELSE sale.sent
    BY <1>0, <2>1, WrittenFields
  <2>3. /\ "review" \in DOMAIN c => c["review"] \in ReviewStatus \ {"DRAFT"}
        /\ "sent" \in DOMAIN c => c["sent"] = TRUE /\ "review" \in DOMAIN c /\ c["review"] = "APPROVED"
    BY <2>1, ChangeFields
  <2>4. "review" \in DOMAIN c
        => /\ c["review"] # "APPROVED" /\ sale.review = "APPROVED"
              => isCompleted /\ c["review"] = "UNDER_REVIEW"
           /\ c["review"] = "APPROVED" => sale.sent \/ "sent" \in DOMAIN c
    BY <1>3 DEF Write, At, Stands
  <2>7. "status" \in DOMAIN c
        => (c["status"] # "ENDED" /\ sale.status = "ENDED"
              => sale.completed /\ "review" \in DOMAIN c /\ c["review"] = "UNDER_REVIEW")
    BY <1>3 DEF Write, At, Stands
  <2> HIDE DEF c
  <2>5. SentIsReviewed'
    BY <1>0, <1>3, <2>2, <2>3, <2>4 DEF SentIsReviewed, ReviewStatus, SaleRow
  <2>6. ApprovalKept /\ EndKept
    BY <2>2, <2>4, <2>7 DEF ApprovalKept, EndKept
  <2> QED
    BY <1>1, <2>2, <2>3, <2>5, <2>6
<1>4. CASE WriteList(w) /\ Exists
  <2>1. sale'.review = sale.review /\ sale'.sent = sale.sent /\ sale'.status = sale.status
    BY <1>0, <1>4 DEF WriteList, SaleRow
  <2> QED
    BY <1>1, <2>1 DEF SentIsReviewed, ApprovalKept, EndKept
<1>5. CASE DeleteSale(w) /\ Exists
  <2>1. sale'.review = "REMOVED" /\ sale'.sent = sale.sent /\ sale'.status = sale.status
    BY <1>0, <1>5 DEF DeleteSale, SaleRow
  <2>2. ~sale.sent
    BY <1>5 DEF DeleteSale, At, Stands
  <2>3. sale.review # "APPROVED"
    BY <2>2 DEF SentIsReviewed
  <2> QED
    BY <1>1, <2>1, <2>2, <2>3 DEF SentIsReviewed, ApprovalKept, EndKept
<1> QED
  BY <1>2, <1>3, <1>4, <1>5
  DEF Proceed, Fault, Write, StoreRow, ReadList, WriteList, DeleteRow, RemoveStoredFile,
      CountRemaining, UpdateRow, DropPrevious, Deliver, Attach, DeleteSale, removeStoredFiles,
      Crash, QueryFails, ReplaceFails

LEMMA NextApproval ==
    ASSUME TypeOK, ApprovalInv, "overlap" \notin weather, [Next]_vars
    PROVE  ApprovalInv' /\ ApprovalKept /\ EndKept /\ SentKept
<1>0. ASSUME ApprovalInv', sale.sent => sale'.sent
      PROVE  SentKept
  BY <1>0 DEF ApprovalInv, SentIsReviewed, SentKept, Exists, NoSale
<1>1. Alone'
  BY NextAlone DEF ApprovalInv
<1>2. CASE UNCHANGED vars
  BY <1>0, <1>1, <1>2 DEF vars, ApprovalInv, SentIsReviewed, Stands, ApprovalKept, EndKept,
                          isCompleted
<1>3. ASSUME NEW w \in Workers, ChangeOfSale(w) \/ ChangeOfDocuments(w)
      PROVE  ApprovalInv' /\ ApprovalKept /\ EndKept /\ SentKept
  <2>1. SentIsReviewed' /\ Stands(op[w])' /\ (sale' = sale \/ create(w))
    BY <1>3, DecidesApproval
  <2>2. \A v \in Workers \ {w} : op'[v] = Idle
    BY <1>3, BeginsAlone, OthersStay DEF Quiet, Free
  <2>3. \A v \in Workers \ {w} : Stands(op[v])'
    BY <2>2 DEF Stands, Idle
  <2>4. ApprovalKept /\ EndKept
    BY <2>1, SaleFields DEF ApprovalKept, EndKept, create, SaleRow
  <2>5. sale.sent => sale'.sent
    BY <2>1, SaleFields DEF create, SaleRow
  <2>6. ApprovalInv'
    BY <1>1, <2>1, <2>3 DEF ApprovalInv
  <2> QED
    BY <1>0, <2>4, <2>5, <2>6
<1>4. ASSUME NEW w \in Workers, Proceed(w) \/ Fault(w)
      PROVE  ApprovalInv' /\ ApprovalKept /\ EndKept /\ SentKept
  <2>1. /\ SentIsReviewed' /\ ApprovalKept /\ EndKept /\ op'[w].at \notin {"writing", "removing"}
        /\ sale.sent => sale'.sent
    BY <1>4, WritesApproval
  <2>2. \A v \in Workers \ {w} : op'[v] = Idle
    BY <1>4, ProceedsAlone, OthersStay DEF ApprovalInv
  <2>3. \A v \in Workers : Stands(op[v])'
    BY <2>1, <2>2 DEF Stands, Idle
  <2>4. ApprovalInv'
    BY <1>1, <2>1, <2>3 DEF ApprovalInv
  <2> QED
    BY <1>0, <2>1, <2>4
<1> QED
  BY <1>2, <1>3, <1>4 DEF Next

LEMMA InitApproval == Init => ApprovalInv
  BY DEF Init, ApprovalInv, Alone, SentIsReviewed, Stands, Idle

\* While operations do not overlap, only the reopening of a concluded sale,
\* cancelled since or not, takes back an approval or an end, and a sale that
\* was sent stays.
THEOREM ApprovalHeld == Spec => ApprovalStands
<1> DEFINE Inv == TypeOK /\ ("overlap" \notin weather => ApprovalInv)
<1>1. Init => Inv
  BY InitTypes, InitApproval
<1>2. Inv /\ [Next]_vars => Inv'
  BY NextTypes, NextApproval, WeatherHolds
<1>3. Inv /\ [Next]_vars => (Without({"overlap"}) => ApprovalKept /\ EndKept /\ SentKept)
  BY NextApproval DEF Without
<1> HIDE DEF Inv
<1>4. Inv /\ [Next]_vars => [Without({"overlap"}) => ApprovalKept /\ EndKept /\ SentKept]_vars
  BY <1>3
<1> QED
  BY <1>1, <1>2, <1>4, PTL DEF Spec, ApprovalStands

(***************************************************************************)
(* No file is left behind                                                  *)
(***************************************************************************)

\* The files on disk besides those that rows refer to are the ones of o, and
\* what o read is still so.
Matches(o) ==
    /\ o.at \in {"writing", "counting", "listing", "marking", "delivering", "deleting", "removing"}
       => files = Referred
    /\ o.at \in {"storing", "replacing"} => files = Referred \cup {o.new}
    /\ o.at = "attaching" => files = Referred \cup ({o.new} \cap Files) /\ Exists /\ attachment = None
    /\ o.at \in {"unlinking", "dropping", "sweeping"} => files = Referred \cup o.old
    /\ o.at = "storing" => Exists /\ rows[o.doc] = None
    /\ o.at \in {"deleting", "replacing"} => rows[o.doc] # None /\ o.old = FileOf(o.doc)
    /\ o.at = "removing" => Exists /\ o.old = Referred

MatchInv ==
    /\ Quiet => files = Referred
    /\ \A w \in Workers : op[w] # Idle => Matches(op[w])

LEMMA InitMatch == Init => MatchInv
  BY DEF Init, MatchInv, Quiet, Free, Referred, Range

\* What is left to show of a step: the operation of its worker.
LEMMA MatchesAlone ==
    ASSUME TypeOK, NEW w \in Workers, \A v \in Workers \ {w} : op'[v] = Idle,
           IF op'[w] = Idle THEN files' = Referred' ELSE Matches(op[w])'
    PROVE  MatchInv'
  BY DEF MatchInv, Quiet, Free, Matches

LEMMA ReferredStays ==
    ASSUME UNCHANGED rows
    PROVE  Referred' = Referred /\ \A d \in Documents : FileOf(d)' = FileOf(d)
  BY DEF Referred, FileOf

\* What rows refer to once one of them is written.
LEMMA ReferredWritten ==
    ASSUME TypeOK, TypeOK', RowsHaveFiles, NEW d \in Documents, NEW x, rows' = [rows EXCEPT ![d] = x]
    PROVE  Referred' = (Referred \ FileOf(d)) \cup ({x} \cap Files)
<1>1. Referred' = {f \in Files : \E e \in Documents : rows'[e] = f}
  BY SaleReviewAssumption DEF TypeOK, Referred, Range
<1>2. rows'[d] = x /\ \A e \in Documents \ {d} : rows'[e] = rows[e]
  BY DEF TypeOK
<1> QED
  BY <1>1, <1>2, ReferredFiles DEF FileOf, RowsHaveFiles

LEMMA BeginsMatch ==
    ASSUME TypeOK, TypeOK', MatchInv, Without(Faults), NEW w \in Workers,
           ChangeOfSale(w) \/ ChangeOfDocuments(w)
    PROVE  MatchInv'
<1>1. Quiet /\ \A v \in Workers \ {w} : op'[v] = Idle
  BY BeginsAlone, OthersStay DEF Without, Faults, Quiet, Free
<1>2. files = Referred
  BY <1>1 DEF MatchInv
<1>3. UNCHANGED rows
  BY DEF ChangeOfSale, ChangeOfDocuments, create, submitForReview, startReview, requestCorrection,
         approveForTask, sendToTask, conclude, reopen, updateStatus, requestDocuments,
         resubmitDocuments, remove, Decide, uploadFile, replaceDocument, deleteDocument,
         receiveAttachment
<1>4. Referred' = Referred /\ \A d \in Documents : FileOf(d)' = FileOf(d)
  BY <1>3, ReferredStays
<1>5. CASE ChangeOfSale(w) /\ ~remove(w)
  <2>1. UNCHANGED files
    BY <1>5 DEF ChangeOfSale, create, submitForReview, startReview, requestCorrection, approveForTask,
                sendToTask, conclude, reopen, updateStatus, requestDocuments, resubmitDocuments, Decide
  <2>2. UNCHANGED op \/ \E c : op' = [op EXCEPT ![w] = [at |-> "writing", change |-> c]]
    BY <1>5 DEF ChangeOfSale, create, submitForReview, startReview, requestCorrection, approveForTask,
                sendToTask, conclude, reopen, updateStatus, requestDocuments, resubmitDocuments,
                Decide, Continue
  <2>3. op'[w] = Idle \/ op'[w].at = "writing"
    BY <1>1, <2>2 DEF TypeOK, Quiet, Free
  <2> QED
    BY <1>1, <1>2, <1>4, <2>1, <2>3, MatchesAlone DEF Matches
<1>6. CASE remove(w)
  <2>1. [at |-> "removing", old |-> Referred] \in Operation
    BY ReferredFiles, OperationBuilt
  <2>2. op'[w] = [at |-> "removing", old |-> Referred]
    BY <1>6, <2>1, Continues DEF remove
  <2>3. UNCHANGED files /\ Exists'
    BY <1>6 DEF remove, Exists
  <2> QED
    BY <1>1, <1>2, <1>4, <2>2, <2>3, MatchesAlone DEF Matches, Idle
<1>7. ASSUME NEW d \in Documents, NEW f \in Files, uploadFile(w, d, f)
      PROVE  MatchInv'
  <2>1. op'[w] = [at |-> "storing", doc |-> d, new |-> f]
    BY <1>7, OperationBuilt, Continues DEF uploadFile
  <2>2. files' = files \cup {f} /\ Exists' /\ rows'[d] = None
    BY <1>7 DEF uploadFile, Exists, FreshRow
  <2> QED
    BY <1>1, <1>2, <1>4, <2>1, <2>2, MatchesAlone DEF Matches, Idle
<1>8. ASSUME NEW d \in Documents, NEW f \in Files, replaceDocument(w, d, f)
      PROVE  MatchInv'
  <2>1. FileOf(d) \in SUBSET Files
    BY DEF FileOf
  <2>2. op'[w] = [at |-> "replacing", doc |-> d, new |-> f, old |-> FileOf(d)]
    BY <1>8, <2>1, OperationBuilt, Continues DEF replaceDocument
  <2>3. files' = files \cup {f} /\ rows'[d] # None
    BY <1>8 DEF replaceDocument
  <2> QED
    BY <1>1, <1>2, <1>4, <2>2, <2>3, MatchesAlone DEF Matches, Idle
<1>9. ASSUME NEW d \in Documents, deleteDocument(w, d)
      PROVE  MatchInv'
  <2>1. FileOf(d) \in SUBSET Files
    BY DEF FileOf
  <2>2. op'[w] = [at |-> "deleting", doc |-> d, old |-> FileOf(d)]
    BY <1>9, <2>1, OperationBuilt, Continues DEF deleteDocument
  <2>3. UNCHANGED files /\ rows'[d] # None
    BY <1>9 DEF deleteDocument
  <2> QED
    BY <1>1, <1>2, <1>4, <2>2, <2>3, MatchesAlone DEF Matches, Idle
<1>10. CASE receiveAttachment(w)
  <2>1. PICK x \in Files \cup {"remote"} :
            /\ Continue(w, [at |-> "attaching", new |-> x])
            /\ files' = files \cup ({x} \cap Files)
    <3>1. ASSUME NEW f \in Files, files' = files \cup {f}, Continue(w, [at |-> "attaching", new |-> f])
          PROVE  files' = files \cup ({f} \cap Files)
      BY <3>1
    <3>2. CASE Continue(w, [at |-> "attaching", new |-> "remote"]) /\ UNCHANGED files
      <4>1. files' = files \cup ({"remote"} \cap Files)
        BY <3>2, SaleReviewAssumption
      <4> QED
        BY <3>2, <4>1
    <3>3. \/ Continue(w, [at |-> "attaching", new |-> "remote"]) /\ UNCHANGED files
          \/ \E f \in Files : files' = files \cup {f} /\ Continue(w, [at |-> "attaching", new |-> f])
      BY <1>10 DEF receiveAttachment
    <3> QED
      BY <3>1, <3>2, <3>3
  <2>2. op'[w] = [at |-> "attaching", new |-> x]
    BY <2>1, OperationBuilt, Continues
  <2>3. Exists' /\ attachment' = None
    BY <1>10 DEF receiveAttachment, Exists, Without, Faults
  <2> QED
    BY <1>1, <1>2, <1>4, <2>1, <2>2, <2>3, MatchesAlone DEF Matches, Idle
<1> QED
  BY <1>5, <1>6, <1>7, <1>8, <1>9, <1>10 DEF ChangeOfDocuments

LEMMA ProceedsMatch ==
    ASSUME TypeOK, TypeOK', FilesInv, Alone, MatchInv, NEW w \in Workers, Proceed(w)
    PROVE  MatchInv'
<1>1. op[w] # Idle /\ (\A v \in Workers \ {w} : op'[v] = Idle) /\ Matches(op[w]) /\ op[w] \in Operation
  BY ProceedsAlone, OthersStay DEF MatchInv, TypeOK
<1>2. ASSUME files' = Referred', op'[w].at \in {"idle", "counting", "listing", "marking", "delivering"}
      PROVE  MatchInv'
  BY <1>1, <1>2, MatchesAlone DEF Matches
<1>3. ASSUME files' = Referred' \cup op'[w].old, op'[w].at \in {"unlinking", "dropping", "sweeping"}
      PROVE  MatchInv'
  BY <1>1, <1>3, MatchesAlone DEF Matches, Idle
<1>4. ASSUME NEW o, Continue(w, o)
      PROVE  op'[w] = o
  BY <1>4 DEF Continue, TypeOK
<1>5. CASE Write(w) \/ WriteList(w) \/ Deliver(w) \/ ReadList(w) \/ CountRemaining(w)
  <2>1. files = Referred /\ UNCHANGED <<files, rows>>
    BY <1>1, <1>5 DEF Write, WriteList, Deliver, ReadList, CountRemaining, At, Matches
  <2>2. op'[w].at \in {"idle", "listing", "marking"}
    BY <1>4, <1>5 DEF Write, WriteList, Deliver, ReadList, CountRemaining, Done, Idle
  <2> QED
    BY <1>2, <2>1, <2>2, ReferredStays
<1>6. CASE StoreRow(w)
  <2>1. op[w].doc \in Documents /\ op[w].new \in Files
    BY <1>1, <1>6, OperationFields DEF StoreRow, At, WithDoc, WithFile
  <2>2. Exists /\ rows[op[w].doc] = None /\ files = Referred \cup {op[w].new}
    BY <1>1, <1>6 DEF StoreRow, At, Matches
  <2>3. rows' = [rows EXCEPT ![op[w].doc] = op[w].new] /\ UNCHANGED files
    BY <1>6, <2>2 DEF StoreRow
  <2>4. FileOf(op[w].doc) = {}
    BY <2>2, SaleReviewAssumption DEF FileOf
  <2>5. Referred' = (Referred \ FileOf(op[w].doc)) \cup ({op[w].new} \cap Files)
    BY <2>1, <2>3, ReferredWritten DEF FilesInv
  <2>6. op'[w].at = "listing"
    BY <1>4, <1>6, <2>2 DEF StoreRow
  <2> QED
    BY <1>2, <2>1, <2>2, <2>3, <2>4, <2>5, <2>6
<1>7. CASE DeleteRow(w)
  <2>1. op[w].doc \in Documents
    BY <1>1, <1>7, OperationFields DEF DeleteRow, At, WithDoc
  <2>2. rows[op[w].doc] # None /\ op[w].old = FileOf(op[w].doc) /\ files = Referred
    BY <1>1, <1>7 DEF DeleteRow, At, Matches
  <2>3. /\ Continue(w, [op[w] EXCEPT !.at = "unlinking"])
        /\ rows' = [rows EXCEPT ![op[w].doc] = None] /\ UNCHANGED files
    BY <1>7, <2>2 DEF DeleteRow
  <2>4. Referred' = (Referred \ FileOf(op[w].doc)) \cup ({None} \cap Files)
    BY <2>1, <2>3, ReferredWritten DEF FilesInv
  <2>5. op[w].old \subseteq Referred
    BY <2>1, <2>2, ReferredFiles DEF FileOf
  <2>6. op'[w] = [at |-> "unlinking", doc |-> op[w].doc, old |-> op[w].old]
    BY <1>1, <1>4, <1>7, <2>3, OperationGoesOn DEF DeleteRow, At
  <2>7. files' = Referred' \cup op[w].old
    BY <2>2, <2>3, <2>4, <2>5, SaleReviewAssumption
  <2> QED
    BY <1>3, <2>6, <2>7
<1>8. CASE RemoveStoredFile(w) \/ DropPrevious(w) \/ removeStoredFiles(w)
  <2>1. files = Referred \cup op[w].old /\ files' = files \ op[w].old /\ UNCHANGED rows
    BY <1>1, <1>8 DEF RemoveStoredFile, DropPrevious, removeStoredFiles, At, Matches
  <2>2. \A d \in Documents : rows[d] \notin op[w].old
    BY <1>8 DEF RemoveStoredFile, DropPrevious, removeStoredFiles, At, FilesInv, OldFilesAreOwn, AfterRow
  <2>3. \A f \in Referred : f \notin op[w].old
    BY <2>2, ReferredFiles
  <2>4. files' = Referred /\ Referred' = Referred
    BY <2>1, <2>3, ReferredStays
  <2>5. op'[w].at \in {"idle", "counting", "delivering"}
    BY <1>4, <1>8 DEF RemoveStoredFile, DropPrevious, removeStoredFiles, Done, Idle
  <2> QED
    BY <1>2, <2>4, <2>5
<1>9. CASE UpdateRow(w)
  <2>1. op[w].doc \in Documents /\ op[w].new \in Files
    BY <1>1, <1>9, OperationFields DEF UpdateRow, At, WithDoc, WithFile
  <2>2. rows[op[w].doc] # None /\ op[w].old = FileOf(op[w].doc) /\ files = Referred \cup {op[w].new}
    BY <1>1, <1>9 DEF UpdateRow, At, Matches
  <2>3. /\ Continue(w, [op[w] EXCEPT !.at = "dropping"])
        /\ rows' = [rows EXCEPT ![op[w].doc] = op[w].new] /\ UNCHANGED files
    BY <1>9, <2>2 DEF UpdateRow
  <2>4. Referred' = (Referred \ FileOf(op[w].doc)) \cup ({op[w].new} \cap Files)
    BY <2>1, <2>3, ReferredWritten DEF FilesInv
  <2>5. op[w].old \subseteq Referred
    BY <2>1, <2>2, ReferredFiles DEF FileOf
  <2>6. op'[w] = [at |-> "dropping", doc |-> op[w].doc, new |-> op[w].new, old |-> op[w].old]
    BY <1>1, <1>4, <1>9, <2>3, OperationGoesOn DEF UpdateRow, At
  <2>7. files' = Referred' \cup op[w].old
    BY <2>1, <2>2, <2>3, <2>4, <2>5
  <2> QED
    BY <1>3, <2>6, <2>7
<1>10. CASE Attach(w)
  <2>1. files = Referred \cup ({op[w].new} \cap Files) /\ Exists /\ attachment = None
    BY <1>1, <1>10 DEF Attach, At, Matches
  <2>2. PICK d \in Documents : rows[d] = None /\ rows' = [rows EXCEPT ![d] = op[w].new]
    BY <1>10, <2>1 DEF Attach, FreshRow
  <2>3. FileOf(d) = {}
    BY <2>2, SaleReviewAssumption DEF FileOf
  <2>4. Referred' = Referred \cup ({op[w].new} \cap Files)
    BY <2>2, <2>3, ReferredWritten DEF FilesInv
  <2>5. op'[w].at = "idle" /\ UNCHANGED files
    BY <1>4, <1>10 DEF Attach, Done, Idle
  <2> QED
    BY <1>2, <2>1, <2>4, <2>5
<1>11. CASE DeleteSale(w)
  <2>1. files = Referred /\ Exists /\ op[w].old = Referred
    BY <1>1, <1>11 DEF DeleteSale, At, Matches
  <2>2. /\ Continue(w, [op[w] EXCEPT !.at = "sweeping"])
        /\ rows' = [d \in Documents |-> None] /\ UNCHANGED files
    BY <1>11, <2>1 DEF DeleteSale
  <2>3. Referred' = {}
    BY <2>2 DEF Referred, Range
  <2>4. op'[w] = [at |-> "sweeping", old |-> op[w].old]
    BY <1>1, <1>4, <1>11, <2>2, OperationGoesOn DEF DeleteSale, At
  <2> QED
    BY <1>3, <2>1, <2>2, <2>3, <2>4
<1> QED
  BY <1>5, <1>6, <1>7, <1>8, <1>9, <1>10, <1>11 DEF Proceed

LEMMA NextMatch ==
    ASSUME TypeOK, FilesInv, Alone, MatchInv, Without(Faults), [Next]_vars
    PROVE  MatchInv'
<1>1. CASE UNCHANGED vars
  BY <1>1 DEF vars, MatchInv, Matches, Quiet, Free, Referred, FileOf, Exists
<1>2. TypeOK'
  BY NextTypes
<1> QED
  BY <1>1, <1>2, BeginsMatch, ProceedsMatch
  DEF Next, Fault, Crash, QueryFails, ReplaceFails, Without, Faults

\* Without faults and overlap, when nothing is under way the files on disk
\* are those that rows refer to.
THEOREM NothingOrphaned == Spec => []NoOrphanFile
<1> DEFINE Inv == TypeOK /\ (Without(Faults) => FilesInv /\ Alone /\ MatchInv)
<1>1. Init => Inv
  BY InitTypes, InitFiles, InitApproval, InitMatch DEF ApprovalInv
<1>2. Inv /\ [Next]_vars => Inv'
  <2> SUFFICES ASSUME Inv, [Next]_vars PROVE Inv'
    OBVIOUS
  <2>1. TypeOK' /\ weather' = weather
    BY NextTypes, WeatherHolds
  <2>2. Without(Faults) => FilesInv' /\ Alone' /\ MatchInv'
    BY NextFiles, NextAlone, NextMatch DEF Without, Faults
  <2> QED
    BY <2>1, <2>2 DEF Without
<1>3. Inv => NoOrphanFile
  BY DEF NoOrphanFile, MatchInv
<1> HIDE DEF Inv
<1> QED
  BY <1>1, <1>2, <1>3, PTL DEF Spec

(***************************************************************************)
(* Required documents                                                      *)
(***************************************************************************)

FulfilledIn(list) == {t \in Types : list[t] = "fulfilled"}

Fulfilled == FulfilledIn(sale.required)

\* What counts as fulfilled was uploaded, but for what o is about to write.
Covered(o) ==
    /\ o.at \notin {"unlinking", "counting", "listing", "marking"} => Fulfilled \subseteq Uploaded
    /\ o.at = "unlinking" => Fulfilled \subseteq Uploaded \cup {TypeOf[o.doc]}
    /\ o.at \in {"counting", "listing"} => Fulfilled \subseteq Uploaded \cup {o.type}
    /\ o.at = "listing" => (o.mark = "fulfilled" => o.type \in Uploaded)
    /\ o.at = "marking" => FulfilledIn(o.required) \subseteq Uploaded
    /\ (o.at = "writing" /\ "required" \in DOMAIN o.change) => FulfilledIn(o.change["required"]) = {}

FulfilledInv ==
    /\ sale.review = "ABSENT" => Fulfilled = {}
    /\ Exists /\ Quiet => Fulfilled \subseteq Uploaded
    /\ \A w \in Workers : Exists /\ op[w] # Idle => Covered(op[w])

LEMMA InitFulfilled == Init => FulfilledInv
  BY DEF Init, FulfilledInv, Fulfilled, FulfilledIn, Exists, NoSale

\* What is left to show of a step: the operation of its worker.
LEMMA CoversAlone ==
    ASSUME TypeOK, NEW w \in Workers, \A v \in Workers \ {w} : op'[v] = Idle,
           sale'.review = "ABSENT" => Fulfilled' = {}, Exists' => Covered(op[w])'
    PROVE  FulfilledInv'
  BY DEF FulfilledInv, Covered, Quiet, Free, Idle

\* What is uploaded once a row is written.
LEMMA UploadedWritten ==
    ASSUME TypeOK, NEW d \in Documents, NEW x, rows' = [rows EXCEPT ![d] = x]
    PROVE  /\ Uploaded \ {TypeOf[d]} \subseteq Uploaded'
           /\ x # None => Uploaded \cup {TypeOf[d]} \subseteq Uploaded'
<1>1. rows'[d] = x /\ \A e \in Documents \ {d} : rows'[e] = rows[e]
  BY DEF TypeOK
<1> QED
  BY <1>1 DEF Uploaded

LEMMA SameUploaded == UNCHANGED rows => Uploaded' = Uploaded
  BY DEF Uploaded

LEMMA BeginsCovered ==
    ASSUME TypeOK, FulfilledInv, "overlap" \notin weather, NEW w \in Workers,
           ChangeOfSale(w) \/ ChangeOfDocuments(w)
    PROVE  FulfilledInv'
<1>1. Quiet /\ \A v \in Workers \ {w} : op'[v] = Idle
  BY BeginsAlone, OthersStay DEF Quiet, Free
<1>2. UNCHANGED rows /\ Uploaded' = Uploaded
  BY SameUploaded
  DEF ChangeOfSale, ChangeOfDocuments, create, submitForReview, startReview, requestCorrection,
      approveForTask, sendToTask, conclude, reopen, updateStatus, requestDocuments,
      resubmitDocuments, remove, Decide, uploadFile, replaceDocument, deleteDocument,
      receiveAttachment
<1>3. CASE create(w)
  <2>1. sale'.review = "DRAFT" /\ sale'.required = sale.required /\ sale.review = "ABSENT"
    BY <1>3, SaleFields DEF create, SaleRow
  <2>2. op'[w] = Idle \/ op'[w] = [at |-> "writing", change |-> [review |-> "AWAITING_REVIEW"]]
    BY <1>3 DEF create, Ready, Free, Continue, TypeOK
  <2>3. "required" \notin DOMAIN [review |-> "AWAITING_REVIEW"]
    OBVIOUS
  <2>4. Fulfilled' = {}
    BY <2>1 DEF FulfilledInv, Fulfilled
  <2>5. Covered(op[w])'
    BY <2>2, <2>3, <2>4 DEF Covered, Idle
  <2> QED
    BY <1>1, <2>1, <2>5, CoversAlone
<1>4. CASE ~create(w)
  <2>1. UNCHANGED sale
    BY <1>4 DEF ChangeOfSale, ChangeOfDocuments, submitForReview, startReview, requestCorrection,
                approveForTask, sendToTask, conclude, reopen, updateStatus, requestDocuments,
                resubmitDocuments, remove, Decide, uploadFile, replaceDocument, deleteDocument,
                receiveAttachment
  <2>2. Fulfilled' = Fulfilled /\ (Exists' => Fulfilled \subseteq Uploaded)
    BY <1>1, <2>1 DEF Fulfilled, FulfilledInv, Exists
  <2>3. \/ op'[w].at \in {"storing", "deleting", "replacing", "attaching", "removing"}
        \/ \E c : /\ op'[w] = [at |-> "writing", change |-> c]
                  /\ "required" \in DOMAIN c => FulfilledIn(c["required"]) = {}
    <3>1. ASSUME NEW o, Continue(w, o)
          PROVE  op'[w] = o
      BY <3>1 DEF Continue, TypeOK
    <3>2. CASE ChangeOfDocuments(w) \/ remove(w)
      <4>1. ASSUME NEW d, NEW f, uploadFile(w, d, f)
            PROVE  op'[w].at = "storing"
        BY <3>1, <4>1 DEF uploadFile
      <4>2. ASSUME NEW d, NEW f, replaceDocument(w, d, f)
            PROVE  op'[w].at = "replacing"
        BY <3>1, <4>2 DEF replaceDocument
      <4>3. ASSUME NEW d, deleteDocument(w, d)
            PROVE  op'[w].at = "deleting"
        BY <3>1, <4>3 DEF deleteDocument
      <4>4. CASE receiveAttachment(w)
        <5>1. \E f : op'[w] = [at |-> "attaching", new |-> f]
          BY <3>1, <4>4 DEF receiveAttachment
        <5> QED
          BY <5>1
      <4>5. CASE remove(w)
        <5>1. op'[w] = [at |-> "removing", old |-> Referred]
          BY <3>1, <4>5 DEF remove
        <5> QED
          BY <5>1
      <4> QED
        BY <3>2, <4>1, <4>2, <4>3, <4>4, <4>5 DEF ChangeOfDocuments
    <3>3. ASSUME NEW types \in SUBSET Types, requestDocuments(w, types)
          PROVE  \E c : /\ op'[w] = [at |-> "writing", change |-> c]
                        /\ "required" \in DOMAIN c => FulfilledIn(c["required"]) = {}
      <4> DEFINE c == [status |-> "DOCUMENTS_PENDING", required |-> Requested(types)]
      <4>1. op'[w] = [at |-> "writing", change |-> c]
        BY <3>1, <3>3 DEF requestDocuments, Decide
      <4>2. FulfilledIn(c["required"]) = {}
        BY DEF FulfilledIn, Requested
      <4> HIDE DEF c
      <4> QED
        BY <4>1, <4>2
    <3>4. CASE submitForReview(w) \/ startReview(w) \/ requestCorrection(w)
      <4>1. PICK status : op'[w] = [at |-> "writing", change |-> [review |-> status]]
        BY <3>1, <3>4 DEF submitForReview, startReview, requestCorrection, Decide
      <4>2. "required" \notin DOMAIN [review |-> status]
        OBVIOUS
      <4> QED
        BY <4>1, <4>2
    <3>5. CASE approveForTask(w) \/ sendToTask(w)
      <4> DEFINE c == [review |-> "APPROVED", sent |-> TRUE, completed |-> FALSE]
      <4>1. op'[w] = [at |-> "writing", change |-> c]
        BY <3>1, <3>5 DEF approveForTask, sendToTask, Decide
      <4>2. "required" \notin DOMAIN c
        OBVIOUS
      <4> HIDE DEF c
      <4> QED
        BY <4>1, <4>2
    <3>6. CASE conclude(w) \/ reopen(w)
      <4>1. PICK review, status, completed :
                op'[w] = [at |-> "writing", change |->
                          [review |-> review, status |-> status, completed |-> completed]]
        BY <3>1, <3>6 DEF conclude, reopen, Decide
      <4>2. "required" \notin DOMAIN [review |-> review, status |-> status, completed |-> completed]
        OBVIOUS
      <4> QED
        BY <4>1, <4>2
    <3>7. CASE resubmitDocuments(w) \/ \E status \in SaleStatus : updateStatus(w, status)
      <4>1. PICK status : op'[w] = [at |-> "writing", change |-> [status |-> status]]
        BY <3>1, <3>7 DEF resubmitDocuments, updateStatus, Decide
      <4>2. "required" \notin DOMAIN [status |-> status]
        OBVIOUS
      <4> QED
        BY <4>1, <4>2
    <3> QED
      BY <1>4, <3>2, <3>3, <3>4, <3>5, <3>6, <3>7 DEF ChangeOfSale
  <2>4. Exists' => Covered(op[w])'
    <3>1. CASE op'[w].at \in {"storing", "deleting", "replacing", "attaching", "removing"}
      BY <1>2, <2>2, <3>1 DEF Covered
    <3>2. ASSUME NEW c, op'[w] = [at |-> "writing", change |-> c],
                 "required" \in DOMAIN c => FulfilledIn(c["required"]) = {}
          PROVE  Exists' => Covered(op[w])'
      <4>1. op'[w].at = "writing" /\ op'[w].change = c
        BY <3>2
      <4> QED
        BY <1>2, <2>2, <3>2, <4>1 DEF Covered
    <3> QED
      BY <2>3, <3>1, <3>2
  <2> QED
    BY <1>1, <2>1, <2>2, <2>4, CoversAlone DEF FulfilledInv
<1> QED
  BY <1>3, <1>4

LEMMA ProceedsCovered ==
    ASSUME TypeOK, Alone, FulfilledInv, NEW w \in Workers, Proceed(w)
    PROVE  FulfilledInv'
<1>1. op[w] # Idle /\ (\A v \in Workers \ {w} : op'[v] = Idle) /\ op[w] \in Operation
  BY ProceedsAlone, OthersStay DEF TypeOK
<1>2. Exists => Covered(op[w])
  BY <1>1 DEF FulfilledInv
<1>3. ASSUME NEW o, Continue(w, o)
      PROVE  op'[w] = o
  BY <1>3 DEF Continue, TypeOK
<1>4. ASSUME UNCHANGED sale
      PROVE  /\ Fulfilled' = Fulfilled /\ (sale'.review = "ABSENT" => Fulfilled' = {})
             /\ Exists' <=> Exists
  BY <1>4 DEF Fulfilled, FulfilledInv, Exists
<1>5. UNCHANGED rows => Uploaded' = Uploaded
  BY SameUploaded
<1>6. CASE Write(w)
  <2>1. op'[w] = Idle /\ UNCHANGED rows
    BY <1>3, <1>6 DEF Write, Done
  <2>2. CASE ~Exists
    BY <1>1, <1>4, <1>6, <2>2, CoversAlone DEF Write
  <2>3. CASE Exists
    <3> DEFINE c == op[w].change
    <3>1. c \in Change /\ sale' = Written(c)
      BY <1>1, <1>6, <2>3, OperationFields DEF Write, At
    <3>2. /\ sale'.required = IF "required" \in DOMAIN c THEN c["required"] ELSE sale.required
          /\ sale'.review = IF "review" \in DOMAIN c THEN c["review"] ELSE sale.review
      BY <3>1, SaleFields, WrittenFields
    <3>3. "review" \in DOMAIN c => c["review"] \in ReviewStatus
      BY <3>1, ChangeFields
    <3>4. sale'.review # "ABSENT"
      BY <2>3, <3>2, <3>3 DEF Exists, NoSale, ReviewStatus
    <3>5. Fulfilled \subseteq Uploaded /\ ("required" \in DOMAIN c => FulfilledIn(c["required"]) = {})
      BY <1>2, <1>6, <2>3 DEF Write, At, Covered
    <3> HIDE DEF c
    <3>6. Fulfilled' \subseteq Uploaded'
      BY <1>5, <2>1, <3>2, <3>5 DEF Fulfilled
    <3>7. Covered(op[w])'
      BY <2>1, <3>6 DEF Covered, Idle
    <3> QED
      BY <1>1, <3>4, <3>7, CoversAlone
  <2> QED
    BY <2>2, <2>3
<1>7. CASE StoreRow(w)
  <2>1. op[w].doc \in Documents /\ op[w].new # None /\ op[w].new \in Files
    BY <1>1, <1>7, OperationFields, SaleReviewAssumption DEF StoreRow, At, WithDoc, WithFile
  <2>2. UNCHANGED sale
    BY <1>7 DEF StoreRow
  <2>3. CASE Exists
    <3>1. rows' = [rows EXCEPT ![op[w].doc] = op[w].new]
      BY <1>7, <2>3 DEF StoreRow
    <3>2. Fulfilled \subseteq Uploaded
      BY <1>2, <1>7, <2>3 DEF StoreRow, At, Covered
    <3>3. Fulfilled \subseteq Uploaded' /\ TypeOf[op[w].doc] \in Uploaded'
      <4>1. PICK d \in Documents, f \in Files :
                 d = op[w].doc /\ f # None /\ rows' = [rows EXCEPT ![d] = f]
        BY <2>1, <3>1
      <4>2. Uploaded \ {TypeOf[d]} \subseteq Uploaded' /\ Uploaded \cup {TypeOf[d]} \subseteq Uploaded'
        BY <4>1, UploadedWritten
      <4> QED
        BY <3>2, <4>1, <4>2
    <3>4. op'[w] = [at |-> "listing", type |-> TypeOf[op[w].doc], mark |-> "fulfilled"]
      BY <1>3, <1>7, <2>3 DEF StoreRow
    <3>5. Covered(op[w])'
      BY <1>4, <2>2, <3>3, <3>4 DEF Covered
    <3> QED
      BY <1>1, <1>4, <2>2, <3>5, CoversAlone
  <2> QED
    BY <1>1, <1>4, <2>2, <2>3, CoversAlone
<1>8. CASE ReadList(w)
  <2>1. op[w].type \in Types /\ UNCHANGED <<sale, rows>>
    BY <1>1, <1>8, OperationFields DEF ReadList, At
  <2>2. CASE Exists
    <3> DEFINE list == [sale.required EXCEPT ![op[w].type] = IF @ = "unlisted" THEN @ ELSE op[w].mark]
    <3>1. op'[w] = [at |-> "marking", required |-> list]
      BY <1>3, <1>8, <2>2 DEF ReadList
    <3>2. /\ Fulfilled \subseteq Uploaded \cup {op[w].type}
          /\ op[w].mark = "fulfilled" => op[w].type \in Uploaded
      BY <1>2, <1>8, <2>2 DEF ReadList, At, Covered
    <3>3. sale.required \in Lists
      BY DEF TypeOK
    <3>4. FulfilledIn(list) \subseteq Uploaded
      BY <2>1, <3>2, <3>3 DEF FulfilledIn, Fulfilled, Lists
    <3> HIDE DEF list
    <3>5. Covered(op[w])'
      BY <1>5, <2>1, <3>1, <3>4 DEF Covered
    <3> QED
      BY <1>1, <1>4, <2>1, <3>5, CoversAlone
  <2> QED
    BY <1>1, <1>4, <2>1, <2>2, CoversAlone
<1>9. CASE WriteList(w)
  <2>1. op'[w] = Idle /\ UNCHANGED rows
    BY <1>3, <1>9 DEF WriteList, Done
  <2>2. CASE ~Exists
    BY <1>1, <1>4, <1>9, <2>2, CoversAlone DEF WriteList
  <2>3. CASE Exists
    <3>1. sale'.required = op[w].required /\ sale'.review = sale.review
      BY <1>9, <2>3, SaleFields DEF WriteList, SaleRow
    <3>2. FulfilledIn(op[w].required) \subseteq Uploaded
      BY <1>2, <1>9, <2>3 DEF WriteList, At, Covered
    <3>3. Covered(op[w])'
      BY <1>5, <2>1, <3>1, <3>2 DEF Covered, Fulfilled, Idle
    <3> QED
      BY <1>1, <2>3, <3>1, <3>3, CoversAlone DEF Exists, NoSale
  <2> QED
    BY <2>2, <2>3
<1>10. CASE DeleteRow(w)
  <2>1. op[w].doc \in Documents /\ UNCHANGED sale
    BY <1>1, <1>10, OperationFields DEF DeleteRow, At, WithDoc
  <2>2. Exists => Fulfilled \subseteq Uploaded
    BY <1>2, <1>10 DEF DeleteRow, At, Covered
  <2>3. CASE rows[op[w].doc] # None
    <3>1. Continue(w, [op[w] EXCEPT !.at = "unlinking"]) /\ rows' = [rows EXCEPT ![op[w].doc] = None]
      BY <1>10, <2>3 DEF DeleteRow
    <3>2. op'[w] = [at |-> "unlinking", doc |-> op[w].doc, old |-> op[w].old]
      BY <1>1, <1>3, <1>10, <3>1, OperationGoesOn DEF DeleteRow, At
    <3>3. Uploaded \subseteq Uploaded' \cup {TypeOf[op[w].doc]}
      BY <2>1, <3>1, UploadedWritten
    <3>4. Exists' => Covered(op[w])'
      BY <1>4, <2>1, <2>2, <3>2, <3>3 DEF Covered
    <3> QED
      BY <1>1, <1>4, <2>1, <3>4, CoversAlone
  <2>4. CASE rows[op[w].doc] = None
    <3>1. op'[w] = Idle /\ UNCHANGED rows
      BY <1>3, <1>10, <2>4 DEF DeleteRow, Done
    <3>2. Exists' => Covered(op[w])'
      BY <1>4, <1>5, <2>1, <2>2, <3>1 DEF Covered, Idle
    <3> QED
      BY <1>1, <1>4, <2>1, <3>2, CoversAlone
  <2> QED
    BY <2>3, <2>4
<1>11. CASE RemoveStoredFile(w)
  <2>1. op'[w] = [at |-> "counting", type |-> TypeOf[op[w].doc]] /\ UNCHANGED <<sale, rows>>
    BY <1>3, <1>11 DEF RemoveStoredFile
  <2>2. Exists => Fulfilled \subseteq Uploaded \cup {TypeOf[op[w].doc]}
    BY <1>2, <1>11 DEF RemoveStoredFile, At, Covered
  <2>3. Exists' => Covered(op[w])'
    BY <1>4, <1>5, <2>1, <2>2 DEF Covered
  <2> QED
    BY <1>1, <1>4, <2>1, <2>3, CoversAlone
<1>12. CASE CountRemaining(w)
  <2>1. UNCHANGED <<sale, rows>> /\ (Exists => Fulfilled \subseteq Uploaded \cup {op[w].type})
    BY <1>2, <1>12 DEF CountRemaining, At, Covered
  <2>2. IF op[w].type \in Uploaded
        THEN op'[w] = Idle
        ELSE op'[w] = [at |-> "listing", type |-> op[w].type, mark |-> "pending"]
    BY <1>3, <1>12 DEF CountRemaining, Done
  <2>3. Exists' => Covered(op[w])'
    BY <1>4, <1>5, <2>1, <2>2 DEF Covered, Idle
  <2> QED
    BY <1>1, <1>4, <2>1, <2>3, CoversAlone
<1>13. CASE UpdateRow(w) \/ Attach(w)
  <2>1. UNCHANGED sale /\ (Exists => Fulfilled \subseteq Uploaded)
    BY <1>2, <1>13 DEF UpdateRow, Attach, At, Covered
  <2>2. op[w].new # None
    BY <1>1, <1>13, OperationFields, SaleReviewAssumption DEF UpdateRow, Attach, At, WithFile
  <2>3. UNCHANGED rows \/ \E d \in Documents : rows' = [rows EXCEPT ![d] = op[w].new]
    BY <1>1, <1>13, OperationFields DEF UpdateRow, Attach, At, WithDoc, TypeOK
  <2>4. Uploaded \subseteq Uploaded'
    BY <1>5, <2>2, <2>3, UploadedWritten
  <2>5. op'[w].at \in {"idle", "dropping"}
    <3>1. op'[w] = Idle \/ (At(w, "replacing") /\ op'[w] = [op[w] EXCEPT !.at = "dropping"])
      BY <1>3, <1>13 DEF UpdateRow, Attach, Done
    <3>2. CASE op'[w] = Idle
      BY <3>2 DEF Idle
    <3>3. CASE At(w, "replacing") /\ op'[w] = [op[w] EXCEPT !.at = "dropping"]
      <4>1. op'[w] = [at |-> "dropping", doc |-> op[w].doc, new |-> op[w].new, old |-> op[w].old]
        BY <1>1, <3>3, OperationGoesOn DEF At
      <4> QED
        BY <4>1
    <3> QED
      BY <3>1, <3>2, <3>3
  <2>6. Exists' => Covered(op[w])'
    BY <1>4, <2>1, <2>4, <2>5 DEF Covered
  <2> QED
    BY <1>1, <1>4, <2>1, <2>6, CoversAlone
<1>14. CASE DropPrevious(w) \/ Deliver(w) \/ removeStoredFiles(w)
  <2>1. UNCHANGED <<sale, rows>> /\ (Exists => Fulfilled \subseteq Uploaded)
    BY <1>2, <1>14 DEF DropPrevious, Deliver, removeStoredFiles, At, Covered
  <2>2. op'[w].at \in {"idle", "delivering"}
    BY <1>3, <1>14 DEF DropPrevious, Deliver, removeStoredFiles, Done, Idle
  <2>3. Exists' => Covered(op[w])'
    BY <1>4, <1>5, <2>1, <2>2 DEF Covered
  <2> QED
    BY <1>1, <1>4, <2>1, <2>3, CoversAlone
<1>15. CASE DeleteSale(w)
  <2>1. CASE Exists
    <3>1. sale'.review = "REMOVED"
      BY <1>15, <2>1, SaleFields DEF DeleteSale, SaleRow
    <3> QED
      BY <1>1, <3>1, CoversAlone DEF Exists, NoSale
  <2>2. CASE ~Exists
    BY <1>1, <1>4, <1>15, <2>2, CoversAlone DEF DeleteSale
  <2> QED
    BY <2>1, <2>2
<1> QED
  BY <1>6, <1>7, <1>8, <1>9, <1>10, <1>11, <1>12, <1>13, <1>14, <1>15 DEF Proceed

LEMMA NextFulfilled ==
    ASSUME TypeOK, Alone, FulfilledInv, Without({"overlap", "crash", "failure"}), [Next]_vars
    PROVE  FulfilledInv'
<1>1. CASE UNCHANGED vars
  BY <1>1 DEF vars, FulfilledInv, Fulfilled, Uploaded, Covered, Exists, Quiet, Free
<1> QED
  BY <1>1, BeginsCovered, ProceedsCovered
  DEF Next, Fault, Crash, QueryFails, ReplaceFails, Without

\* While operations do not overlap and none is cut short, a document that
\* counts as fulfilled was uploaded and not deleted since.
THEOREM FulfilledIsUploaded == Spec => []FulfilledHasDocument
<1> DEFINE Inv == TypeOK /\ (Without({"overlap", "crash", "failure"}) => Alone /\ FulfilledInv)
<1>1. Init => Inv
  BY InitTypes, InitApproval, InitFulfilled DEF ApprovalInv
<1>2. Inv /\ [Next]_vars => Inv'
  <2> SUFFICES ASSUME Inv, [Next]_vars PROVE Inv'
    OBVIOUS
  <2>1. TypeOK' /\ weather' = weather
    BY NextTypes, WeatherHolds
  <2>2. Without({"overlap", "crash", "failure"}) => Alone' /\ FulfilledInv'
    BY NextAlone, NextFulfilled DEF Without
  <2> QED
    BY <2>1, <2>2 DEF Without
<1>3. Inv => FulfilledHasDocument
  BY DEF FulfilledHasDocument, FulfilledInv, Fulfilled, FulfilledIn
<1> HIDE DEF Inv
<1> QED
  BY <1>1, <1>2, <1>3, PTL DEF Spec

=============================================================================
