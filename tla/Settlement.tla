----------------------------- MODULE Settlement -----------------------------
(***************************************************************************)
(* How a sale ends and what it pays.  The status and contract stage of a   *)
(* sale, its commission and its outbox event are rows of one database that *)
(* several requests, callbacks of Luxus Task and timers of every API       *)
(* replica read and write concurrently.  Each worker runs one operation at *)
(* a time; an operation that awaits the database between a read and a      *)
(* write is split there, and what it read travels in its record.           *)
(*                                                                         *)
(* A transaction is one step from its last read to its commit: it is open  *)
(* (and may be overtaken, the isolation level is READ COMMITTED) only      *)
(* between the read of the commission and the writes.                      *)
(***************************************************************************)
EXTENDS Naturals

CONSTANTS
    Sales,          \* sales under way or about to be imported
    Rows,           \* the sales among them that a spreadsheet import creates
    Workers,        \* concurrent requests, callbacks and timer ticks
    Targets,        \* statuses an administrator asks updateStatus for
    Overlap,        \* whether operations on one sale may overlap
    MaxAttempts,    \* MAX_ATTEMPTS of the outbox (10 in the code)
    MaxActivations  \* bound: no concluding callback is read beyond it

ASSUME SettlementAssumption ==
    /\ Rows \subseteq Sales
    /\ Overlap \in BOOLEAN
    /\ MaxAttempts \in Nat \ {0}
    /\ MaxActivations \in Nat

VARIABLES
    status,       \* status[s]: Sale.status, or ABSENT before the row exists
    review,       \* review[s]: reviewStatus, OPEN for any that is not APPROVED
    task,         \* task[s]: how far s is on its way to Luxus Task
    stage,        \* stage[s]: Sale.contractStage, COMPLETED or any other
    commission,   \* commission[s]: Commission.status, or NONE without a row
    event,        \* event[s]: the outbox event COMMISSION_FROM_SALE of s
    activations,  \* activations[s]: times s was committed as ACTIVATED
    op            \* op[w]: the operation worker w is in the middle of

vars == <<status, review, task, stage, commission, event, activations, op>>

SaleStatus ==
    {"IN_ANALYSIS", "PENDING", "DOCUMENTS_PENDING", "CONTESTED", "APPROVED",
     "REJECTED", "ACTIVATED", "CANCELLED"}

Ended == {"CANCELLED", "REJECTED"}

Stages == {"IN_PROGRESS", "COMPLETED"}

\* Not handed over, approved for the queue, sent with sendToTask
\* (taskHandoff), and linked to its demand (taskDemandId).
TaskState == {"NONE", "QUEUED", "SENT", "LINKED"}

CommissionState == {"NONE", "FORECAST", "APPROVED", "PAID", "CANCELLED"}

\* There is nothing to pay: no commission row, or a cancelled one.
Void == {"NONE", "CANCELLED"}

EventState == {"NONE", "PENDING", "DONE", "FAILED"}

STATUS_TRANSITIONS ==
    [IN_ANALYSIS |-> {"APPROVED", "REJECTED", "PENDING", "CONTESTED", "DOCUMENTS_PENDING"},
     PENDING |-> {"IN_ANALYSIS", "APPROVED", "REJECTED", "CONTESTED", "DOCUMENTS_PENDING"},
     DOCUMENTS_PENDING |-> {"IN_ANALYSIS", "APPROVED", "REJECTED", "CONTESTED"},
     CONTESTED |-> {"IN_ANALYSIS", "APPROVED", "REJECTED", "DOCUMENTS_PENDING"},
     APPROVED |-> {"ACTIVATED", "CANCELLED"},
     REJECTED |-> {},
     ACTIVATED |-> {"CANCELLED"},
     CANCELLED |-> {}]

(***************************************************************************)
(* Operations under way                                                    *)
(***************************************************************************)

Idle == [at |-> "idle"]

Origins == {"callback", "import", "outbox"}

Tries == 0 .. MaxAttempts - 1

Operation ==
    {Idle}
    \* a callback has read the sale and decided what it will write
    \cup [at : {"callback"}, sale : Sales, completes : BOOLEAN, stage : Stages]
    \* createFromSale, before and after its read of the commission
    \cup [at : {"commission"}, sale : Sales, from : Origins, tries : Tries]
    \cup [at : {"grant"}, sale : Sales, from : Origins, tries : Tries, seen : Void]
    \* the outbox has picked an event; it has handled it without an error
    \cup [at : {"outbox", "settle"}, sale : Sales, tries : Tries]
    \* a status change was accepted; its transaction has read the commission
    \cup [at : {"decided"}, sale : Sales, target : SaleStatus]
    \cup [at : {"ending"}, sale : Sales, target : Ended, seen : CommissionState]
    \* a decision on the review or on sending the sale was accepted
    \cup [at : {"reviewing", "approving", "sending"}, sale : Sales]
    \* a reopening was accepted; its transaction has read the commission
    \cup [at : {"reopen"}, sale : Sales]
    \cup [at : {"reopening"}, sale : Sales, seen : CommissionState]

Free(w) == op[w] = Idle

Busy(s) == \E w \in Workers : ~Free(w) /\ op[w].sale = s

\* w may start an operation on s.
Ready(w, s) == Free(w) /\ (Overlap \/ ~Busy(s))

At(w, point) == op[w].at = point

Continue(w, operation) == op' = [op EXCEPT ![w] = operation]

Done(w) == Continue(w, Idle)

TypeOK ==
    /\ status \in [Sales -> SaleStatus \cup {"ABSENT"}]
    /\ review \in [Sales -> {"OPEN", "APPROVED"}]
    /\ task \in [Sales -> TaskState]
    /\ stage \in [Sales -> Stages]
    /\ commission \in [Sales -> CommissionState]
    /\ event \in [Sales -> [state : EventState, attempts : 0 .. MaxAttempts]]
    /\ activations \in [Sales -> Nat]
    /\ op \in [Workers -> Operation]

\* Sales registered here, and spreadsheet rows not imported yet.
Init ==
    /\ status = [s \in Sales |-> IF s \in Rows THEN "ABSENT" ELSE "IN_ANALYSIS"]
    /\ review = [s \in Sales |-> "OPEN"]
    /\ task = [s \in Sales |-> "NONE"]
    /\ stage = [s \in Sales |-> "IN_PROGRESS"]
    /\ commission = [s \in Sales |-> "NONE"]
    /\ event = [s \in Sales |-> [state |-> "NONE", attempts |-> 0]]
    /\ activations = [s \in Sales |-> 0]
    /\ op = [w \in Workers |-> Idle]

(***************************************************************************)
(* The way to Luxus Task: decisions of the administrator, each checked on  *)
(* the sale read first and written by id, none of them on its status as    *)
(* ACTIVATED or on its stage.  TaskSync has the queue and taskSyncStatus,  *)
(* which a retry of a row leaves in a state that sendToTask accepts.       *)
(***************************************************************************)

\* startReview and requestCorrection.
startReview(w, s) ==
    /\ Ready(w, s)
    /\ status[s] # "ABSENT"
    /\ review[s] = "OPEN"
    /\ Continue(w, [at |-> "reviewing", sale |-> s])
    /\ UNCHANGED <<review, task, status, stage, commission, event, activations>>

WriteReview(w) ==
    /\ At(w, "reviewing")
    /\ review' = [review EXCEPT ![op[w].sale] = "OPEN"]
    /\ Done(w)
    /\ UNCHANGED <<task, status, stage, commission, event, activations>>

approveForTask(w, s) ==
    /\ Ready(w, s)
    /\ status[s] # "ABSENT"
    /\ review[s] = "OPEN"
    /\ Continue(w, [at |-> "approving", sale |-> s])
    /\ UNCHANGED <<review, task, status, stage, commission, event, activations>>

\* Mutant: a sale with a demand can be sent again.
MaySend_Linked(s) == status[s] \notin Ended \cup {"ABSENT"} /\ task[s] # "SENT"

MaySend(s) == status[s] \notin Ended \cup {"ABSENT"} /\ task[s] \notin {"SENT", "LINKED"}

sendToTask(w, s) ==
    /\ Ready(w, s)
    /\ MaySend(s)
    /\ Continue(w, [at |-> "sending", sale |-> s])
    /\ UNCHANGED <<review, task, status, stage, commission, event, activations>>

HandOver(w) ==
    /\ op[w].at \in {"approving", "sending"}
    /\ LET s == op[w].sale IN
        /\ review' = [review EXCEPT ![s] = "APPROVED"]
        /\ task' = [task EXCEPT ![s] = IF @ = "LINKED" THEN @
                                        ELSE IF At(w, "sending") \/ @ = "SENT" THEN "SENT"
                                        ELSE "QUEUED"]
        /\ stage' = [stage EXCEPT ![s] = "IN_PROGRESS"]
    /\ Done(w)
    /\ UNCHANGED <<status, commission, event, activations>>

\* The queue links the sale to its demand, whatever became of the sale.
syncSaleToTask(w, s) ==
    /\ Ready(w, s)
    /\ task[s] \in {"QUEUED", "SENT"}
    /\ task' = [task EXCEPT ![s] = "LINKED"]
    /\ UNCHANGED <<review, status, stage, commission, event, activations, op>>

(***************************************************************************)
(* TaskIntegrationService.applySaleCallback: pushed by the Task, or pulled *)
(* by reconcileTaskProgress and refreshTaskStatus.  It decides on the sale *)
(* it read and, after storing the attachments, updates it by id.           *)
(***************************************************************************)

\* Mutant: only a concluded sale is locked.
SaleLocked_Concluded(s) ==
    \/ stage[s] = "COMPLETED"
    \/ status[s] = "ACTIVATED"

SaleLocked(s) ==
    \/ stage[s] = "COMPLETED"
    \/ status[s] \in Ended \cup {"ACTIVATED"}

CallbackRead(w, s, concluded) ==
    /\ Ready(w, s)
    /\ task[s] # "NONE"
    /\ concluded => activations[s] < MaxActivations
    /\ Continue(w,
        [at |-> "callback", sale |-> s,
         completes |-> concluded /\ ~SaleLocked(s),
         stage |-> IF SaleLocked(s) THEN stage[s]
                   ELSE IF concluded THEN "COMPLETED" ELSE "IN_PROGRESS"])
    /\ UNCHANGED <<review, task, status, stage, commission, event, activations>>

CallbackUpdate(w) ==
    /\ At(w, "callback")
    /\ ~op[w].completes
    /\ stage' = [stage EXCEPT ![op[w].sale] = op[w].stage]
    /\ task' = [task EXCEPT ![op[w].sale] = "LINKED"]
    /\ Done(w)
    /\ UNCHANGED <<status, review, commission, event, activations>>

\* Mutant: an update where the code upserts.
enqueueOutboxEvent_NoCreate(s) ==
    event' = IF event[s].state = "NONE" THEN event
             ELSE [event EXCEPT ![s] = [state |-> "PENDING", attempts |-> 0]]

enqueueOutboxEvent(s) ==
    event' = [event EXCEPT ![s] = [state |-> "PENDING", attempts |-> 0]]

CallbackComplete(w) ==
    /\ At(w, "callback")
    /\ op[w].completes
    /\ LET s == op[w].sale IN
        /\ stage' = [stage EXCEPT ![s] = "COMPLETED"]
        /\ status' = [status EXCEPT ![s] = "ACTIVATED"]
        /\ review' = [review EXCEPT ![s] = "APPROVED"]
        /\ task' = [task EXCEPT ![s] = "LINKED"]
        /\ activations' = [activations EXCEPT ![s] = @ + 1]
        /\ enqueueOutboxEvent(s)
        /\ Continue(w, [at |-> "commission", sale |-> s, from |-> "callback", tries |-> 0])
    /\ UNCHANGED commission

(***************************************************************************)
(* SalesImportService.createConcluded: the sale is created as concluded in *)
(* one transaction, the commission after it, without an outbox event.      *)
(***************************************************************************)

createConcluded(w, s) ==
    /\ Ready(w, s)
    /\ status[s] = "ABSENT"
    /\ status' = [status EXCEPT ![s] = "ACTIVATED"]
    /\ review' = [review EXCEPT ![s] = "APPROVED"]
    /\ stage' = [stage EXCEPT ![s] = "COMPLETED"]
    /\ activations' = [activations EXCEPT ![s] = @ + 1]
    /\ Continue(w, [at |-> "commission", sale |-> s, from |-> "import", tries |-> 0])
    /\ UNCHANGED <<task, commission, event>>

(***************************************************************************)
(* CommissionsService.createFromSale                                       *)
(***************************************************************************)

\* The caller goes on: the outbox marks its event, the others are finished.
AfterCommission(w) ==
    IF op[w].from = "outbox"
    THEN Continue(w, [at |-> "settle", sale |-> op[w].sale, tries |-> op[w].tries])
    ELSE Done(w)

ReadCommission(w) ==
    /\ At(w, "commission")
    /\ LET seen == commission[op[w].sale] IN
        IF seen \in Void
        THEN Continue(w, [at |-> "grant", sale |-> op[w].sale, from |-> op[w].from,
                          tries |-> op[w].tries, seen |-> seen])
        ELSE AfterCommission(w)
    /\ UNCHANGED <<review, task, status, stage, commission, event, activations>>

\* create refuses a second row of the sale (saleId is unique); the update of
\* a cancelled commission names only its id.
CanGrant(w) == op[w].seen = "NONE" => commission[op[w].sale] = "NONE"

GrantCommission(w) ==
    /\ At(w, "grant")
    /\ CanGrant(w)
    /\ commission' = [commission EXCEPT ![op[w].sale] = "FORECAST"]
    /\ AfterCommission(w)
    /\ UNCHANGED <<review, task, status, stage, event, activations>>

\* The database refuses or fails.  The callback logs the error, the import
\* reports it in the row's result.
CommissionFails(w) ==
    /\ op[w].at \in {"commission", "grant"}
    /\ op[w].from # "outbox"
    /\ Done(w)
    /\ UNCHANGED <<review, task, status, stage, commission, event, activations>>

(***************************************************************************)
(* OutboxService.processDue, one event at a time                           *)
(***************************************************************************)

PickEvent(w, s) ==
    /\ Ready(w, s)
    /\ event[s].state = "PENDING"
    /\ Continue(w, [at |-> "outbox", sale |-> s, tries |-> event[s].attempts])
    /\ UNCHANGED <<review, task, status, stage, commission, event, activations>>

\* Mutant: the status that precedes activation.
Payable_Approved(s) == status[s] = "APPROVED"

Payable(s) == status[s] = "ACTIVATED"

HandleEvent(w) ==
    /\ At(w, "outbox")
    /\ LET s == op[w].sale IN
        IF Payable(s)
        THEN Continue(w, [at |-> "commission", sale |-> s, from |-> "outbox",
                          tries |-> op[w].tries])
        ELSE Continue(w, [at |-> "settle", sale |-> s, tries |-> op[w].tries])
    /\ UNCHANGED <<review, task, status, stage, commission, event, activations>>

SettleEvent(w) ==
    /\ At(w, "settle")
    /\ event' = [event EXCEPT ![op[w].sale].state = "DONE"]
    /\ Done(w)
    /\ UNCHANGED <<review, task, status, stage, commission, activations>>

\* Mutant: one attempt too many.
AfterFailure_Late(tries) ==
    [state |-> IF tries + 1 > MaxAttempts THEN "FAILED" ELSE "PENDING",
     attempts |-> tries + 1]

\* Mutant: an event out of attempts is armed again instead of given up.
AfterFailure_Rearmed(tries) ==
    [state |-> "PENDING", attempts |-> IF tries + 1 >= MaxAttempts THEN 0 ELSE tries + 1]

AfterFailure(tries) ==
    [state |-> IF tries + 1 >= MaxAttempts THEN "FAILED" ELSE "PENDING",
     attempts |-> tries + 1]

\* Any await of the handler may throw; the attempts counted are those picked.
EventFails(w) ==
    /\ \/ op[w].at \in {"outbox", "settle"}
       \/ op[w].at \in {"commission", "grant"} /\ op[w].from = "outbox"
    /\ event' = [event EXCEPT ![op[w].sale] = AfterFailure(op[w].tries)]
    /\ Done(w)
    /\ UNCHANGED <<review, task, status, stage, commission, activations>>

(***************************************************************************)
(* SalesService.updateStatus, requestDocuments and resubmitDocuments: the  *)
(* transition is checked on the sale read first and written by id.         *)
(***************************************************************************)

Decide(w, s, target) ==
    /\ Ready(w, s)
    /\ status[s] \in SaleStatus
    /\ target \in STATUS_TRANSITIONS[status[s]]
    /\ Continue(w, [at |-> "decided", sale |-> s, target |-> target])
    /\ UNCHANGED <<review, task, status, stage, commission, event, activations>>

updateStatus(w, s, target) ==
    /\ target \notin {"APPROVED", "ACTIVATED"}
    /\ Decide(w, s, target)

requestDocuments(w, s) == Decide(w, s, "DOCUMENTS_PENDING")

resubmitDocuments(w, s) ==
    /\ status[s] = "DOCUMENTS_PENDING"
    /\ Decide(w, s, "IN_ANALYSIS")

WriteStatus(w) ==
    /\ At(w, "decided")
    /\ op[w].target \notin Ended
    /\ status' = [status EXCEPT ![op[w].sale] = op[w].target]
    /\ Done(w)
    /\ UNCHANGED <<review, task, stage, commission, event, activations>>

\* cancelSaleCommission reads the commission: a paid one refuses the end.
EndRefused(s) == commission[s] = "PAID"

RefuseEnd(w) ==
    /\ At(w, "decided")
    /\ op[w].target \in Ended
    /\ EndRefused(op[w].sale)
    /\ Done(w)
    /\ UNCHANGED <<review, task, status, stage, commission, event, activations>>

BeginEnd(w) ==
    /\ At(w, "decided")
    /\ op[w].target \in Ended
    /\ ~EndRefused(op[w].sale)
    /\ Continue(w, [at |-> "ending", sale |-> op[w].sale, target |-> op[w].target,
                    seen |-> commission[op[w].sale]])
    /\ UNCHANGED <<review, task, status, stage, commission, event, activations>>

\* Mutant: an approved commission is left alone.
CancelSeen_ForecastOnly(s, seen) ==
    commission' = IF seen = "FORECAST" THEN [commission EXCEPT ![s] = "CANCELLED"]
                  ELSE commission

\* Mutant: the paid commission is not kept.
CancelSeen_EvenPaid(s, seen) ==
    commission' = IF seen \in Void THEN commission
                  ELSE [commission EXCEPT ![s] = "CANCELLED"]

\* What cancelSaleCommission writes, on the commission it read.
CancelSeen(s, seen) ==
    commission' = IF seen \in Void \cup {"PAID"} THEN commission
                  ELSE [commission EXCEPT ![s] = "CANCELLED"]

EndSale(w) ==
    /\ At(w, "ending")
    /\ CancelSeen(op[w].sale, op[w].seen)
    /\ status' = [status EXCEPT ![op[w].sale] = op[w].target]
    /\ Done(w)
    /\ UNCHANGED <<review, task, stage, event, activations>>

(***************************************************************************)
(* SalesService.reopen: a concluded sale goes back to analysis; a paid     *)
(* commission is kept.                                                     *)
(***************************************************************************)

reopen(w, s) ==
    /\ Ready(w, s)
    /\ stage[s] = "COMPLETED" \/ status[s] = "ACTIVATED"
    /\ Continue(w, [at |-> "reopen", sale |-> s])
    /\ UNCHANGED <<review, task, status, stage, commission, event, activations>>

BeginReopen(w) ==
    /\ At(w, "reopen")
    /\ Continue(w, [at |-> "reopening", sale |-> op[w].sale,
                    seen |-> commission[op[w].sale]])
    /\ UNCHANGED <<review, task, status, stage, commission, event, activations>>

ReopenSale(w) ==
    /\ At(w, "reopening")
    /\ CancelSeen(op[w].sale, op[w].seen)
    /\ status' = [status EXCEPT ![op[w].sale] = "IN_ANALYSIS"]
    /\ review' = [review EXCEPT ![op[w].sale] = "OPEN"]
    /\ stage' = [stage EXCEPT ![op[w].sale] = "IN_PROGRESS"]
    /\ Done(w)
    /\ UNCHANGED <<task, event, activations>>

(***************************************************************************)
(* CommissionsService.approve, pay and cancel: each is one conditional     *)
(* updateMany, which repeats the checks made on the row read before.       *)
(***************************************************************************)

approve(w, s) ==
    /\ Ready(w, s)
    /\ commission[s] = "FORECAST"
    /\ status[s] = "ACTIVATED"
    /\ commission' = [commission EXCEPT ![s] = "APPROVED"]
    /\ UNCHANGED <<review, task, status, stage, event, activations, op>>

\* Mutant: any unpaid commission can be paid.
pay_Unapproved(w, s) ==
    /\ Ready(w, s)
    /\ commission[s] \notin {"NONE", "PAID"}
    /\ status[s] = "ACTIVATED"
    /\ commission' = [commission EXCEPT ![s] = "PAID"]
    /\ UNCHANGED <<review, task, status, stage, event, activations, op>>

pay(w, s) ==
    /\ Ready(w, s)
    /\ commission[s] = "APPROVED"
    /\ status[s] = "ACTIVATED"
    /\ commission' = [commission EXCEPT ![s] = "PAID"]
    /\ UNCHANGED <<review, task, status, stage, event, activations, op>>

cancel(w, s) ==
    /\ Ready(w, s)
    /\ commission[s] \notin {"NONE", "PAID"}
    /\ commission' = [commission EXCEPT ![s] = "CANCELLED"]
    /\ UNCHANGED <<review, task, status, stage, event, activations, op>>

\* The API process stops: what it had not written is lost, an open
\* transaction rolls back.
Crash(w) ==
    /\ ~Free(w)
    /\ Done(w)
    /\ UNCHANGED <<review, task, status, stage, commission, event, activations>>

(***************************************************************************)
(* Specification                                                           *)
(***************************************************************************)

Begin(w, s) ==
    \/ startReview(w, s)
    \/ approveForTask(w, s)
    \/ sendToTask(w, s)
    \/ syncSaleToTask(w, s)
    \/ \E concluded \in BOOLEAN : CallbackRead(w, s, concluded)
    \/ createConcluded(w, s)
    \/ PickEvent(w, s)
    \/ \E target \in Targets : updateStatus(w, s, target)
    \/ requestDocuments(w, s)
    \/ resubmitDocuments(w, s)
    \/ reopen(w, s)
    \/ approve(w, s)
    \/ pay(w, s)
    \/ cancel(w, s)

\* The next step of an operation under way, if nothing fails.
Proceed(w) ==
    \/ WriteReview(w)
    \/ HandOver(w)
    \/ CallbackUpdate(w)
    \/ CallbackComplete(w)
    \/ ReadCommission(w)
    \/ GrantCommission(w)
    \/ HandleEvent(w)
    \/ SettleEvent(w)
    \/ WriteStatus(w)
    \/ RefuseEnd(w)
    \/ BeginEnd(w)
    \/ EndSale(w)
    \/ BeginReopen(w)
    \/ ReopenSale(w)

Fail(w) ==
    \/ CommissionFails(w)
    \/ EventFails(w)
    \/ Crash(w)

Next ==
    \E w \in Workers :
        \/ \E s \in Sales : Begin(w, s)
        \/ Proceed(w)
        \/ Fail(w)

\* Whatever may happen but a crash.
Step ==
    \E w \in Workers :
        \/ \E s \in Sales : Begin(w, s)
        \/ Proceed(w)
        \/ CommissionFails(w)
        \/ EventFails(w)

Spec == Init /\ [][Next]_vars

\* An operation under way ends, by its own steps or by an error, and the
\* outbox's timer, which never waits for requests, gets to every due event.
Fairness ==
    /\ \A w \in Workers : WF_vars(Proceed(w) \/ Fail(w))
    /\ \A s \in Sales : SF_vars(\E w \in Workers : PickEvent(w, s))

FairSpec == Spec /\ Fairness

(***************************************************************************)
(* Properties of every interleaving                                        *)
(***************************************************************************)

\* A sale that Luxus Task concluded once and that is still activated has its
\* commission, or an outbox event that will create it or that gave up: the
\* event commits with the activation, and it is only marked as done after a
\* handler saw the commission or a sale that was no longer activated.
ActivationIsCovered ==
    \A s \in Sales \ Rows :
        activations[s] <= 1 /\ status[s] = "ACTIVATED" /\ commission[s] = "NONE"
        => event[s].state \in {"PENDING", "FAILED"}

\* An operation that read the commission of s and may write it later.
HoldsReading(w, s) ==
    /\ op[w].at \in {"grant", "ending", "reopening"}
    /\ op[w].sale = s
    /\ op[w].seen # "PAID"

Ledger ==
    INSTANCE CommissionLedger WITH
        active <- {s \in Sales : status[s] = "ACTIVATED"},
        stale <- {s \in Sales : \E w \in Workers : HoldsReading(w, s)}

\* Approvals and payments follow the ledger: each from the state before it
\* and while the sale is activated, and nothing overwrites a payment except
\* an operation that had read the commission before it was paid.
LedgerSpec == Ledger!Spec

\* Unless replicas crash for ever, the outbox leaves no event pending: it is
\* handled, or it fails until its attempts are spent.
EventsAreSettled ==
    <>[][Step]_vars
    => \A s \in Sales : event[s].state = "PENDING" ~> event[s].state # "PENDING"

(***************************************************************************)
(* Properties of operations that do not overlap on a sale (~Overlap),      *)
(* whatever fails or crashes between their steps                           *)
(***************************************************************************)

\* A commission that can still be paid belongs to an activated sale: every
\* way out of ACTIVATED cancels it in the same transaction.
LiveCommissionIsActive ==
    \A s \in Sales : commission[s] \in {"FORECAST", "APPROVED"} => status[s] = "ACTIVATED"

\* A cancelled or rejected sale has no commission to pay and none paid.
EndedSaleOwesNothing ==
    \A s \in Sales : status[s] \in Ended => commission[s] \in Void

\* The commission of a sale follows its status, through ends, payments and
\* reopenings in any order.
CommissionMatchesStatus == LiveCommissionIsActive /\ EndedSaleOwesNothing

\* A paid commission stays paid.
PaidStaysPaid ==
    [][\A s \in Sales : commission[s] = "PAID" => commission'[s] = "PAID"]_vars

\* No callback turns a cancelled or rejected sale into an activated one.
EndedSaleNotRevived ==
    [][\A s \in Sales : status[s] \in Ended => status'[s] # "ACTIVATED"]_vars

\* An activated sale is at the last stage of its contract, which the queue
\* of telefonia-2 requires; except that sendToTask takes it from there for a
\* row of the spreadsheet, imported as concluded and without a demand.
ActivatedIsCompleted ==
    \A s \in Sales :
        status[s] = "ACTIVATED"
        => stage[s] = "COMPLETED" \/ (s \in Rows /\ task[s] \in {"SENT", "LINKED"})

\* Once nobody works on a sale that Luxus Task concluded, its commission
\* exists, or the outbox has an event that will create it or that gave up.
\* Not so for a row of the spreadsheet, which has no event.
ActivatedSaleHasCommission ==
    \A s \in Sales \ Rows :
        status[s] = "ACTIVATED" /\ ~Busy(s)
        => \/ commission[s] # "NONE"
           \/ event[s].state \in {"PENDING", "FAILED"}

\* What the activation of a sale brings with it is there as long as it lasts.
ActivatedIsSettled == ActivatedIsCompleted /\ ActivatedSaleHasCommission

=============================================================================
