-------------------------- MODULE SettlementProofs --------------------------
(***************************************************************************)
(* Theorems of Settlement for any sales, workers, targets and bounds.      *)
(***************************************************************************)
EXTENDS Settlement, TLAPS

(***************************************************************************)
(* Type correctness                                                        *)
(***************************************************************************)

\* The fields of the operation of a worker, by the point it has reached.
LEMMA OperationFields ==
    ASSUME TypeOK, NEW w \in Workers
    PROVE  /\ Free(w) <=> op[w].at = "idle"
           /\ op[w].at # "idle" => op[w].sale \in Sales
           /\ op[w].at = "callback" => op[w].stage \in Stages
           /\ op[w].at \in {"commission", "grant"} => op[w].from \in Origins
           /\ op[w].at \in {"commission", "grant", "outbox", "settle"}
                => op[w].tries \in Tries
           /\ op[w].at = "grant" => op[w].seen \in Void
           /\ op[w].at = "decided" => op[w].target \in SaleStatus
           /\ op[w].at = "ending" => op[w].target \in Ended
           /\ op[w].at \in {"ending", "reopening"} => op[w].seen \in CommissionState
<1>1. op[w] \in Operation
  BY DEF TypeOK
<1> QED
  BY <1>1 DEF Operation, Idle, Free

\* Every operation the actions build is one.
LEMMA OperationBuilt ==
    ASSUME NEW s \in Sales
    PROVE  /\ Idle \in Operation
           /\ \A c \in BOOLEAN, g \in Stages :
                [at |-> "callback", sale |-> s, completes |-> c, stage |-> g] \in Operation
           /\ \A f \in Origins, n \in Tries :
                [at |-> "commission", sale |-> s, from |-> f, tries |-> n] \in Operation
           /\ \A f \in Origins, n \in Tries, c \in Void :
                [at |-> "grant", sale |-> s, from |-> f, tries |-> n, seen |-> c] \in Operation
           /\ \A n \in Tries :
                /\ [at |-> "outbox", sale |-> s, tries |-> n] \in Operation
                /\ [at |-> "settle", sale |-> s, tries |-> n] \in Operation
           /\ \A t \in SaleStatus : [at |-> "decided", sale |-> s, target |-> t] \in Operation
           /\ \A t \in Ended, c \in CommissionState :
                [at |-> "ending", sale |-> s, target |-> t, seen |-> c] \in Operation
           /\ \A p \in {"reopen", "reviewing", "approving", "sending"} :
                [at |-> p, sale |-> s] \in Operation
           /\ \A c \in CommissionState :
                [at |-> "reopening", sale |-> s, seen |-> c] \in Operation
  BY DEF Operation

\* Transitions lead to statuses; an ended sale has none, and an activated
\* sale can only be cancelled.
LEMMA Transitions ==
    ASSUME NEW from \in SaleStatus
    PROVE  /\ STATUS_TRANSITIONS[from] \subseteq SaleStatus
           /\ from \in Ended => STATUS_TRANSITIONS[from] = {}
           /\ from = "ACTIVATED" => STATUS_TRANSITIONS[from] = {"CANCELLED"}
  BY DEF STATUS_TRANSITIONS, SaleStatus, Ended

\* A pending event has an attempt left: without it an outbox worker could
\* count past the bound, so TypeOK is inductive only together with it.
PendingHasAttempt ==
    \A s \in Sales : event[s].state = "PENDING" => event[s].attempts \in Tries

TypeInv == TypeOK /\ PendingHasAttempt

LEMMA TypeInit == Init => TypeInv
<1> SUFFICES ASSUME Init PROVE TypeInv
  OBVIOUS
<1>1. 0 \in 0 .. MaxAttempts
  BY SettlementAssumption
<1>2. Idle \in Operation
  BY DEF Operation
<1> QED
  BY <1>1, <1>2
  DEF Init, TypeInv, TypeOK, PendingHasAttempt, SaleStatus, TaskState, Stages, CommissionState,
      EventState

\* What the steps of a worker leave to prove of the types.
LEMMA TypeContinue ==
    ASSUME TypeOK, NEW w \in Workers, NEW o \in Operation, Continue(w, o)
    PROVE  op' \in [Workers -> Operation]
  BY DEF TypeOK, Continue

LEMMA TypeBegin ==
    ASSUME TypeInv, NEW w \in Workers, NEW s \in Sales, Begin(w, s)
    PROVE  TypeInv'
<1>1. ASSUME NEW concluded \in BOOLEAN, CallbackRead(w, s, concluded)
      PROVE  TypeInv'
  <2> DEFINE completes == concluded /\ ~SaleLocked(s)
             next == IF SaleLocked(s) THEN stage[s]
                     ELSE IF concluded THEN "COMPLETED" ELSE "IN_PROGRESS"
             o == [at |-> "callback", sale |-> s, completes |-> completes, stage |-> next]
  <2>1. completes \in BOOLEAN
    OBVIOUS
  <2>2. next \in Stages
    BY DEF TypeInv, TypeOK, Stages
  <2>3. o \in Operation
    <3> HIDE DEF completes, next
    <3> QED
      BY <2>1, <2>2, OperationBuilt
  <2> QED
    BY <1>1, <2>3 DEF CallbackRead, Continue, TypeInv, TypeOK, PendingHasAttempt
<1>2. CASE createConcluded(w, s)
  <2> DEFINE o == [at |-> "commission", sale |-> s, from |-> "import", tries |-> 0]
  <2>1. 0 \in Tries
    BY SettlementAssumption DEF Tries
  <2>2. o \in Operation
    BY <2>1, OperationBuilt DEF Origins
  <2> QED
    BY <1>2, <2>2 DEF createConcluded, Continue, TypeInv, TypeOK, PendingHasAttempt, SaleStatus, Stages
<1>3. CASE PickEvent(w, s)
  <2>1. event[s].attempts \in Tries
    BY <1>3 DEF PickEvent, TypeInv, PendingHasAttempt
  <2>2. [at |-> "outbox", sale |-> s, tries |-> event[s].attempts] \in Operation
    BY <2>1, OperationBuilt
  <2> QED
    BY <1>3, <2>2 DEF PickEvent, Continue, TypeInv, TypeOK, PendingHasAttempt
<1>4. ASSUME NEW target, Decide(w, s, target)
      PROVE  TypeInv'
  <2>1. target \in SaleStatus
    BY <1>4, Transitions DEF Decide
  <2>2. [at |-> "decided", sale |-> s, target |-> target] \in Operation
    BY <2>1, OperationBuilt
  <2> QED
    BY <1>4, <2>2 DEF Decide, Continue, TypeInv, TypeOK, PendingHasAttempt
<1>5. CASE reopen(w, s)
  BY <1>5, OperationBuilt DEF reopen, Continue, TypeInv, TypeOK, PendingHasAttempt
<1>7. CASE startReview(w, s) \/ approveForTask(w, s) \/ sendToTask(w, s)
  BY <1>7, OperationBuilt
  DEF startReview, approveForTask, sendToTask, Continue, TypeInv, TypeOK, PendingHasAttempt
<1>8. CASE syncSaleToTask(w, s)
  BY <1>8 DEF syncSaleToTask, TypeInv, TypeOK, PendingHasAttempt, TaskState
<1>6. CASE approve(w, s) \/ pay(w, s) \/ cancel(w, s)
  BY <1>6 DEF approve, pay, cancel, TypeInv, TypeOK, PendingHasAttempt, CommissionState
<1> QED
  BY <1>1, <1>2, <1>3, <1>4, <1>5, <1>6, <1>7, <1>8
  DEF Begin, updateStatus, requestDocuments, resubmitDocuments

LEMMA TypeProceed ==
    ASSUME TypeInv, NEW w \in Workers, Proceed(w)
    PROVE  TypeInv'
<1> USE DEF TypeInv, TypeOK, PendingHasAttempt, Continue, Done
<1> DEFINE s == op[w].sale
<1>1. op[w].at # "idle" => s \in Sales
  BY OperationFields
<1>2. CASE CallbackUpdate(w)
  BY <1>1, <1>2, OperationFields, OperationBuilt DEF CallbackUpdate, At, TaskState
<1>3. CASE CallbackComplete(w)
  <2>1. s \in Sales /\ 0 \in Tries
    BY <1>1, <1>3, SettlementAssumption DEF CallbackComplete, At, Tries
  <2>2. [at |-> "commission", sale |-> s, from |-> "callback", tries |-> 0] \in Operation
    BY <2>1, OperationBuilt DEF Origins
  <2>3. event' \in [Sales -> [state : EventState, attempts : 0 .. MaxAttempts]]
    BY <1>3, <2>1, SettlementAssumption
    DEF CallbackComplete, enqueueOutboxEvent, EventState
  <2> QED
    BY <1>3, <2>1, <2>2, <2>3
    DEF CallbackComplete, enqueueOutboxEvent, SaleStatus, Stages, TaskState
<1>4. CASE ReadCommission(w)
  <2> DEFINE grant == [at |-> "grant", sale |-> s, from |-> op[w].from,
                       tries |-> op[w].tries, seen |-> commission[s]]
             settle == [at |-> "settle", sale |-> s, tries |-> op[w].tries]
  <2>1. s \in Sales /\ op[w].from \in Origins /\ op[w].tries \in Tries
    BY <1>1, <1>4, OperationFields DEF ReadCommission, At
  <2>2. commission[s] \in Void => grant \in Operation
    BY <2>1, OperationBuilt
  <2>3. settle \in Operation /\ Idle \in Operation
    BY <2>1, OperationBuilt
  <2>4. CASE commission[s] \in Void
    BY <1>4, <2>2, <2>4 DEF ReadCommission
  <2>5. CASE commission[s] \notin Void
    BY <1>4, <2>3, <2>5 DEF ReadCommission, AfterCommission
  <2> QED
    BY <2>4, <2>5
<1>5. CASE GrantCommission(w)
  <2>1. s \in Sales /\ op[w].tries \in Tries
    BY <1>1, <1>5, OperationFields DEF GrantCommission, At
  <2> QED
    BY <1>5, <2>1, OperationBuilt DEF GrantCommission, AfterCommission, CommissionState
<1>6. CASE HandleEvent(w)
  <2>1. s \in Sales /\ op[w].tries \in Tries
    BY <1>1, <1>6, OperationFields DEF HandleEvent, At
  <2>2. /\ [at |-> "commission", sale |-> s, from |-> "outbox", tries |-> op[w].tries] \in Operation
        /\ [at |-> "settle", sale |-> s, tries |-> op[w].tries] \in Operation
    BY <2>1, OperationBuilt DEF Origins
  <2> QED
    BY <1>6, <2>2 DEF HandleEvent
<1>7. CASE SettleEvent(w)
  <2>1. s \in Sales
    BY <1>1, <1>7 DEF SettleEvent, At
  <2> QED
    BY <1>7, <2>1, OperationBuilt DEF SettleEvent, EventState
<1>8. CASE WriteStatus(w)
  <2>1. s \in Sales /\ op[w].target \in SaleStatus
    BY <1>1, <1>8, OperationFields DEF WriteStatus, At
  <2> QED
    BY <1>8, <2>1, OperationBuilt DEF WriteStatus
<1>9. CASE RefuseEnd(w)
  BY <1>1, <1>9, OperationBuilt DEF RefuseEnd, At
<1>10. CASE BeginEnd(w)
  <2>1. s \in Sales /\ op[w].target \in Ended /\ commission[s] \in CommissionState
    BY <1>1, <1>10 DEF BeginEnd, At
  <2> QED
    BY <1>10, <2>1, OperationBuilt DEF BeginEnd
<1>11. CASE EndSale(w)
  <2>1. s \in Sales /\ op[w].target \in Ended
    BY <1>1, <1>11, OperationFields DEF EndSale, At
  <2> QED
    BY <1>11, <2>1, OperationBuilt
    DEF EndSale, CancelSeen, Ended, SaleStatus, CommissionState
<1>12. CASE BeginReopen(w)
  BY <1>1, <1>12, OperationBuilt DEF BeginReopen, At
<1>13. CASE ReopenSale(w)
  <2>1. s \in Sales
    BY <1>1, <1>13 DEF ReopenSale, At
  <2> QED
    BY <1>13, <2>1, OperationBuilt
    DEF ReopenSale, CancelSeen, SaleStatus, Stages, CommissionState
<1>14. CASE WriteReview(w)
  BY <1>1, <1>14, OperationBuilt DEF WriteReview, At
<1>15. CASE HandOver(w)
  <2>1. s \in Sales
    BY <1>1, <1>15 DEF HandOver
  <2>2. /\ review' \in [Sales -> {"OPEN", "APPROVED"}]
        /\ stage' \in [Sales -> Stages]
    BY <1>15, <2>1 DEF HandOver, Stages
  <2>3. task' \in [Sales -> TaskState]
    BY <1>15, <2>1 DEF HandOver, TaskState
  <2>4. /\ op' \in [Workers -> Operation]
        /\ UNCHANGED <<status, commission, event, activations>>
    BY <1>15, <2>1, OperationBuilt DEF HandOver
  <2> QED
    BY <2>2, <2>3, <2>4
<1> QED
  BY <1>2, <1>3, <1>4, <1>5, <1>6, <1>7, <1>8, <1>9, <1>10, <1>11, <1>12, <1>13,
     <1>14, <1>15
  DEF Proceed

\* An attempt that failed leaves an event with an attempt left, or gives up.
LEMMA FailureType ==
    ASSUME NEW tries \in Tries
    PROVE  /\ AfterFailure(tries) \in [state : EventState, attempts : 0 .. MaxAttempts]
           /\ AfterFailure(tries).state = "PENDING" => AfterFailure(tries).attempts \in Tries
  BY SettlementAssumption DEF AfterFailure, EventState, Tries

LEMMA TypeFail ==
    ASSUME TypeInv, NEW w \in Workers, Fail(w)
    PROVE  TypeInv'
<1> USE DEF TypeInv, TypeOK, PendingHasAttempt, Continue, Done
<1>1. op[w].at # "idle" => op[w].sale \in Sales
  BY OperationFields
<1>2. Idle \in Operation
  BY DEF Operation
<1>3. CASE CommissionFails(w) \/ Crash(w)
  BY <1>2, <1>3 DEF CommissionFails, Crash
<1>4. CASE EventFails(w)
  <2>1. op[w].sale \in Sales /\ op[w].tries \in Tries
    BY <1>1, <1>4, OperationFields DEF EventFails
  <2> QED
    BY <1>2, <1>4, <2>1, FailureType DEF EventFails
<1> QED
  BY <1>3, <1>4 DEF Fail

LEMMA TypeNext == TypeInv /\ [Next]_vars => TypeInv'
<1> SUFFICES ASSUME TypeInv, [Next]_vars PROVE TypeInv'
  OBVIOUS
<1>1. CASE Next
  BY <1>1, TypeBegin, TypeProceed, TypeFail DEF Next
<1>2. CASE UNCHANGED vars
  BY <1>2 DEF vars, TypeInv, TypeOK, PendingHasAttempt
<1> QED
  BY <1>1, <1>2

\* In every reachable state the rows and the operations under way have their
\* types; in particular no event counts more attempts than MAX_ATTEMPTS.
THEOREM TypeCorrect == Spec => []TypeOK
<1>1. TypeInv => TypeOK
  BY DEF TypeInv
<1> QED
  BY TypeInit, TypeNext, <1>1, PTL DEF Spec

(***************************************************************************)
(* Every activation is covered                                             *)
(***************************************************************************)

\* The worker handles an event of s.
OnOutbox(w, s) ==
    /\ \/ op[w].at \in {"outbox", "settle"}
       \/ op[w].at \in {"commission", "grant"} /\ op[w].from = "outbox"
    /\ op[w].sale = s

\* Only the Task activates a sale that exists, and it arms the event with it.
Armed(s) ==
    /\ status[s] # "ABSENT"
    /\ status[s] = "ACTIVATED" \/ event[s].state # "NONE" => activations[s] >= 1
    /\ \A w \in Workers : OnOutbox(w, s) => activations[s] >= 1

\* Whoever is about to mark the event of the first activation as done has
\* seen its commission or that the sale is not activated.
SettlesHandled(s) ==
    \A w \in Workers :
        /\ At(w, "settle")
        /\ op[w].sale = s
        /\ activations[s] <= 1
        /\ commission[s] = "NONE"
        => status[s] # "ACTIVATED"

NoDecidedActivation ==
    \A w \in Workers : At(w, "decided") => op[w].target # "ACTIVATED"

CoverInv ==
    /\ NoDecidedActivation
    /\ \A s \in Sales \ Rows : Armed(s) /\ SettlesHandled(s)
    /\ ActivationIsCovered

LEMMA CoverInit == Init => CoverInv
<1> SUFFICES ASSUME Init PROVE CoverInv
  OBVIOUS
<1>1. \A w \in Workers : op[w].at = "idle"
  BY DEF Init, Idle
<1> QED
  BY <1>1, SettlementAssumption
  DEF Init, CoverInv, NoDecidedActivation, Armed, OnOutbox, SettlesHandled,
      ActivationIsCovered, At

LEMMA CoverBegin ==
    ASSUME TypeInv, CoverInv, NEW w \in Workers, NEW s \in Sales, Begin(w, s)
    PROVE  CoverInv'
<1> USE DEF TypeInv, TypeOK, CoverInv, NoDecidedActivation, Armed, OnOutbox,
            SettlesHandled, ActivationIsCovered, At, Continue
<1>1. ASSUME NEW concluded \in BOOLEAN, CallbackRead(w, s, concluded)
      PROVE  CoverInv'
  BY <1>1 DEF CallbackRead
<1>2. CASE createConcluded(w, s)
  <2>1. s \in Rows
    BY <1>2 DEF createConcluded
  <2> QED
    BY <1>2, <2>1 DEF createConcluded
<1>3. CASE PickEvent(w, s)
  BY <1>3 DEF PickEvent
<1>4. ASSUME NEW target, target # "ACTIVATED", Decide(w, s, target)
      PROVE  CoverInv'
  BY <1>4 DEF Decide
<1>5. CASE reopen(w, s)
  BY <1>5 DEF reopen
<1>6. CASE approve(w, s) \/ pay(w, s) \/ cancel(w, s)
  BY <1>6 DEF approve, pay, cancel
<1>7. CASE startReview(w, s) \/ approveForTask(w, s) \/ sendToTask(w, s)
  <2>1. /\ \E p \in {"reviewing", "approving", "sending"} :
            op' = [op EXCEPT ![w] = [at |-> p, sale |-> s]]
        /\ UNCHANGED <<status, commission, event, activations>>
    BY <1>7 DEF startReview, approveForTask, sendToTask
  <2>2. \A v \in Workers :
            op'[v] = op[v] \/ op'[v].at \in {"reviewing", "approving", "sending"}
    BY <2>1
  <2> QED
    BY <2>1, <2>2
<1>8. CASE syncSaleToTask(w, s)
  BY <1>8 DEF syncSaleToTask
<1> QED
  BY <1>1, <1>2, <1>3, <1>4, <1>5, <1>6, <1>7, <1>8
  DEF Begin, updateStatus, requestDocuments, resubmitDocuments

LEMMA CoverProceed ==
    ASSUME TypeInv, CoverInv, NEW w \in Workers, Proceed(w)
    PROVE  CoverInv'
<1> USE DEF TypeInv, TypeOK, CoverInv, NoDecidedActivation, Armed, OnOutbox,
            SettlesHandled, ActivationIsCovered, At, Continue, Done, Idle
<1> DEFINE s == op[w].sale
<1>1. op[w].at # "idle" => s \in Sales
  BY OperationFields
<1>2. CASE CallbackUpdate(w)
  BY <1>2 DEF CallbackUpdate
<1>3. CASE CallbackComplete(w)
  <2>1. s \in Sales /\ activations[s] \in Nat
    BY <1>1, <1>3 DEF CallbackComplete
  <2>2. /\ activations' = [activations EXCEPT ![s] = @ + 1]
        /\ event' = [event EXCEPT ![s] = [state |-> "PENDING", attempts |-> 0]]
        /\ status' = [status EXCEPT ![s] = "ACTIVATED"]
        /\ commission' = commission
        /\ op' = [op EXCEPT ![w] = [at |-> "commission", sale |-> s,
                                    from |-> "callback", tries |-> 0]]
    BY <1>3 DEF CallbackComplete, enqueueOutboxEvent
  <2>3. NoDecidedActivation'
    BY <2>2
  <2>4. ASSUME NEW r \in Sales \ Rows
        PROVE  Armed(r)'
    BY <2>1, <2>2
  <2>5. ASSUME NEW r \in Sales \ Rows
        PROVE  SettlesHandled(r)'
    <3>1. CASE r = s
      <4>1. ASSUME NEW v \in Workers, At(v, "settle")', op'[v].sale = s
            PROVE  activations'[s] >= 2
        BY <2>1, <2>2, <3>1, <4>1
      <4> QED
        BY <2>1, <2>2, <3>1, <4>1
    <3>2. CASE r # s
      BY <2>1, <2>2, <3>2
    <3> QED
      BY <3>1, <3>2
  <2>6. ActivationIsCovered'
    BY <2>1, <2>2
  <2> QED
    BY <2>3, <2>4, <2>5, <2>6
<1>4. CASE ReadCommission(w)
  <2>1. s \in Sales /\ UNCHANGED <<status, commission, event, activations>>
    BY <1>1, <1>4 DEF ReadCommission
  <2>2. \/ /\ OnOutbox(w, s) \/ op[w].from # "outbox"
           /\ op' = [op EXCEPT ![w] = [at |-> "grant", sale |-> s, from |-> op[w].from,
                                       tries |-> op[w].tries, seen |-> commission[s]]]
        \/ /\ OnOutbox(w, s)
           /\ commission[s] # "NONE"
           /\ op' = [op EXCEPT ![w] = [at |-> "settle", sale |-> s, tries |-> op[w].tries]]
        \/ op' = [op EXCEPT ![w] = Idle]
    BY <1>4 DEF ReadCommission, AfterCommission, Void
  <2>3. NoDecidedActivation'
    <3>1. ASSUME NEW v \in Workers
          PROVE  op'[v] = op[v] \/ op'[v].at \in {"grant", "settle", "idle"}
      BY <2>2
    <3> QED
      BY <3>1
  <2>6. ActivationIsCovered'
    BY <2>1
  <2>4. ASSUME NEW r \in Sales \ Rows
        PROVE  Armed(r)'
    BY <2>1, <2>2
  <2>5. ASSUME NEW r \in Sales \ Rows
        PROVE  SettlesHandled(r)'
    <3>1. SettlesHandled(r)
      OBVIOUS
    <3>2. ASSUME NEW v \in Workers
          PROVE  \/ op'[v] = op[v]
                 \/ op'[v].at \in {"grant", "idle"}
                 \/ op'[v].sale = s /\ commission[s] # "NONE"
      BY <2>2
    <3> QED
      BY <2>1, <3>1, <3>2
  <2> QED
    BY <2>3, <2>4, <2>5, <2>6
<1>5. CASE GrantCommission(w)
  <2>1. s \in Sales
    BY <1>1, <1>5 DEF GrantCommission
  <2>2. /\ commission' = [commission EXCEPT ![s] = "FORECAST"]
        /\ UNCHANGED <<status, event, activations>>
    BY <1>5 DEF GrantCommission
  <2>3. \/ /\ OnOutbox(w, s)
           /\ op' = [op EXCEPT ![w] = [at |-> "settle", sale |-> s, tries |-> op[w].tries]]
        \/ op' = [op EXCEPT ![w] = Idle]
    BY <1>5 DEF GrantCommission, AfterCommission
  <2>4. NoDecidedActivation'
    BY <2>3
  <2>5. ASSUME NEW r \in Sales \ Rows
        PROVE  Armed(r)'
    BY <2>2, <2>3
  <2>6. ASSUME NEW r \in Sales \ Rows
        PROVE  SettlesHandled(r)'
    <3>1. CASE r = s
      BY <2>1, <2>2, <3>1
    <3>2. CASE r # s
      <4>1. \A v \in Workers : op'[v] = op[v] \/ op'[v].at = "idle" \/ op'[v].sale = s
        BY <2>3
      <4> QED
        BY <2>2, <3>2, <4>1
    <3> QED
      BY <3>1, <3>2
  <2>7. ActivationIsCovered'
    BY <2>1, <2>2
  <2> QED
    BY <2>4, <2>5, <2>6, <2>7
<1>6. CASE HandleEvent(w)
  <2>1. UNCHANGED <<status, commission, event, activations>>
    BY <1>6 DEF HandleEvent
  <2>2. OnOutbox(w, s)
    BY <1>6 DEF HandleEvent
  <2>3. \/ op' = [op EXCEPT ![w] = [at |-> "commission", sale |-> s, from |-> "outbox",
                                    tries |-> op[w].tries]]
        \/ /\ status[s] # "ACTIVATED"
           /\ op' = [op EXCEPT ![w] = [at |-> "settle", sale |-> s, tries |-> op[w].tries]]
    BY <1>6 DEF HandleEvent, Payable
  <2>4. NoDecidedActivation'
    BY <2>3
  <2>5. ASSUME NEW r \in Sales \ Rows
        PROVE  Armed(r)'
    BY <2>1, <2>2, <2>3
  <2>6. ASSUME NEW r \in Sales \ Rows
        PROVE  SettlesHandled(r)'
    <3>1. SettlesHandled(r)
      OBVIOUS
    <3>2. ASSUME NEW v \in Workers
          PROVE  \/ op'[v] = op[v]
                 \/ op'[v].at = "commission"
                 \/ op'[v].sale = s /\ status[s] # "ACTIVATED"
      BY <2>3
    <3> QED
      BY <2>1, <3>1, <3>2
  <2>7. ActivationIsCovered'
    BY <2>1
  <2> QED
    BY <2>4, <2>5, <2>6, <2>7
<1>7. CASE SettleEvent(w)
  BY <1>1, <1>7 DEF SettleEvent
<1>8. CASE WriteStatus(w)
  <2>1. s \in Sales /\ op[w].target # "ACTIVATED" /\ op[w].target # "ABSENT"
    BY <1>1, <1>8, OperationFields DEF WriteStatus, SaleStatus
  <2>2. /\ status' = [status EXCEPT ![s] = op[w].target]
        /\ op' = [op EXCEPT ![w] = Idle]
        /\ UNCHANGED <<commission, event, activations>>
    BY <1>8 DEF WriteStatus
  <2> QED
    BY <2>1, <2>2
<1>9. CASE RefuseEnd(w)
  BY <1>9 DEF RefuseEnd
<1>10. CASE BeginEnd(w)
  BY <1>10 DEF BeginEnd
<1>11. CASE EndSale(w)
  BY <1>1, <1>11, OperationFields DEF EndSale, CancelSeen, Ended
<1>12. CASE BeginReopen(w)
  BY <1>12 DEF BeginReopen
<1>13. CASE ReopenSale(w)
  BY <1>1, <1>13 DEF ReopenSale, CancelSeen
<1>14. CASE WriteReview(w) \/ HandOver(w)
  <2>1. op' = [op EXCEPT ![w] = Idle] /\ UNCHANGED <<status, commission, event, activations>>
    BY <1>14 DEF WriteReview, HandOver
  <2>2. \A v \in Workers : op'[v] = op[v] \/ op'[v].at = "idle"
    BY <2>1
  <2> QED
    BY <2>1, <2>2
<1> QED
  BY <1>2, <1>3, <1>4, <1>5, <1>6, <1>7, <1>8, <1>9, <1>10, <1>11, <1>12, <1>13,
     <1>14
  DEF Proceed

LEMMA CoverFail ==
    ASSUME TypeInv, CoverInv, NEW w \in Workers, Fail(w)
    PROVE  CoverInv'
<1> USE DEF TypeInv, TypeOK, CoverInv, NoDecidedActivation, Armed, OnOutbox,
            SettlesHandled, ActivationIsCovered, At, Continue, Done, Idle
<1>1. op[w].at # "idle" => op[w].sale \in Sales
  BY OperationFields
<1>2. CASE CommissionFails(w) \/ Crash(w)
  <2>1. op' = [op EXCEPT ![w] = Idle] /\ UNCHANGED <<status, commission, event, activations>>
    BY <1>2 DEF CommissionFails, Crash
  <2>2. \A v \in Workers : op'[v] = op[v] \/ op'[v].at = "idle"
    BY <2>1
  <2> QED
    BY <2>1, <2>2
<1>3. CASE EventFails(w)
  BY <1>1, <1>3 DEF EventFails, AfterFailure
<1> QED
  BY <1>2, <1>3 DEF Fail

LEMMA CoverNext == TypeInv /\ CoverInv /\ [Next]_vars => CoverInv'
<1> SUFFICES ASSUME TypeInv, CoverInv, [Next]_vars PROVE CoverInv'
  OBVIOUS
<1>1. CASE Next
  BY <1>1, CoverBegin, CoverProceed, CoverFail DEF Next
<1>2. CASE UNCHANGED vars
  BY <1>2
  DEF vars, CoverInv, NoDecidedActivation, Armed, OnOutbox, SettlesHandled,
      ActivationIsCovered, At
<1> QED
  BY <1>1, <1>2

\* Whatever callbacks, outbox workers, status changes, failures and crashes
\* interleave: a sale the Task concluded once and that is still activated
\* without a commission has an event that is pending or gave up.
THEOREM ActivationCovered == Spec => []ActivationIsCovered
<1>1. CoverInv => ActivationIsCovered
  BY DEF CoverInv
<1> QED
  BY TypeInit, TypeNext, CoverInit, CoverNext, <1>1, PTL DEF Spec

(***************************************************************************)
(* The ledger of commissions is implemented                                *)
(***************************************************************************)

\* A row that was read still exists: nothing deletes a commission.
ReadRowsExist ==
    \A w \in Workers :
        op[w].at \in {"grant", "ending", "reopening"} /\ op[w].seen # "NONE"
        => commission[op[w].sale] # "NONE"

LEMMA RowsInit == Init => ReadRowsExist
  BY DEF Init, ReadRowsExist, Idle

\* No step removes the row of a commission.
LEMMA RowsStay ==
    ASSUME TypeInv, Next, NEW s \in Sales, commission[s] # "NONE"
    PROVE  commission'[s] # "NONE"
<1>1. PICK w \in Workers : (\E r \in Sales : Begin(w, r)) \/ Proceed(w) \/ Fail(w)
  BY DEF Next
<1>2. CASE \E r \in Sales : Begin(w, r)
  BY <1>2
  DEF Begin, startReview, approveForTask, sendToTask, syncSaleToTask, CallbackRead,
      createConcluded, PickEvent, updateStatus, requestDocuments,
      resubmitDocuments, Decide, reopen, approve, pay, cancel, TypeInv, TypeOK
<1>3. CASE Proceed(w)
  BY <1>3
  DEF Proceed, WriteReview, HandOver, CallbackUpdate, CallbackComplete, ReadCommission, GrantCommission,
      HandleEvent, SettleEvent, WriteStatus, RefuseEnd, BeginEnd, EndSale, BeginReopen,
      ReopenSale, CancelSeen, TypeInv, TypeOK
<1>4. CASE Fail(w)
  BY <1>4 DEF Fail, CommissionFails, EventFails, Crash
<1> QED
  BY <1>1, <1>2, <1>3, <1>4

\* A worker takes a reading only of the commission as it is, and one step
\* changes the operation of one worker.
LEMMA ReadingsAreTaken ==
    ASSUME TypeInv, Next
    PROVE  \E w \in Workers :
            /\ \A v \in Workers \ {w} : op'[v] = op[v]
            /\ op'[w].at \in {"grant", "ending", "reopening"}
                => op'[w].seen = commission[op'[w].sale] /\ commission' = commission
<1>1. PICK w \in Workers : (\E s \in Sales : Begin(w, s)) \/ Proceed(w) \/ Fail(w)
  BY DEF Next
<1> USE DEF TypeInv, TypeOK, Continue, Done, Idle
<1>2. CASE \E s \in Sales : Begin(w, s)
  <2>1. PICK s \in Sales : Begin(w, s)
    BY <1>2
  <2>2. CASE approve(w, s) \/ pay(w, s) \/ cancel(w, s) \/ syncSaleToTask(w, s)
    BY <2>2 DEF approve, pay, cancel, syncSaleToTask, Ready, Free
  <2>3. CASE ~(approve(w, s) \/ pay(w, s) \/ cancel(w, s) \/ syncSaleToTask(w, s))
    BY <2>1, <2>3
    DEF Begin, startReview, approveForTask, sendToTask, syncSaleToTask, CallbackRead,
      createConcluded, PickEvent, updateStatus,
        requestDocuments, resubmitDocuments, Decide, reopen
  <2> QED
    BY <2>2, <2>3
<1>3. CASE Proceed(w)
  <2>1. CASE ReadCommission(w)
    BY <2>1 DEF ReadCommission, AfterCommission
  <2>2. CASE BeginEnd(w)
    BY <2>2 DEF BeginEnd
  <2>3. CASE BeginReopen(w)
    BY <2>3 DEF BeginReopen
  <2>4. CASE GrantCommission(w) \/ HandleEvent(w) \/ CallbackComplete(w)
    BY <2>4 DEF GrantCommission, AfterCommission, HandleEvent, CallbackComplete
  <2>5. CASE CallbackUpdate(w) \/ SettleEvent(w) \/ WriteStatus(w) \/ RefuseEnd(w)
             \/ EndSale(w) \/ ReopenSale(w) \/ WriteReview(w) \/ HandOver(w)
    BY <2>5 DEF WriteReview, HandOver, CallbackUpdate, SettleEvent, WriteStatus, RefuseEnd, EndSale, ReopenSale
  <2> QED
    BY <1>3, <2>1, <2>2, <2>3, <2>4, <2>5 DEF Proceed
<1>4. CASE Fail(w)
  BY <1>4 DEF Fail, CommissionFails, EventFails, Crash
<1> QED
  BY <1>1, <1>2, <1>3, <1>4

LEMMA RowsNext == TypeInv /\ ReadRowsExist /\ [Next]_vars => ReadRowsExist'
<1> SUFFICES ASSUME TypeInv, ReadRowsExist, [Next]_vars PROVE ReadRowsExist'
  OBVIOUS
<1>1. CASE Next
  <2>1. PICK w \in Workers :
            /\ \A v \in Workers \ {w} : op'[v] = op[v]
            /\ op'[w].at \in {"grant", "ending", "reopening"}
                => op'[w].seen = commission[op'[w].sale] /\ commission' = commission
    BY <1>1, ReadingsAreTaken
  <2>2. ASSUME NEW v \in Workers,
               op'[v].at \in {"grant", "ending", "reopening"}, op'[v].seen # "NONE"
        PROVE  commission'[op'[v].sale] # "NONE"
    <3>1. CASE v = w
      BY <2>1, <2>2, <3>1
    <3>2. CASE v # w
      <4>1. op'[v] = op[v]
        BY <2>1, <3>2
      <4>2. op[v].sale \in Sales
        BY <2>2, <4>1, OperationFields DEF TypeInv
      <4> QED
        BY <1>1, <2>2, <4>1, <4>2, RowsStay DEF ReadRowsExist
    <3> QED
      BY <3>1, <3>2
  <2> QED
    BY <2>2 DEF ReadRowsExist
<1>2. CASE UNCHANGED vars
  BY <1>2 DEF vars, ReadRowsExist
<1> QED
  BY <1>1, <1>2

LEMMA LedgerInit == Init => Ledger!Init
<1> SUFFICES ASSUME Init PROVE Ledger!Init
  OBVIOUS
<1>1. \A s \in Sales : status[s] # "ACTIVATED"
  BY DEF Init
<1>2. \A s \in Sales, w \in Workers : ~HoldsReading(w, s)
  BY DEF Init, HoldsReading, Idle
<1> QED
  BY <1>1, <1>2 DEF Init, Ledger!Init

\* Every step leaves the commissions as they are or is a step of the ledger.
LEMMA LedgerStep ==
    ASSUME TypeInv, ReadRowsExist, Next
    PROVE  Ledger!Next
<1>1. PICK w \in Workers : (\E s \in Sales : Begin(w, s)) \/ Proceed(w) \/ Fail(w)
  BY DEF Next
<1>2. Ledger!Around
  BY DEF Ledger!Around
<1>3. Ledger!Change
  <2>1. CASE UNCHANGED commission
    BY <2>1 DEF Ledger!Change
  <2>2. ASSUME NEW s \in Sales, approve(w, s) \/ pay(w, s) \/ cancel(w, s)
        PROVE  Ledger!Change
    BY <2>2 DEF approve, pay, cancel, Ledger!Change, Ledger!Approve, Ledger!Pay,
                Ledger!Cancel, Ledger!Set, TypeInv, TypeOK, CommissionState
  <2>3. CASE GrantCommission(w)
    <3> DEFINE s == op[w].sale
    <3>1. /\ s \in Sales
          /\ commission' = [commission EXCEPT ![s] = "FORECAST"]
          /\ op[w].at = "grant"
          /\ op[w].seen = "NONE" \/ op[w].seen = "CANCELLED"
          /\ op[w].seen = "NONE" => commission[s] = "NONE"
      BY <2>3, OperationFields DEF TypeInv, GrantCommission, CanGrant, At, Void
    <3>2. CASE op[w].seen = "NONE"
      BY <3>1, <3>2 DEF Ledger!Change, Ledger!Forecast, Ledger!Set
    <3>3. CASE op[w].seen = "CANCELLED"
      <4>1. HoldsReading(w, s) /\ commission[s] # "NONE"
        BY <3>1, <3>3 DEF HoldsReading, ReadRowsExist
      <4> QED
        BY <3>1, <4>1 DEF Ledger!Change, Ledger!Overwrite, Ledger!Set
    <3> QED
      BY <3>1, <3>2, <3>3
  <2>4. CASE EndSale(w) \/ ReopenSale(w)
    <3> DEFINE s == op[w].sale
    <3>1. /\ s \in Sales
          /\ op[w].at \in {"ending", "reopening"}
          /\ op[w].seen \in CommissionState
          /\ CancelSeen(s, op[w].seen)
      BY <2>4, OperationFields DEF TypeInv, EndSale, ReopenSale, At
    <3>2. CASE op[w].seen \in Void \cup {"PAID"}
      BY <2>1, <3>1, <3>2 DEF CancelSeen
    <3>3. CASE op[w].seen \in {"FORECAST", "APPROVED"}
      <4>1. HoldsReading(w, s) /\ commission[s] # "NONE"
        BY <3>1, <3>3 DEF HoldsReading, ReadRowsExist
      <4>2. commission' = [commission EXCEPT ![s] = "CANCELLED"]
        BY <3>1, <3>3 DEF CancelSeen, Void
      <4> QED
        BY <3>1, <4>1, <4>2 DEF Ledger!Change, Ledger!Overwrite, Ledger!Set
    <3> QED
      BY <3>1, <3>2, <3>3 DEF CommissionState, Void
  <2> QED
    BY <1>1, <2>1, <2>2, <2>3, <2>4
    DEF Begin, startReview, approveForTask, sendToTask, syncSaleToTask, CallbackRead,
      createConcluded, PickEvent, updateStatus, requestDocuments,
        resubmitDocuments, Decide, reopen,
        Proceed, WriteReview, HandOver, CallbackUpdate, CallbackComplete, ReadCommission,
        HandleEvent, SettleEvent, WriteStatus, RefuseEnd, BeginEnd, BeginReopen,
        Fail, CommissionFails, EventFails, Crash
<1> QED
  BY <1>2, <1>3 DEF Ledger!Next

LEMMA LedgerStutter ==
    UNCHANGED vars => UNCHANGED Ledger!ledger
  BY DEF vars, Ledger!ledger, HoldsReading

\* The settlement of sales implements the ledger of commissions: approvals
\* and payments happen one after the other and while the sale is activated,
\* and a payment is only lost to an operation that read it before.
THEOREM LedgerImplemented == Spec => LedgerSpec
<1>1. TypeInv /\ ReadRowsExist /\ [Next]_vars => [Ledger!Next]_(Ledger!ledger)
  BY LedgerStep, LedgerStutter
<1> QED
  BY TypeInit, TypeNext, RowsInit, RowsNext, LedgerInit, <1>1, PTL
  DEF Spec, LedgerSpec, Ledger!Spec

(***************************************************************************)
(* Operations that do not overlap on a sale: any sales, any workers, and   *)
(* any failures                                                            *)
(***************************************************************************)

Alone ==
    \A v, w \in Workers : v = w \/ Free(v) \/ Free(w) \/ op[v].sale # op[w].sale

\* Nothing happens to the other sales.
Elsewhere(s) ==
    \A q \in Sales \ {s} :
        UNCHANGED <<status[q], review[q], task[q], stage[q], commission[q], event[q]>>

\* No operation finds its sale changed by another one since it began.
Undisturbed ==
    \A w \in Workers :
        ~Free(w) /\ op'[w] = op[w]
        => LET s == op[w].sale IN
            UNCHANGED <<status[s], review[s], task[s], stage[s], commission[s], event[s]>>


\* A step of a worker leaves the operations of the others.
LEMMA OthersRest ==
    ASSUME TypeInv, NEW w \in Workers,
           (\E s \in Sales : Begin(w, s)) \/ Proceed(w) \/ Fail(w)
    PROVE  \A v \in Workers \ {w} : op'[v] = op[v]
<1>1. (\E o : Continue(w, o)) \/ op' = op
  <2>1. CASE \E s \in Sales : Begin(w, s)
    BY <2>1 DEF Begin, startReview, approveForTask, sendToTask, syncSaleToTask, CallbackRead,
      createConcluded, PickEvent, updateStatus, requestDocuments,
      resubmitDocuments, Decide, reopen, approve, pay, cancel
  <2>2. CASE Proceed(w)
    BY <2>2 DEF Proceed, WriteReview, HandOver, CallbackUpdate, CallbackComplete, ReadCommission, GrantCommission,
      AfterCommission, HandleEvent, SettleEvent, WriteStatus, RefuseEnd, BeginEnd, EndSale,
      BeginReopen, ReopenSale, Done
  <2>3. CASE Fail(w)
    BY <2>3 DEF Fail, CommissionFails, EventFails, Crash, Done
  <2> QED
    BY <2>1, <2>2, <2>3
<1> QED
  BY <1>1 DEF Continue, TypeInv, TypeOK

\* The steps of a worker that is not free go on to another point.
LEMMA StepsMove ==
    ASSUME TypeInv, NEW w \in Workers, ~Free(w),
           (\E s \in Sales : Begin(w, s)) \/ Proceed(w) \/ Fail(w)
    PROVE  op'[w] # op[w]
<1>1. ~\E s \in Sales : Begin(w, s)
  BY DEF Begin, startReview, approveForTask, sendToTask, syncSaleToTask, CallbackRead,
      createConcluded, PickEvent, updateStatus, requestDocuments,
    resubmitDocuments, Decide, reopen, approve, pay, cancel, Ready
<1>2. (\E o : Continue(w, o) /\ o.at # op[w].at) \/ Done(w)
  <2>1. CASE Proceed(w)
    BY <2>1 DEF Proceed, WriteReview, HandOver, CallbackUpdate, CallbackComplete, ReadCommission, GrantCommission,
      AfterCommission, HandleEvent, SettleEvent, WriteStatus, RefuseEnd, BeginEnd, EndSale,
      BeginReopen, ReopenSale, At
  <2>2. CASE Fail(w)
    BY <2>2 DEF Fail, CommissionFails, EventFails, Crash
  <2> QED
    BY <1>1, <2>1, <2>2
<1> QED
  BY <1>2 DEF Done, Continue, Free, TypeInv, TypeOK

\* An operation is about one sale from its first step to its last.
LEMMA BeginElsewhere ==
    ASSUME TypeInv, NEW w \in Workers, NEW s \in Sales, Begin(w, s)
    PROVE  /\ Ready(w, s)
           /\ Elsewhere(s)
           /\ op'[w] = Idle \/ op'[w].sale = s
<1> USE DEF TypeInv, TypeOK, Elsewhere
<1>1. CASE \E concluded \in BOOLEAN : CallbackRead(w, s, concluded)
  BY <1>1 DEF CallbackRead, Continue
<1>2. CASE createConcluded(w, s)
  BY <1>2 DEF createConcluded, Continue
<1>3. CASE PickEvent(w, s)
  BY <1>3 DEF PickEvent, Continue
<1>4. ASSUME NEW target, Decide(w, s, target)
      PROVE  /\ Ready(w, s)
             /\ Elsewhere(s)
             /\ op'[w] = Idle \/ op'[w].sale = s
  BY <1>4 DEF Decide, Continue
<1>5. CASE reopen(w, s)
  BY <1>5 DEF reopen, Continue
<1>6. CASE approve(w, s) \/ pay(w, s) \/ cancel(w, s)
  BY <1>6 DEF approve, pay, cancel, Ready, Free
<1>7. CASE startReview(w, s) \/ approveForTask(w, s) \/ sendToTask(w, s)
  BY <1>7 DEF startReview, approveForTask, sendToTask, Continue
<1>8. CASE syncSaleToTask(w, s)
  BY <1>8 DEF syncSaleToTask, Ready, Free
<1> QED
  BY <1>1, <1>2, <1>3, <1>4, <1>5, <1>6, <1>7, <1>8
  DEF Begin, updateStatus, requestDocuments, resubmitDocuments

LEMMA ProceedElsewhere ==
    ASSUME TypeInv, NEW w \in Workers, Proceed(w) \/ Fail(w)
    PROVE  /\ ~Free(w)
           /\ op[w].sale \in Sales
           /\ Elsewhere(op[w].sale)
           /\ op'[w] = Idle \/ op'[w].sale = op[w].sale
<1> USE DEF TypeInv, TypeOK, Elsewhere
<1>1. op[w].at # "idle" \/ ~Free(w)
  BY DEF Proceed, Fail, WriteReview, HandOver, CallbackUpdate, CallbackComplete, ReadCommission, GrantCommission,
    HandleEvent, SettleEvent, WriteStatus, RefuseEnd, BeginEnd, EndSale, BeginReopen, ReopenSale,
    CommissionFails, EventFails, Crash, At
<1>2. ~Free(w) /\ op[w].sale \in Sales
  BY <1>1, OperationFields DEF TypeInv
<1>3. CASE CallbackUpdate(w) \/ CallbackComplete(w)
  BY <1>2, <1>3 DEF CallbackUpdate, CallbackComplete, enqueueOutboxEvent, Done, Continue
<1>4. CASE ReadCommission(w) \/ GrantCommission(w)
  BY <1>2, <1>4 DEF ReadCommission, GrantCommission, AfterCommission, Done, Continue
<1>5. CASE HandleEvent(w) \/ SettleEvent(w)
  BY <1>2, <1>5 DEF HandleEvent, SettleEvent, Done, Continue
<1>6. CASE WriteStatus(w) \/ RefuseEnd(w) \/ BeginEnd(w) \/ EndSale(w)
  BY <1>2, <1>6 DEF WriteStatus, RefuseEnd, BeginEnd, EndSale, CancelSeen, Done, Continue
<1>7. CASE BeginReopen(w) \/ ReopenSale(w)
  BY <1>2, <1>7 DEF BeginReopen, ReopenSale, CancelSeen, Done, Continue
<1>8. CASE WriteReview(w) \/ HandOver(w)
  BY <1>2, <1>8 DEF WriteReview, HandOver, Done, Continue
<1>9. CASE Fail(w)
  BY <1>2, <1>9 DEF Fail, CommissionFails, EventFails, Crash, Done, Continue
<1> QED
  BY <1>2, <1>3, <1>4, <1>5, <1>6, <1>7, <1>8, <1>9 DEF Proceed

LEMMA AloneInit == Init => Alone
  BY DEF Init, Alone, Free

LEMMA AloneNext ==
    ASSUME TypeInv, Alone, ~Overlap, [Next]_vars
    PROVE  Alone' /\ (Undisturbed \/ UNCHANGED vars)
<1>1. CASE UNCHANGED vars
  BY <1>1 DEF vars, Alone, Free
<1>2. CASE Next
  <2>1. PICK w \in Workers : (\E s \in Sales : Begin(w, s)) \/ Proceed(w) \/ Fail(w)
    BY <1>2 DEF Next
  <2>2. PICK s \in Sales :
            /\ IF Free(w) THEN ~Busy(s) ELSE op[w].sale = s
            /\ Elsewhere(s)
            /\ op'[w] = Idle \/ op'[w].sale = s
    BY <2>1, BeginElsewhere, ProceedElsewhere DEF Ready
  <2>3. \A v \in Workers \ {w} : op'[v] = op[v]
    BY <2>1, OthersRest
  <2>4. \A v \in Workers \ {w} : Free(v) \/ op[v].sale \in Sales \ {s}
    <3>1. \A v \in Workers : Free(v) \/ op[v].sale \in Sales
      BY OperationFields DEF TypeInv
    <3>2. \A v \in Workers \ {w} : Free(v) \/ op[v].sale # s
      BY <2>2 DEF Alone, Busy
    <3> QED
      BY <3>1, <3>2
  <2>5. Alone'
    BY <2>2, <2>3, <2>4 DEF Alone, Free
  <2>6. ~Free(w) /\ op'[w] = op[w] => FALSE
    BY <2>1, StepsMove
  <2>7. Undisturbed
    BY <2>2, <2>3, <2>4, <2>6 DEF Undisturbed, Elsewhere
  <2> QED
    BY <2>5, <2>7
<1> QED
  BY <1>1, <1>2

\* What an operation read or decided is still so when it writes.
StillTrue(w) ==
    LET s == op[w].sale IN
        /\ At(w, "callback") /\ op[w].completes => status[s] \notin Ended
        /\ op[w].at \in {"commission", "grant"} => status[s] = "ACTIVATED"
        /\ op[w].at \in {"grant", "ending", "reopening"} => op[w].seen = commission[s]
        /\ At(w, "ending") => op[w].seen # "PAID"
        /\ At(w, "decided")
            => status[s] \in SaleStatus /\ op[w].target \in STATUS_TRANSITIONS[status[s]]

\* No commission is left behind by the status of its sale.
Matched == LiveCommissionIsActive /\ EndedSaleOwesNothing

SerialInv == Matched /\ \A w \in Workers : StillTrue(w)

\* No step loses a payment or revives an ended sale.
Kept ==
    \A s \in Sales :
        /\ commission[s] = "PAID" => commission'[s] = "PAID"
        /\ status[s] \in Ended => status'[s] # "ACTIVATED"

\* The operation of another worker rests, and its sale with it.
LEMMA OthersStillTrue ==
    ASSUME SerialInv, Undisturbed, NEW v \in Workers, op'[v] = op[v]
    PROVE  StillTrue(v)'
<1>1. StillTrue(v)
  BY DEF SerialInv
<1>2. CASE Free(v)
  BY <1>2 DEF Free, Idle, StillTrue, At
<1>3. CASE ~Free(v)
  <2>1. LET s == op[v].sale IN status'[s] = status[s] /\ commission'[s] = commission[s]
    BY <1>3 DEF Undisturbed
  <2> QED
    BY <1>1, <2>1 DEF StillTrue, At
<1> QED
  BY <1>2, <1>3

LEMMA SerialInit == Init => SerialInv
<1> SUFFICES ASSUME Init PROVE SerialInv
  OBVIOUS
<1>1. \A w \in Workers : op[w].at = "idle"
  BY DEF Init, Idle
<1> QED
  BY <1>1
  DEF Init, SerialInv, Matched, StillTrue, LiveCommissionIsActive, EndedSaleOwesNothing, Void,
      At, Ended

LEMMA SerialBegin ==
    ASSUME TypeInv, SerialInv, NEW w \in Workers, NEW s \in Sales, Begin(w, s)
    PROVE  StillTrue(w)' /\ Matched' /\ Kept
<1> USE DEF TypeInv, TypeOK, SerialInv, Matched, StillTrue, At, Continue, Kept,
            LiveCommissionIsActive, EndedSaleOwesNothing
<1> DEFINE Safe == StillTrue(w)' /\ Matched' /\ Kept
<1>1. ASSUME NEW concluded \in BOOLEAN, CallbackRead(w, s, concluded)
      PROVE  Safe
  BY <1>1 DEF CallbackRead, SaleLocked, Ended
<1>2. CASE createConcluded(w, s)
  BY <1>2 DEF createConcluded, Ended
<1>3. CASE PickEvent(w, s)
  BY <1>3 DEF PickEvent, Ended
<1>4. ASSUME NEW target, Decide(w, s, target)
      PROVE  Safe
  BY <1>4 DEF Decide, Ended
<1>5. CASE reopen(w, s)
  BY <1>5 DEF reopen, Ended
<1>6. CASE approve(w, s) \/ pay(w, s) \/ cancel(w, s)
  BY <1>6 DEF approve, pay, cancel, Ready, Free, Idle, Ended, Void
<1>7. CASE startReview(w, s) \/ approveForTask(w, s) \/ sendToTask(w, s)
  BY <1>7 DEF startReview, approveForTask, sendToTask, Ended
<1>8. CASE syncSaleToTask(w, s)
  BY <1>8 DEF syncSaleToTask, Ready, Free, Idle, Ended
<1> QED
  BY <1>1, <1>2, <1>3, <1>4, <1>5, <1>6, <1>7, <1>8
  DEF Begin, updateStatus, requestDocuments, resubmitDocuments

LEMMA SerialProceed ==
    ASSUME TypeInv, SerialInv, NEW w \in Workers, Proceed(w)
    PROVE  StillTrue(w)' /\ Matched' /\ Kept
<1> USE DEF TypeInv, TypeOK, SerialInv, Matched, StillTrue, At, Continue, Done, Idle,
            Kept, LiveCommissionIsActive, EndedSaleOwesNothing
<1> DEFINE s == op[w].sale
<1>1. op[w].at # "idle" => s \in Sales
  BY OperationFields
<1>2. CASE CallbackUpdate(w)
  BY <1>2 DEF CallbackUpdate, Ended
<1>3. CASE CallbackComplete(w)
  BY <1>1, <1>3 DEF CallbackComplete, Ended
<1>4. CASE ReadCommission(w)
  BY <1>1, <1>4 DEF ReadCommission, AfterCommission, Ended
<1>5. CASE GrantCommission(w)
  BY <1>1, <1>5, OperationFields DEF GrantCommission, AfterCommission, Void, Ended
<1>6. CASE HandleEvent(w)
  BY <1>1, <1>6 DEF HandleEvent, Payable, Ended
<1>7. CASE SettleEvent(w)
  BY <1>7 DEF SettleEvent, Ended
<1>8. CASE WriteStatus(w)
  <2>1. s \in Sales /\ status[s] \in SaleStatus /\ op[w].target \notin Ended
    BY <1>1, <1>8 DEF WriteStatus
  <2>2. status[s] \notin Ended /\ status[s] # "ACTIVATED"
    BY <1>8, <2>1, Transitions DEF WriteStatus, Ended
  <2>3. commission[s] \notin {"FORECAST", "APPROVED"}
    BY <2>1, <2>2
  <2>4. /\ status' = [status EXCEPT ![s] = op[w].target]
        /\ op' = [op EXCEPT ![w] = Idle]
        /\ commission' = commission
    BY <1>8 DEF WriteStatus
  <2>5. Matched'
    BY <2>1, <2>3, <2>4
  <2>6. StillTrue(w)'
    BY <2>4
  <2> QED
    BY <2>1, <2>2, <2>4, <2>5, <2>6 DEF Ended
<1>9. CASE RefuseEnd(w)
  BY <1>9 DEF RefuseEnd, Ended
<1>10. CASE BeginEnd(w)
  BY <1>10 DEF BeginEnd, EndRefused, Ended
<1>11. CASE EndSale(w)
  <2>1. /\ s \in Sales
        /\ op[w].target \in Ended
        /\ status' = [status EXCEPT ![s] = op[w].target]
        /\ op' = [op EXCEPT ![w] = Idle]
    BY <1>1, <1>11, OperationFields DEF EndSale
  <2>2. /\ commission[s] \in CommissionState \ {"PAID"}
        /\ CancelSeen(s, commission[s])
    BY <1>11, <2>1 DEF EndSale
  <2>3. /\ commission'[s] \in Void
        /\ \A r \in Sales \ {s} : commission'[r] = commission[r]
    BY <2>1, <2>2 DEF CancelSeen, Void, CommissionState
  <2>4. StillTrue(w)'
    BY <2>1
  <2> QED
    BY <2>1, <2>2, <2>3, <2>4 DEF Void, Ended
<1>12. CASE BeginReopen(w)
  BY <1>12 DEF BeginReopen, Ended
<1>13. CASE ReopenSale(w)
  <2>1. /\ s \in Sales
        /\ status' = [status EXCEPT ![s] = "IN_ANALYSIS"]
        /\ op' = [op EXCEPT ![w] = Idle]
    BY <1>1, <1>13 DEF ReopenSale
  <2>2. /\ commission[s] \in CommissionState
        /\ CancelSeen(s, commission[s])
    BY <1>13, <2>1 DEF ReopenSale
  <2>3. /\ commission'[s] \in Void \cup {"PAID"}
        /\ commission[s] = "PAID" => commission'[s] = "PAID"
        /\ \A r \in Sales \ {s} : commission'[r] = commission[r]
    BY <2>1, <2>2 DEF CancelSeen, Void, CommissionState
  <2>4. StillTrue(w)'
    BY <2>1
  <2> QED
    BY <2>1, <2>2, <2>3, <2>4 DEF Void, Ended
<1>14. CASE WriteReview(w) \/ HandOver(w)
  BY <1>14 DEF WriteReview, HandOver, Ended
<1> QED
  BY <1>2, <1>3, <1>4, <1>5, <1>6, <1>7, <1>8, <1>9, <1>10, <1>11, <1>12, <1>13,
     <1>14
  DEF Proceed

LEMMA SerialFail ==
    ASSUME TypeInv, SerialInv, NEW w \in Workers, Fail(w)
    PROVE  StillTrue(w)' /\ Matched' /\ Kept
<1>1. op' = [op EXCEPT ![w] = Idle] /\ UNCHANGED <<status, commission>>
  BY DEF Fail, CommissionFails, EventFails, Crash, Done, Continue
<1> QED
  BY <1>1
  DEF TypeInv, TypeOK, SerialInv, Matched, StillTrue, At, Idle, Kept, Ended,
      LiveCommissionIsActive, EndedSaleOwesNothing

LEMMA SerialNext ==
    ASSUME TypeInv, SerialInv, [Next /\ Undisturbed]_vars
    PROVE  SerialInv' /\ (Kept \/ UNCHANGED vars)
<1>1. CASE Next /\ Undisturbed
  <2>1. PICK w \in Workers : (\E s \in Sales : Begin(w, s)) \/ Proceed(w) \/ Fail(w)
    BY <1>1 DEF Next
  <2>2. StillTrue(w)' /\ Matched' /\ Kept
    BY <2>1, SerialBegin, SerialProceed, SerialFail
  <2>3. \A v \in Workers \ {w} : StillTrue(v)'
    BY <1>1, <2>1, OthersRest, OthersStillTrue
  <2> QED
    BY <2>2, <2>3 DEF SerialInv
<1>2. CASE UNCHANGED vars
  BY <1>2
  DEF vars, SerialInv, Matched, StillTrue, At, LiveCommissionIsActive, EndedSaleOwesNothing
<1> QED
  BY <1>1, <1>2

LEMMA SerialStep ==
    ASSUME ~Overlap
    PROVE  TypeInv /\ Alone /\ SerialInv /\ [Next]_vars
           => TypeInv' /\ Alone' /\ SerialInv' /\ (Kept \/ UNCHANGED vars)
<1> SUFFICES ASSUME TypeInv, Alone, SerialInv, [Next]_vars
             PROVE  TypeInv' /\ Alone' /\ SerialInv' /\ (Kept \/ UNCHANGED vars)
  OBVIOUS
<1>1. Alone' /\ [Next /\ Undisturbed]_vars
  BY AloneNext
<1> QED
  BY <1>1, TypeNext, SerialNext

\* While operations on a sale do not overlap, on however many sales the workers
\* are busy and whatever fails, a commission that can still be paid belongs to
\* an activated sale, and a sale that ended owes nothing.
THEOREM SettledWithoutOverlap == ~Overlap => (Spec => []CommissionMatchesStatus)
<1> SUFFICES ASSUME ~Overlap
             PROVE  Spec => []CommissionMatchesStatus
  OBVIOUS
<1>1. TypeInv /\ Alone /\ SerialInv /\ [Next]_vars => TypeInv' /\ Alone' /\ SerialInv'
  BY SerialStep
<1>2. SerialInv => CommissionMatchesStatus
  BY DEF SerialInv, Matched, CommissionMatchesStatus
<1> QED
  BY TypeInit, AloneInit, SerialInit, <1>1, <1>2, PTL DEF Spec

\* While operations on a sale do not overlap, no step takes a payment back.
THEOREM PaidWithoutOverlap == ~Overlap => (Spec => PaidStaysPaid)
<1> SUFFICES ASSUME ~Overlap
             PROVE  Spec => PaidStaysPaid
  OBVIOUS
<1>1. TypeInv /\ Alone /\ SerialInv /\ [Next]_vars => TypeInv' /\ Alone' /\ SerialInv'
  BY SerialStep
<1>2. TypeInv /\ Alone /\ SerialInv /\ [Next]_vars
        => [\A s \in Sales : commission[s] = "PAID" => commission'[s] = "PAID"]_vars
  BY SerialStep DEF Kept
<1> QED
  BY TypeInit, AloneInit, SerialInit, <1>1, <1>2, PTL DEF Spec, PaidStaysPaid

\* While operations on a sale do not overlap, no callback revives a cancelled or
\* rejected sale.
THEOREM EndedWithoutOverlap == ~Overlap => (Spec => EndedSaleNotRevived)
<1> SUFFICES ASSUME ~Overlap
             PROVE  Spec => EndedSaleNotRevived
  OBVIOUS
<1>1. TypeInv /\ Alone /\ SerialInv /\ [Next]_vars => TypeInv' /\ Alone' /\ SerialInv'
  BY SerialStep
<1>2. TypeInv /\ Alone /\ SerialInv /\ [Next]_vars
        => [\A s \in Sales : status[s] \in Ended => status'[s] # "ACTIVATED"]_vars
  BY SerialStep DEF Kept
<1> QED
  BY TypeInit, AloneInit, SerialInit, <1>1, <1>2, PTL DEF Spec, EndedSaleNotRevived

\* What an operation under way has seen of a sale that is activated.
StillSettled(w) ==
    LET s == op[w].sale IN
        /\ At(w, "callback") /\ ~op[w].completes /\ status[s] = "ACTIVATED"
            => op[w].stage = "COMPLETED" \/ s \in Rows
        /\ op[w].at \in {"reviewing", "approving"} => status[s] # "ACTIVATED"
        /\ At(w, "sending") => status[s] # "ACTIVATED" \/ s \in Rows
        /\ At(w, "settle") => status[s] # "ACTIVATED" \/ commission[s] # "NONE"

\* The event is there during operations as well, until the commission is.
Settled ==
    /\ ActivatedIsCompleted
    /\ \A s \in Sales :
        status[s] = "ACTIVATED" => review[s] = "APPROVED" /\ (s \in Rows \/ task[s] = "LINKED")
    /\ \A s \in Sales \ Rows :
        status[s] = "ACTIVATED" /\ commission[s] = "NONE"
        => event[s].state \in {"PENDING", "FAILED"}

SettledInv == Settled /\ \A w \in Workers : StillSettled(w)

LEMMA OthersStillSettled ==
    ASSUME SettledInv, Undisturbed, NEW v \in Workers, op'[v] = op[v]
    PROVE  StillSettled(v)'
<1>1. StillSettled(v)
  BY DEF SettledInv
<1>2. CASE Free(v)
  BY <1>2 DEF Free, Idle, StillSettled, At
<1>3. CASE ~Free(v)
  <2>1. LET s == op[v].sale IN status'[s] = status[s] /\ commission'[s] = commission[s]
    BY <1>3 DEF Undisturbed
  <2> QED
    BY <1>1, <2>1 DEF StillSettled, At
<1> QED
  BY <1>2, <1>3

LEMMA SettledInit == Init => SettledInv
<1> SUFFICES ASSUME Init PROVE SettledInv
  OBVIOUS
<1>1. \A w \in Workers : op[w].at = "idle"
  BY DEF Init, Idle
<1> QED
  BY <1>1 DEF Init, SettledInv, Settled, StillSettled, ActivatedIsCompleted, At

LEMMA SettledBegin ==
    ASSUME TypeInv, CoverInv, SettledInv, NEW w \in Workers, NEW s \in Sales, Begin(w, s)
    PROVE  StillSettled(w)' /\ Settled'
<1> USE DEF TypeInv, TypeOK, SettledInv, Settled, StillSettled, ActivatedIsCompleted, At, Continue
<1> DEFINE Safe == StillSettled(w)' /\ Settled'
<1>1. ASSUME NEW concluded \in BOOLEAN, CallbackRead(w, s, concluded)
      PROVE  Safe
  BY <1>1 DEF CallbackRead, SaleLocked
<1>2. CASE createConcluded(w, s)
  <2>1. s \in Rows
    BY <1>2 DEF createConcluded, CoverInv, Armed
  <2> QED
    BY <1>2, <2>1 DEF createConcluded
<1>3. CASE PickEvent(w, s)
  BY <1>3 DEF PickEvent
<1>4. ASSUME NEW target, Decide(w, s, target)
      PROVE  Safe
  BY <1>4 DEF Decide
<1>5. CASE reopen(w, s)
  BY <1>5 DEF reopen
<1>6. CASE approve(w, s) \/ pay(w, s) \/ cancel(w, s)
  BY <1>6 DEF approve, pay, cancel, Ready, Free, Idle
<1>7. CASE startReview(w, s) \/ approveForTask(w, s)
  BY <1>7 DEF startReview, approveForTask
<1>8. CASE sendToTask(w, s)
  BY <1>8 DEF sendToTask, MaySend
<1>9. CASE syncSaleToTask(w, s)
  BY <1>9 DEF syncSaleToTask, Ready, Free, Idle
<1> QED
  BY <1>1, <1>2, <1>3, <1>4, <1>5, <1>6, <1>7, <1>8, <1>9
  DEF Begin, updateStatus, requestDocuments, resubmitDocuments

LEMMA SettledProceed ==
    ASSUME TypeInv, CoverInv, SettledInv, NEW w \in Workers, Proceed(w)
    PROVE  StillSettled(w)' /\ Settled'
<1> USE DEF TypeInv, TypeOK, SettledInv, Settled, StillSettled, ActivatedIsCompleted, At,
            Continue, Done, Idle
<1> DEFINE s == op[w].sale
<1>1. op[w].at # "idle" => s \in Sales
  BY OperationFields
<1>2. CASE CallbackUpdate(w)
  BY <1>1, <1>2 DEF CallbackUpdate
<1>3. CASE CallbackComplete(w)
  BY <1>1, <1>3 DEF CallbackComplete, enqueueOutboxEvent
<1>4. CASE ReadCommission(w)
  BY <1>1, <1>4 DEF ReadCommission, AfterCommission, Void
<1>5. CASE GrantCommission(w)
  BY <1>1, <1>5 DEF GrantCommission, AfterCommission
<1>6. CASE HandleEvent(w)
  BY <1>1, <1>6 DEF HandleEvent, Payable
<1>7. CASE SettleEvent(w)
  BY <1>1, <1>7 DEF SettleEvent
<1>8. CASE WriteStatus(w)
  BY <1>1, <1>8 DEF WriteStatus, CoverInv, NoDecidedActivation
<1>9. CASE RefuseEnd(w) \/ BeginEnd(w) \/ BeginReopen(w)
  BY <1>9 DEF RefuseEnd, BeginEnd, BeginReopen
<1>10. CASE EndSale(w)
  BY <1>1, <1>10, OperationFields DEF EndSale, CancelSeen, Ended
<1>11. CASE ReopenSale(w)
  BY <1>1, <1>11 DEF ReopenSale, CancelSeen
<1>12. CASE WriteReview(w)
  BY <1>1, <1>12 DEF WriteReview
<1>13. CASE HandOver(w)
  <2>1. s \in Sales /\ (status[s] # "ACTIVATED" \/ (At(w, "sending") /\ s \in Rows))
    BY <1>1, <1>13 DEF HandOver
  <2>2. task'[s] \in {"SENT", "LINKED"} \/ ~At(w, "sending")
    BY <1>13, <2>1 DEF HandOver, TaskState
  <2>3. /\ review'[s] = "APPROVED"
        /\ \A q \in Sales \ {s} : review'[q] = review[q] /\ task'[q] = task[q] /\ stage'[q] = stage[q]
        /\ UNCHANGED <<status, commission, event>>
        /\ op' = [op EXCEPT ![w] = Idle]
    BY <1>13, <2>1 DEF HandOver
  <2> QED
    BY <2>1, <2>2, <2>3
<1> QED
  BY <1>2, <1>3, <1>4, <1>5, <1>6, <1>7, <1>8, <1>9, <1>10, <1>11, <1>12, <1>13 DEF Proceed

LEMMA SettledFail ==
    ASSUME TypeInv, SettledInv, NEW w \in Workers, Fail(w)
    PROVE  StillSettled(w)' /\ Settled'
<1> USE DEF TypeInv, TypeOK, SettledInv, Settled, StillSettled, ActivatedIsCompleted, At,
            Continue, Done, Idle
<1>1. CASE CommissionFails(w) \/ Crash(w)
  BY <1>1 DEF CommissionFails, Crash
<1>2. CASE EventFails(w)
  <2>1. op[w].sale \in Sales
    BY <1>2, OperationFields DEF EventFails
  <2> QED
    BY <1>2, <2>1 DEF EventFails, AfterFailure
<1> QED
  BY <1>1, <1>2 DEF Fail

LEMMA SettledNext ==
    ASSUME TypeInv, CoverInv, SettledInv, [Next /\ Undisturbed]_vars
    PROVE  SettledInv'
<1>1. CASE Next /\ Undisturbed
  <2>1. PICK w \in Workers : (\E s \in Sales : Begin(w, s)) \/ Proceed(w) \/ Fail(w)
    BY <1>1 DEF Next
  <2>2. StillSettled(w)' /\ Settled'
    BY <2>1, SettledBegin, SettledProceed, SettledFail
  <2>3. \A v \in Workers \ {w} : StillSettled(v)'
    BY <1>1, <2>1, OthersRest, OthersStillSettled
  <2> QED
    BY <2>2, <2>3 DEF SettledInv
<1>2. CASE UNCHANGED vars
  BY <1>2 DEF vars, SettledInv, Settled, StillSettled, ActivatedIsCompleted, At
<1> QED
  BY <1>1, <1>2

\* While operations on a sale do not overlap, whatever fails or crashes between
\* two steps: an activated sale is at the last stage of its contract, and one
\* that the Task concluded has its commission or an event that is pending or
\* gave up.
THEOREM ActivationSettled == ~Overlap => (Spec => []ActivatedIsSettled)
<1> SUFFICES ASSUME ~Overlap
             PROVE  Spec => []ActivatedIsSettled
  OBVIOUS
<1>1. TypeInv /\ Alone /\ CoverInv /\ SettledInv /\ [Next]_vars
      => TypeInv' /\ Alone' /\ CoverInv' /\ SettledInv'
  <2> SUFFICES ASSUME TypeInv, Alone, CoverInv, SettledInv, [Next]_vars
               PROVE  TypeInv' /\ Alone' /\ CoverInv' /\ SettledInv'
    OBVIOUS
  <2>1. Alone' /\ [Next /\ Undisturbed]_vars
    BY AloneNext
  <2> QED
    BY <2>1, TypeNext, CoverNext, SettledNext
<1>2. SettledInv => ActivatedIsSettled
  BY DEF SettledInv, Settled, ActivatedIsSettled, ActivatedSaleHasCommission
<1> QED
  BY TypeInit, AloneInit, CoverInit, SettledInit, <1>1, <1>2, PTL DEF Spec

=============================================================================
