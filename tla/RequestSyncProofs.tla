-------------------------- MODULE RequestSyncProofs --------------------------
(***************************************************************************)
(* Theorems of RequestSync for any requests, workers, faults and bound.    *)
(***************************************************************************)
EXTENDS RequestSync, SequenceTheorems, TLAPS

\* The fields of an operation, by the point it has reached.
LEMMA OperationFields ==
    ASSUME NEW o \in Operation
    PROVE  /\ o = Idle <=> o.at = "idle"
           /\ o # Idle => o.request \in Requests
           /\ o.at \in {"polled", "applying"} => o.reported \in TaskStatus
           /\ o.at = "applying" => o.completed \in BOOLEAN
           /\ o.at \in {"updating", "responding", "dating"}
                => o.target \in RequestStatus /\ o.completed \in BOOLEAN
  BY DEF Operation, Idle

\* Every operation the actions build is one.
LEMMA OperationBuilt ==
    /\ Idle \in Operation
    /\ \A p \in {"looking", "linking", "failing", "retrying", "removing", "resolving"},
          r \in Requests : [at |-> p, request |-> r] \in Operation
    /\ \A r \in Requests, t \in TaskStatus :
        [at |-> "polled", request |-> r, reported |-> t] \in Operation
    /\ \A r \in Requests, t \in TaskStatus, c \in BOOLEAN :
        [at |-> "applying", request |-> r, reported |-> t, completed |-> c] \in Operation
    /\ \A p \in {"updating", "responding", "dating"}, r \in Requests, c \in BOOLEAN,
          s \in RequestStatus :
        [at |-> p, request |-> r, completed |-> c, target |-> s] \in Operation
  BY DEF Operation

\* An operation that goes on to its next point keeps its request.
LEMMA OperationMoves ==
    ASSUME NEW o \in Operation
    PROVE  /\ o.at = "looking" => \A p \in {"linking", "failing"} :
                /\ [o EXCEPT !.at = p] \in Operation
                /\ [o EXCEPT !.at = p].at = p
                /\ [o EXCEPT !.at = p].request = o.request
           /\ o.at = "updating" =>
                /\ [o EXCEPT !.at = "dating"] \in Operation
                /\ [o EXCEPT !.at = "dating"].at = "dating"
                /\ [o EXCEPT !.at = "dating"].request = o.request
<1>1. ASSUME o.at = "looking", NEW p \in {"linking", "failing"}
      PROVE  /\ [o EXCEPT !.at = p] \in Operation
             /\ [o EXCEPT !.at = p].at = p
             /\ [o EXCEPT !.at = p].request = o.request
  <2>1. o \in [at : {"looking", "linking", "failing"}, request : Requests]
    BY <1>1 DEF Operation, Idle
  <2> QED
    BY <2>1 DEF Operation
<1>2. ASSUME o.at = "updating"
      PROVE  /\ [o EXCEPT !.at = "dating"] \in Operation
             /\ [o EXCEPT !.at = "dating"].at = "dating"
             /\ [o EXCEPT !.at = "dating"].request = o.request
  <2>1. o \in [at : {"updating", "responding", "dating"}, request : Requests,
               completed : BOOLEAN, target : RequestStatus]
    BY <1>2 DEF Operation, Idle
  <2> QED
    BY <2>1 DEF Operation
<1> QED
  BY <1>1, <1>2

\* What is left of a channel is a channel.
LEMMA RemoveAtTyped ==
    ASSUME NEW S, NEW s \in Seq(S), NEW i \in DOMAIN s
    PROVE  s[i] \in S /\ RemoveAt(s, i) \in Seq(S)
<1>1. i \in 1 .. Len(s) /\ Len(s) \in Nat
  BY LenProperties
<1>2. \A j \in 1 .. Len(s) : s[j] \in S
  BY ElementOfSeq
<1>3. SubSeq(s, 1, i - 1) \in Seq(S)
  BY <1>1, <1>2, SubSeqProperties
<1>4. SubSeq(s, i + 1, Len(s)) \in Seq(S)
  BY <1>1, <1>2, SubSeqProperties
<1> QED
  BY <1>1, <1>2, <1>3, <1>4, ConcatProperties DEF RemoveAt

LEMMA MapTyped == \A t \in TaskStatus : mapTaskStatus(t) \in RequestStatus
  BY DEF mapTaskStatus, TaskStatus, RequestStatus

(***************************************************************************)
(* The inductive invariant                                                 *)
(***************************************************************************)

\* A demand exists only for a request that was opened and is to be sent, and
\* only a demand is reported on or linked.
RowsMatch ==
    \A r \in Requests :
        /\ status[r] = "ABSENT" => demand[r] = "NONE"
        /\ demand[r] # "NONE" => sync[r] # "DISABLED"
        /\ r \in linked => demand[r] # "NONE"
        /\ reports[r] # <<>> => demand[r] # "NONE"
        /\ Exists(r) /\ sync[r] = "SYNCED" => r \in linked

\* A worker of the queue works on a request that is to be sent; one about to
\* link or to apply a report knows that there is a demand.
Fits(o) ==
    o # Idle =>
        /\ status[o.request] # "ABSENT"
        /\ o.at \in {"retrying", "looking", "linking", "failing"} => sync[o.request] # "DISABLED"
        /\ o.at \in {"linking", "polled", "applying"} => demand[o.request] # "NONE"

RequestInv ==
    /\ TypeOK
    /\ RowsMatch
    /\ \A w \in Workers : Fits(op[w])

\* What a step may not take back of a request that was opened.
Keeps ==
    \A r \in Requests :
        /\ status[r] # "ABSENT" =>
            /\ status'[r] # "ABSENT"
            /\ sync[r] # "DISABLED" => sync'[r] # "DISABLED"
        /\ demand[r] # "NONE" => demand'[r] # "NONE"

LEMMA RequestInit == Init => RequestInv
<1> SUFFICES ASSUME Init
             PROVE  RequestInv
  OBVIOUS
<1>1. \A r \in Requests : reports[r] = <<>> /\ reports[r] \in Seq(TaskStatus)
  BY EmptySeq DEF Init
<1>2. TypeOK
  BY <1>1, OperationBuilt, RequestSyncAssumption DEF Init, TypeOK, NoRow, SyncState
<1>3. RowsMatch
  BY <1>1 DEF Init, RowsMatch, Exists, NoRow
<1>4. \A w \in Workers : Fits(op[w])
  BY DEF Init, Fits
<1> QED
  BY <1>2, <1>3, <1>4 DEF RequestInv

\* An operation goes on, and what the others rely on is kept.
LEMMA OperationGoesOn ==
    ASSUME RequestInv, Keeps, NEW w \in Workers, NEW o \in Operation, Continue(w, o)
    PROVE  /\ op' \in [Workers -> Operation]
           /\ Fits(o)' => \A v \in Workers : Fits(op[v])'
<1>1. op' = [op EXCEPT ![w] = o] /\ op \in [Workers -> Operation]
  BY DEF Continue, RequestInv, TypeOK
<1>2. ASSUME Fits(o)', NEW v \in Workers
      PROVE  Fits(op[v])'
  <2>1. CASE v = w
    BY <1>1, <1>2, <2>1 DEF Fits
  <2>2. CASE v # w
    <3>1. op'[v] = op[v] /\ Fits(op[v]) /\ op[v] \in Operation
      BY <1>1, <2>2 DEF RequestInv
    <3> QED
      BY <3>1, OperationFields DEF Fits, Keeps
  <2> QED
    BY <2>1, <2>2
<1> QED
  BY <1>1, <1>2

\* A step of a worker that writes no row.
LEMMA NoRowWritten ==
    ASSUME RequestInv, NEW w \in Workers, NEW o \in Operation, Continue(w, o), Fits(o),
           UNCHANGED <<weather, row, demand>>,
           reports' \in [Requests -> Seq(TaskStatus)],
           \A r \in Requests : reports'[r] # <<>> => demand[r] # "NONE"
    PROVE  RequestInv'
<1>1. Keeps
  BY DEF Keeps, row
<1>2. Fits(o)'
  BY DEF Fits, row
<1>3. op' \in [Workers -> Operation] /\ \A v \in Workers : Fits(op[v])'
  BY <1>1, <1>2, OperationGoesOn
<1>4. TypeOK'
  BY <1>3 DEF RequestInv, TypeOK, row
<1>5. RowsMatch'
  BY DEF RequestInv, RowsMatch, Exists, row
<1> QED
  BY <1>3, <1>4, <1>5 DEF RequestInv

\* A worker that ends an operation, having written to the row of request r
\* only what keeps the row in order.
LEMMA RowWritten ==
    ASSUME RequestInv, NEW w \in Workers, Continue(w, Idle),
           UNCHANGED <<weather, task>>, NEW r \in Requests, status[r] # "ABSENT",
           status' \in [Requests -> RequestStatus \cup NoRow],
           sync' \in [Requests -> SyncState],
           linked' \in SUBSET Requests,
           dated' \in SUBSET Requests,
           \A q \in Requests \ {r} :
                status'[q] = status[q] /\ sync'[q] = sync[q] /\ (q \in linked' <=> q \in linked),
           status'[r] # "ABSENT",
           sync[r] # "DISABLED" => sync'[r] # "DISABLED",
           r \in linked' => demand[r] # "NONE",
           status'[r] \notin NoRow /\ sync'[r] = "SYNCED" => r \in linked'
    PROVE  RequestInv'
<1>1. Keeps
  BY DEF Keeps, task
<1>2. Idle \in Operation /\ Fits(Idle)'
  BY OperationBuilt DEF Fits
<1>3. op' \in [Workers -> Operation] /\ \A v \in Workers : Fits(op[v])'
  BY <1>1, <1>2, OperationGoesOn
<1>4. TypeOK'
  BY <1>3 DEF RequestInv, TypeOK, task
<1>5. RowsMatch'
  <2> SUFFICES ASSUME NEW q \in Requests
               PROVE  /\ status'[q] = "ABSENT" => demand'[q] = "NONE"
                      /\ demand'[q] # "NONE" => sync'[q] # "DISABLED"
                      /\ q \in linked' => demand'[q] # "NONE"
                      /\ reports'[q] # <<>> => demand'[q] # "NONE"
                      /\ Exists(q)' /\ sync'[q] = "SYNCED" => q \in linked'
    BY DEF RowsMatch
  <2>1. CASE q = r
    BY <2>1 DEF RequestInv, RowsMatch, Exists, task
  <2>2. CASE q # r
    BY <2>2 DEF RequestInv, RowsMatch, Exists, task
  <2> QED
    BY <2>1, <2>2
<1> QED
  BY <1>3, <1>4, <1>5 DEF RequestInv

\* What a worker that is not idle works on was opened.
LEMMA Underway ==
    ASSUME RequestInv, NEW w \in Workers, op[w].at # "idle"
    PROVE  /\ op[w] \in Operation
           /\ op[w] # Idle
           /\ op[w].request \in Requests
           /\ Fits(op[w])
           /\ status[op[w].request] # "ABSENT"
<1>1. op[w] \in Operation /\ Fits(op[w])
  BY DEF RequestInv, TypeOK
<1> QED
  BY <1>1, OperationFields DEF Fits, Idle

\* The operations that begin, and the reports that arrive.
LEMMA StepBegin ==
    ASSUME RequestInv, NEW w \in Workers, NEW r \in Requests, Begin(w, r)
    PROVE  RequestInv'
<1>0. /\ status[r] \in RequestStatus \cup NoRow
      /\ Exists(r) => status[r] # "ABSENT" /\ status[r] \in RequestStatus
  BY DEF RequestInv, TypeOK, Exists, NoRow
<1>1. \A q \in Requests : reports[q] # <<>> => demand[q] # "NONE"
  BY DEF RequestInv, RowsMatch
<1>2. reports \in [Requests -> Seq(TaskStatus)]
  BY DEF RequestInv, TypeOK
<1>3. ASSUME NEW point \in {"updating", "responding"}, NEW target \in RequestStatus,
             changeStatus(w, r, point, target)
      PROVE  RequestInv'
  <2> DEFINE o == [at |-> point, request |-> r,
                   completed |-> status[r] = "COMPLETED", target |-> target]
  <2>1. (status[r] = "COMPLETED") \in BOOLEAN
    OBVIOUS
  <2>2. o \in Operation
    BY <2>1, OperationBuilt
  <2>3. Fits(o)
    BY <1>0, <1>3 DEF changeStatus, Fits
  <2> QED
    BY <1>1, <1>2, <1>3, <2>2, <2>3, NoRowWritten DEF changeStatus, task
<1>4. ASSUME changeResolution(w, r)
      PROVE  RequestInv'
  <2>1. [at |-> "resolving", request |-> r] \in Operation
    BY OperationBuilt
  <2>2. Fits([at |-> "resolving", request |-> r])
    BY <1>4 DEF changeResolution, Fits
  <2> QED
    BY <1>1, <1>2, <1>4, <2>1, <2>2, NoRowWritten DEF changeResolution, task
<1>5. ASSUME remove(w, r)
      PROVE  RequestInv'
  <2>1. [at |-> "removing", request |-> r] \in Operation
    BY OperationBuilt
  <2>2. Fits([at |-> "removing", request |-> r])
    BY <1>0, <1>5 DEF remove, Fits
  <2> QED
    BY <1>1, <1>2, <1>5, <2>1, <2>2, NoRowWritten DEF remove, task
<1>6. ASSUME retryTaskSync(w, r)
      PROVE  RequestInv'
  <2>1. [at |-> "retrying", request |-> r] \in Operation
    BY OperationBuilt
  <2>2. Fits([at |-> "retrying", request |-> r])
    BY <1>0, <1>6 DEF retryTaskSync, Fits
  <2> QED
    BY <1>1, <1>2, <1>6, <2>1, <2>2, NoRowWritten DEF retryTaskSync, task
<1>7. ASSUME Claim(w, r)
      PROVE  RequestInv'
  <2> DEFINE o == [at |-> "looking", request |-> r]
  <2>1. o \in Operation
    BY OperationBuilt
  <2>2. /\ sync' = [sync EXCEPT ![r] = "PROCESSING"]
        /\ UNCHANGED <<weather, status, linked, dated, demand, reports>>
        /\ Continue(w, o)
        /\ status[r] # "ABSENT"
    BY <1>0, <1>7 DEF Claim, SetSync, task
  <2>3. sync' \in [Requests -> SyncState] /\ sync'[r] = "PROCESSING"
        /\ \A q \in Requests \ {r} : sync'[q] = sync[q]
    BY <2>2 DEF RequestInv, TypeOK, SyncState
  <2>4. Keeps
    BY <2>2, <2>3 DEF Keeps
  <2>5. Fits(o)'
    BY <2>2, <2>3 DEF Fits
  <2>6. op' \in [Workers -> Operation] /\ \A v \in Workers : Fits(op[v])'
    BY <2>1, <2>2, <2>4, <2>5, OperationGoesOn
  <2>7. TypeOK'
    BY <2>2, <2>3, <2>6 DEF RequestInv, TypeOK
  <2>8. RowsMatch'
    BY <2>2, <2>3 DEF RequestInv, RowsMatch, Exists
  <2> QED
    BY <2>6, <2>7, <2>8 DEF RequestInv
<1>8. ASSUME ReceiveReport(w, r)
      PROVE  RequestInv'
  <2>1. PICK i \in DOMAIN reports[r] :
            /\ \/ reports' = [reports EXCEPT ![r] = RemoveAt(@, i)]
               \/ UNCHANGED reports
            /\ Receive(w, r, reports[r][i])
    BY <1>8 DEF ReceiveReport
  <2>2. reports[r][i] \in TaskStatus /\ RemoveAt(reports[r], i) \in Seq(TaskStatus)
    BY <1>2, RemoveAtTyped
  <2>3. reports[r] # <<>> /\ demand[r] # "NONE"
    BY <1>1, <2>1
  <2>4. reports' \in [Requests -> Seq(TaskStatus)]
        /\ \A q \in Requests : reports'[q] # <<>> => demand[q] # "NONE"
    BY <1>1, <1>2, <2>1, <2>2, <2>3
  <2> DEFINE o == [at |-> "applying", request |-> r, reported |-> reports[r][i],
                   completed |-> status[r] = "COMPLETED"]
  <2>5. (status[r] = "COMPLETED") \in BOOLEAN
    OBVIOUS
  <2>6. o \in Operation /\ Idle \in Operation
    BY <2>2, <2>5, OperationBuilt
  <2>7. Fits(Idle) /\ (Exists(r) => Fits(o))
    BY <1>0, <2>3 DEF Fits
  <2>8. UNCHANGED <<weather, row, demand>>
    BY <1>8 DEF ReceiveReport
  <2>9. CASE Exists(r)
    <3>1. Continue(w, o)
      BY <2>1, <2>9 DEF Receive
    <3> QED
      BY <2>4, <2>6, <2>7, <2>8, <2>9, <3>1, NoRowWritten
  <2>10. CASE ~Exists(r)
    <3>1. Continue(w, Idle)
      BY <2>1, <2>10 DEF Receive, Done
    <3> QED
      BY <2>4, <2>6, <2>7, <2>8, <3>1, NoRowWritten
  <2> QED
    BY <2>9, <2>10
<1>9. ASSUME syncFromTask(w, r)
      PROVE  RequestInv'
  <2> DEFINE o == [at |-> "polled", request |-> r, reported |-> demand[r]]
  <2>1. demand[r] \in TaskStatus /\ status[r] # "ABSENT" /\ demand[r] # "NONE"
    BY <1>9 DEF syncFromTask, RequestInv, TypeOK, RowsMatch
  <2>2. o \in Operation /\ Fits(o)
    BY <2>1, OperationBuilt DEF Fits
  <2> QED
    BY <1>1, <1>2, <1>9, <2>2, NoRowWritten DEF syncFromTask, task
<1> QED
  BY <1>3, <1>4, <1>5, <1>6, <1>7, <1>8, <1>9 DEF Begin

\* The operations of the panel go on to write the row.
LEMMA StepPanel ==
    ASSUME RequestInv, NEW w \in Workers,
           WriteResponse(w) \/ WriteUpdate(w) \/ WriteDate(w) \/ WriteResolution(w)
             \/ Delete(w) \/ Rearm(w)
    PROVE  RequestInv'
<1> DEFINE r == op[w].request
<1>1. /\ op[w] \in Operation
      /\ op[w] # Idle
      /\ r \in Requests
      /\ Fits(op[w])
      /\ status[r] # "ABSENT"
  BY Underway DEF WriteResponse, WriteUpdate, WriteDate, WriteResolution, Delete, Rearm, At
<1>2. /\ status \in [Requests -> RequestStatus \cup NoRow]
      /\ sync \in [Requests -> SyncState]
      /\ linked \in SUBSET Requests
      /\ dated \in SUBSET Requests
  BY DEF RequestInv, TypeOK
<1>3. /\ r \in linked => demand[r] # "NONE"
      /\ Exists(r) /\ sync[r] = "SYNCED" => r \in linked
      /\ Exists(r) <=> status[r] \notin NoRow
  BY <1>1 DEF RequestInv, RowsMatch, Exists
<1>4. \A c, t : DateFrom(r, c, t) => dated' \in SUBSET Requests
  BY <1>1, <1>2 DEF DateFrom
<1>5. \A s \in RequestStatus : SetStatus(r, s) =>
        /\ status' \in [Requests -> RequestStatus \cup NoRow]
        /\ status'[r] = s
        /\ s # "ABSENT"
        /\ \A q \in Requests \ {r} : status'[q] = status[q]
  BY <1>1, <1>2 DEF SetStatus, RequestStatus
<1>6. CASE WriteResponse(w)
  <2>1. op[w].target \in RequestStatus
    BY <1>1, <1>6, OperationFields DEF WriteResponse, At
  <2>2. /\ Continue(w, Idle)
        /\ UNCHANGED <<weather, sync, linked, task>>
        /\ \/ Exists(r) /\ SetStatus(r, op[w].target) /\ dated' \in SUBSET Requests
           \/ UNCHANGED <<status, dated>>
    BY <1>4, <1>6 DEF WriteResponse, Done
  <2> QED
    BY <1>1, <1>2, <1>3, <1>5, <2>1, <2>2, RowWritten
<1>7. CASE WriteUpdate(w)
  <2>1. op[w].target \in RequestStatus
    BY <1>1, <1>7, OperationFields DEF WriteUpdate, At
  <2>2. CASE ~Exists(r)
    <3>1. Continue(w, Idle) /\ UNCHANGED <<weather, row, task>>
      BY <1>7, <2>2 DEF WriteUpdate, Done, row
    <3> QED
      BY <1>1, <1>2, <1>3, <2>2, <3>1, RowWritten DEF row
  <2>3. CASE Exists(r)
    <3>0. PICK o : o = [op[w] EXCEPT !.at = "dating"]
      OBVIOUS
    <3>1. o \in Operation /\ o.at = "dating" /\ o.request = r
      BY <1>1, <1>7, <3>0, OperationMoves DEF WriteUpdate, At
    <3>2. /\ SetStatus(r, op[w].target)
          /\ Continue(w, o)
          /\ UNCHANGED <<weather, sync, linked, dated, task>>
      BY <1>7, <2>3, <3>0 DEF WriteUpdate
    <3>3. /\ status' \in [Requests -> RequestStatus \cup NoRow]
          /\ status'[r] # "ABSENT"
          /\ \A q \in Requests \ {r} : status'[q] = status[q]
      BY <1>5, <2>1, <3>2
    <3>4. Keeps
      BY <3>2, <3>3 DEF Keeps, task
    <3>5. Fits(o)'
      <4>1. status'[r] # "ABSENT" /\ o.request = r /\ o.at = "dating"
        BY <3>1, <3>3
      <4> QED
        BY <4>1 DEF Fits
    <3>6. op' \in [Workers -> Operation] /\ \A v \in Workers : Fits(op[v])'
      BY <3>1, <3>2, <3>4, <3>5, OperationGoesOn
    <3>7. TypeOK'
      BY <3>2, <3>3, <3>6 DEF RequestInv, TypeOK, task
    <3>8. RowsMatch'
      <4> SUFFICES ASSUME NEW q \in Requests
                   PROVE  /\ status'[q] = "ABSENT" => demand'[q] = "NONE"
                          /\ demand'[q] # "NONE" => sync'[q] # "DISABLED"
                          /\ q \in linked' => demand'[q] # "NONE"
                          /\ reports'[q] # <<>> => demand'[q] # "NONE"
                          /\ Exists(q)' /\ sync'[q] = "SYNCED" => q \in linked'
        BY DEF RowsMatch
      <4>1. CASE q = r
        BY <2>3, <3>2, <3>3, <4>1 DEF RequestInv, RowsMatch, Exists, task
      <4>2. CASE q # r
        BY <3>2, <3>3, <4>2 DEF RequestInv, RowsMatch, Exists, task
      <4> QED
        BY <4>1, <4>2
    <3> QED
      BY <3>6, <3>7, <3>8 DEF RequestInv
  <2> QED
    BY <2>2, <2>3
<1>8. CASE WriteDate(w)
  <2>1. /\ Continue(w, Idle)
        /\ UNCHANGED <<weather, status, sync, linked, task>>
        /\ dated' \in SUBSET Requests
    BY <1>2, <1>4, <1>8 DEF WriteDate, Done
  <2> QED
    BY <1>1, <1>2, <1>3, <2>1, RowWritten
<1>9. CASE WriteResolution(w)
  <2>1. /\ Continue(w, Idle)
        /\ UNCHANGED <<weather, status, sync, linked, task>>
        /\ dated' \in SUBSET Requests
    BY <1>2, <1>9 DEF WriteResolution, Done
  <2> QED
    BY <1>1, <1>2, <1>3, <2>1, RowWritten
<1>10. CASE Delete(w)
  <2>1. /\ Continue(w, Idle)
        /\ UNCHANGED <<weather, sync, task>>
        /\ status' = [status EXCEPT ![r] = "REMOVED"]
        /\ linked' = linked \ {r}
        /\ dated' = dated \ {r}
    BY <1>10 DEF Delete, Done, SetStatus
  <2>2. /\ status' \in [Requests -> RequestStatus \cup NoRow]
        /\ status'[r] = "REMOVED"
        /\ "REMOVED" \in NoRow
        /\ \A q \in Requests \ {r} : status'[q] = status[q]
    BY <1>1, <1>2, <2>1 DEF NoRow
  <2> QED
    BY <1>1, <1>2, <1>3, <2>1, <2>2, RowWritten
<1>11. CASE Rearm(w)
  <2>1. /\ Continue(w, Idle)
        /\ UNCHANGED <<weather, status, linked, dated, task>>
        /\ sync' = [sync EXCEPT ![r] = "PENDING"] \/ sync' = sync
    BY <1>11 DEF Rearm, Done, SetSync
  <2>2. /\ sync' \in [Requests -> SyncState]
        /\ sync[r] # "DISABLED" => sync'[r] # "DISABLED"
        /\ sync'[r] = "SYNCED" => sync[r] = "SYNCED"
        /\ \A q \in Requests \ {r} : sync'[q] = sync[q]
    BY <1>1, <1>2, <2>1 DEF SyncState, Claimable
  <2> QED
    BY <1>1, <1>2, <1>3, <2>1, <2>2, RowWritten
<1> QED
  BY <1>6, <1>7, <1>8, <1>9, <1>10, <1>11

\* A demand is looked for or created: the claim goes on to the point given.
LEMMA StepDemand ==
    ASSUME RequestInv, NEW w \in Workers, op[w].at = "looking",
           NEW point \in {"linking", "failing"},
           WithDemand(op[w].request) \/ (point = "failing" /\ UNCHANGED demand),
           Continue(w, [op[w] EXCEPT !.at = point]),
           UNCHANGED <<weather, row, reports>>
    PROVE  RequestInv'
<1>1. PICK o, r : o = [op[w] EXCEPT !.at = point] /\ r = op[w].request
  OBVIOUS
<1>2. /\ op[w] \in Operation
      /\ r \in Requests
      /\ status[r] # "ABSENT"
      /\ sync[r] # "DISABLED"
  BY <1>1, Underway DEF Fits
<1>3. o \in Operation /\ o.at = point /\ o.request = r /\ Continue(w, o)
  BY <1>1, <1>2, OperationMoves
<1>4. /\ demand \in [Requests -> TaskStatus \cup {"NONE"}]
      /\ "em_aberto" \in TaskStatus
      /\ "NONE" \notin TaskStatus
  BY DEF RequestInv, TypeOK, TaskStatus
<1>5. /\ demand' \in [Requests -> TaskStatus \cup {"NONE"}]
      /\ \A q \in Requests \ {r} : demand'[q] = demand[q]
      /\ demand[r] # "NONE" => demand'[r] # "NONE"
      /\ point = "linking" => demand'[r] # "NONE"
  BY <1>1, <1>2, <1>4 DEF WithDemand
<1>6. Keeps
  BY <1>5 DEF Keeps, row
<1>7. Fits(o)'
  <2>1. status'[r] # "ABSENT" /\ sync'[r] # "DISABLED"
    BY <1>2 DEF row
  <2> QED
    BY <1>3, <1>5, <2>1 DEF Fits
<1>8. op' \in [Workers -> Operation] /\ \A v \in Workers : Fits(op[v])'
  BY <1>3, <1>6, <1>7, OperationGoesOn
<1>9. TypeOK'
  BY <1>5, <1>8 DEF RequestInv, TypeOK, row
<1>10. RowsMatch'
  <2> SUFFICES ASSUME NEW q \in Requests
               PROVE  /\ status'[q] = "ABSENT" => demand'[q] = "NONE"
                      /\ demand'[q] # "NONE" => sync'[q] # "DISABLED"
                      /\ q \in linked' => demand'[q] # "NONE"
                      /\ reports'[q] # <<>> => demand'[q] # "NONE"
                      /\ Exists(q)' /\ sync'[q] = "SYNCED" => q \in linked'
    BY DEF RowsMatch
  <2>1. CASE q = r
    BY <1>2, <1>5, <2>1 DEF RequestInv, RowsMatch, Exists, row
  <2>2. CASE q # r
    BY <1>5, <2>2 DEF RequestInv, RowsMatch, Exists, row
  <2> QED
    BY <2>1, <2>2
<1> QED
  BY <1>8, <1>9, <1>10 DEF RequestInv

\* The queue and the callback go on to write the row.
LEMMA StepSync ==
    ASSUME RequestInv, NEW w \in Workers,
           saveTaskLink(w) \/ MarkRetry(w) \/ ApplyReport(w)
    PROVE  RequestInv'
<1> DEFINE r == op[w].request
<1>1. /\ op[w] \in Operation
      /\ op[w] # Idle
      /\ r \in Requests
      /\ Fits(op[w])
      /\ status[r] # "ABSENT"
  BY Underway DEF saveTaskLink, MarkRetry, ApplyReport, At
<1>2. /\ status \in [Requests -> RequestStatus \cup NoRow]
      /\ sync \in [Requests -> SyncState]
      /\ linked \in SUBSET Requests
      /\ dated \in SUBSET Requests
  BY DEF RequestInv, TypeOK
<1>3. /\ r \in linked => demand[r] # "NONE"
      /\ Exists(r) /\ sync[r] = "SYNCED" => r \in linked
      /\ Exists(r) <=> status[r] \notin NoRow
  BY <1>1 DEF RequestInv, RowsMatch, Exists
<1>4. CASE saveTaskLink(w)
  <2>1. demand[r] # "NONE"
    BY <1>1, <1>4 DEF saveTaskLink, At, Fits
  <2>2. /\ Continue(w, Idle)
        /\ UNCHANGED <<weather, status, dated, task>>
        /\ \/ sync' = [sync EXCEPT ![r] = "SYNCED"] /\ linked' = linked \cup {r}
           \/ UNCHANGED <<sync, linked>>
    BY <1>4 DEF saveTaskLink, Done, SetSync
  <2>3. CASE UNCHANGED <<sync, linked>>
    BY <1>1, <1>2, <1>3, <2>2, <2>3, RowWritten
  <2>4. CASE sync' = [sync EXCEPT ![r] = "SYNCED"] /\ linked' = linked \cup {r}
    <3>1. /\ sync' \in [Requests -> SyncState]
          /\ sync'[r] # "DISABLED"
          /\ \A q \in Requests \ {r} : sync'[q] = sync[q]
      BY <1>1, <1>2, <2>4 DEF SyncState
    <3> QED
      BY <1>1, <1>2, <2>1, <2>2, <2>4, <3>1, RowWritten
  <2> QED
    BY <2>2, <2>3, <2>4
<1>5. CASE MarkRetry(w)
  <2>1. /\ Continue(w, Idle)
        /\ UNCHANGED <<weather, status, linked, dated, task>>
        /\ sync' = [sync EXCEPT ![r] = "RETRY"] \/ sync' = sync
    BY <1>5 DEF MarkRetry, Done, SetSync
  <2>2. /\ sync' \in [Requests -> SyncState]
        /\ sync[r] # "DISABLED" => sync'[r] # "DISABLED"
        /\ sync'[r] = "SYNCED" => sync[r] = "SYNCED"
        /\ \A q \in Requests \ {r} : sync'[q] = sync[q]
    BY <1>1, <1>2, <2>1 DEF SyncState, Claimable
  <2> QED
    BY <1>1, <1>2, <1>3, <2>1, <2>2, RowWritten
<1>6. CASE ApplyReport(w)
  <2>1. demand[r] # "NONE" /\ op[w].reported \in TaskStatus
    BY <1>1, <1>6, OperationFields DEF ApplyReport, At, Fits
  <2>2. Continue(w, Idle) /\ UNCHANGED <<weather, task>>
    BY <1>6 DEF ApplyReport, Done
  <2>3. CASE ~Exists(r)
    <3>1. UNCHANGED row
      BY <1>6, <2>3 DEF ApplyReport
    <3> QED
      BY <1>1, <1>2, <1>3, <2>2, <2>3, <3>1, RowWritten DEF row
  <2>4. CASE Exists(r)
    <3>1. /\ status' = [status EXCEPT ![r] = mapTaskStatus(op[w].reported)]
          /\ sync' = [sync EXCEPT ![r] = "SYNCED"]
          /\ linked' = linked \cup {r}
          /\ DateFrom(r, op[w].completed, mapTaskStatus(op[w].reported))
      BY <1>6, <2>4 DEF ApplyReport, Applied, SetStatus, SetSync
    <3>2. mapTaskStatus(op[w].reported) \in RequestStatus
      BY <2>1, MapTyped
    <3>3. /\ status' \in [Requests -> RequestStatus \cup NoRow]
          /\ status'[r] # "ABSENT"
          /\ \A q \in Requests \ {r} : status'[q] = status[q]
      BY <1>1, <1>2, <3>1, <3>2 DEF RequestStatus
    <3>4. /\ sync' \in [Requests -> SyncState]
          /\ sync'[r] # "DISABLED"
          /\ \A q \in Requests \ {r} : sync'[q] = sync[q]
      BY <1>1, <1>2, <3>1 DEF SyncState
    <3>5. dated' \in SUBSET Requests
      BY <1>1, <1>2, <3>1 DEF DateFrom
    <3> QED
      BY <1>1, <1>2, <2>1, <2>2, <3>1, <3>3, <3>4, <3>5, RowWritten
  <2> QED
    BY <2>3, <2>4
<1> QED
  BY <1>4, <1>5, <1>6

\* The steps of a request and its demand that no worker takes.
LEMMA StepRequest ==
    ASSUME RequestInv, NEW r \in Requests,
           \/ \E state \in {"DISABLED", "PENDING"} : create(r, state)
           \/ Reclaim(r)
           \/ \E to \in Moves : TaskMoves(r, to)
           \/ LoseReport(r)
    PROVE  RequestInv'
<1>1. /\ op' = op /\ op \in [Workers -> Operation]
      /\ weather' = weather /\ linked' = linked /\ dated' = dated
  BY DEF RequestInv, TypeOK, create, Reclaim, TaskMoves, LoseReport, row
<1>2. /\ status \in [Requests -> RequestStatus \cup NoRow]
      /\ sync \in [Requests -> SyncState]
      /\ demand \in [Requests -> TaskStatus \cup {"NONE"}]
      /\ reports \in [Requests -> Seq(TaskStatus)]
  BY DEF RequestInv, TypeOK
<1>3. ASSUME Keeps
      PROVE  \A w \in Workers : Fits(op[w])'
  <2> SUFFICES ASSUME NEW w \in Workers
               PROVE  Fits(op[w])'
    OBVIOUS
  <2>1. op[w] \in Operation /\ Fits(op[w]) /\ op'[w] = op[w]
    BY <1>1 DEF RequestInv
  <2> QED
    BY <1>3, <2>1, OperationFields DEF Fits, Keeps
<1>4. ASSUME NEW state \in {"DISABLED", "PENDING"}, create(r, state)
      PROVE  RequestInv'
  <2>1. /\ status[r] = "ABSENT" /\ demand[r] = "NONE"
        /\ status' = [status EXCEPT ![r] = "OPEN"]
        /\ sync' = [sync EXCEPT ![r] = state]
        /\ UNCHANGED <<demand, reports>>
    BY <1>4 DEF create, SetStatus, SetSync, task, RequestInv, RowsMatch
  <2>2. Keeps
    BY <1>2, <2>1 DEF Keeps
  <2>3. TypeOK'
    BY <1>1, <1>2, <2>1 DEF RequestInv, TypeOK, RequestStatus, SyncState, Claimable
  <2>4. RowsMatch'
    BY <1>1, <1>2, <2>1 DEF RequestInv, RowsMatch, Exists
  <2> QED
    BY <1>3, <2>2, <2>3, <2>4 DEF RequestInv
<1>5. ASSUME Reclaim(r)
      PROVE  RequestInv'
  <2>1. sync' = [sync EXCEPT ![r] = "RETRY"] /\ UNCHANGED <<status, demand, reports>>
    BY <1>5 DEF Reclaim, SetSync, task
  <2>2. Keeps
    BY <1>2, <2>1 DEF Keeps
  <2>3. TypeOK'
    BY <1>1, <1>2, <2>1 DEF RequestInv, TypeOK, SyncState, Claimable
  <2>4. RowsMatch'
    BY <1>1, <1>2, <2>1 DEF RequestInv, RowsMatch, Exists
  <2> QED
    BY <1>3, <2>2, <2>3, <2>4 DEF RequestInv
<1>6. ASSUME NEW to \in Moves, TaskMoves(r, to)
      PROVE  RequestInv'
  <2>1. to \in TaskStatus /\ to # "NONE"
    BY RequestSyncAssumption DEF TaskStatus
  <2>2. /\ demand[r] # "NONE"
        /\ demand' = [demand EXCEPT ![r] = to]
        /\ reports' = [reports EXCEPT ![r] = Append(@, to)]
        /\ UNCHANGED <<status, sync>>
    BY <1>6 DEF TaskMoves, row
  <2>3. Append(reports[r], to) \in Seq(TaskStatus)
    BY <1>2, <2>1, AppendProperties
  <2>4. Keeps
    BY <1>2, <2>1, <2>2 DEF Keeps
  <2>5. TypeOK'
    BY <1>1, <1>2, <2>1, <2>2, <2>3 DEF RequestInv, TypeOK
  <2>6. RowsMatch'
    BY <1>1, <1>2, <2>1, <2>2 DEF RequestInv, RowsMatch, Exists
  <2> QED
    BY <1>3, <2>4, <2>5, <2>6 DEF RequestInv
<1>7. ASSUME LoseReport(r)
      PROVE  RequestInv'
  <2>1. PICK i \in DOMAIN reports[r] : reports' = [reports EXCEPT ![r] = RemoveAt(@, i)]
    BY <1>7 DEF LoseReport
  <2>2. RemoveAt(reports[r], i) \in Seq(TaskStatus) /\ reports[r] # <<>>
    BY <1>2, <2>1, RemoveAtTyped
  <2>3. UNCHANGED <<status, sync, demand>>
    BY <1>7 DEF LoseReport, row
  <2>4. Keeps
    BY <2>3 DEF Keeps
  <2>5. TypeOK'
    BY <1>1, <1>2, <2>1, <2>2, <2>3 DEF RequestInv, TypeOK
  <2>6. RowsMatch'
    BY <1>1, <1>2, <2>1, <2>2, <2>3 DEF RequestInv, RowsMatch, Exists
  <2> QED
    BY <1>3, <2>4, <2>5, <2>6 DEF RequestInv
<1> QED
  BY <1>4, <1>5, <1>6, <1>7

LEMMA RequestStep == RequestInv /\ [Next]_vars => RequestInv'
<1> SUFFICES ASSUME RequestInv, [Next]_vars
             PROVE  RequestInv'
  OBVIOUS
<1>1. CASE UNCHANGED vars
  <2>1. UNCHANGED <<weather, status, sync, linked, dated, demand, reports, op>>
    BY <1>1 DEF vars, row, task
  <2> QED
    BY <2>1 DEF RequestInv, TypeOK, RowsMatch, Fits, Exists
<1>2. ASSUME NEW w \in Workers, NEW r \in Requests, Begin(w, r)
      PROVE  RequestInv'
  BY <1>2, StepBegin
<1>3. ASSUME NEW w \in Workers,
             ClaimedIsGone(w) \/ Crash(w) \/ ApplyPoll(w)
      PROVE  RequestInv'
  <2>1. op[w].at # "idle" \/ Crash(w)
    BY <1>3 DEF ClaimedIsGone, ApplyPoll, At
  <2>2. /\ UNCHANGED <<weather, row, task>>
        /\ Continue(w, Idle) \/ (ApplyPoll(w) /\ Receive(w, op[w].request, op[w].reported))
    BY <1>3 DEF ClaimedIsGone, Crash, ApplyPoll, Done
  <2>3. /\ reports' \in [Requests -> Seq(TaskStatus)]
        /\ \A r \in Requests : reports'[r] # <<>> => demand[r] # "NONE"
        /\ UNCHANGED <<weather, row, demand>>
    BY <2>2 DEF RequestInv, TypeOK, RowsMatch, task
  <2>4. Idle \in Operation /\ Fits(Idle)
    BY OperationBuilt DEF Fits
  <2>5. CASE Continue(w, Idle)
    BY <2>3, <2>4, <2>5, NoRowWritten
  <2>6. CASE ApplyPoll(w) /\ Exists(op[w].request)
    <3> DEFINE r == op[w].request
               o == [at |-> "applying", request |-> r, reported |-> op[w].reported,
                     completed |-> status[r] = "COMPLETED"]
    <3>1. op[w].at = "polled" /\ op[w] \in Operation /\ op[w] # Idle /\ r \in Requests
          /\ Fits(op[w])
      BY <2>6, Underway DEF ApplyPoll, At
    <3>2. op[w].reported \in TaskStatus /\ (status[r] = "COMPLETED") \in BOOLEAN
      BY <3>1, OperationFields
    <3>3. o \in Operation
      BY <3>1, <3>2, OperationBuilt
    <3>4. Fits(o)
      BY <3>1 DEF Fits
    <3>5. Continue(w, o)
      BY <2>6 DEF ApplyPoll, Receive
    <3> QED
      BY <2>3, <3>3, <3>4, <3>5, NoRowWritten
  <2>7. CASE ApplyPoll(w) /\ ~Exists(op[w].request)
    <3>1. Continue(w, Idle)
      BY <2>7 DEF ApplyPoll, Receive, Done
    <3> QED
      BY <2>5, <3>1
  <2> QED
    BY <2>2, <2>5, <2>6, <2>7
<1>4. ASSUME NEW w \in Workers, EnsureDemand(w) \/ DemandFails(w)
      PROVE  RequestInv'
  <2>1. CASE EnsureDemand(w)
    BY <2>1, StepDemand DEF EnsureDemand, At
  <2>2. CASE DemandFails(w)
    BY <2>2, StepDemand DEF DemandFails, At
  <2> QED
    BY <1>4, <2>1, <2>2
<1>5. ASSUME NEW w \in Workers,
             WriteResponse(w) \/ WriteUpdate(w) \/ WriteDate(w) \/ WriteResolution(w)
               \/ Delete(w) \/ Rearm(w)
      PROVE  RequestInv'
  BY <1>5, StepPanel
<1>6. ASSUME NEW w \in Workers, saveTaskLink(w) \/ MarkRetry(w) \/ ApplyReport(w)
      PROVE  RequestInv'
  BY <1>6, StepSync
<1>7. ASSUME NEW r \in Requests,
             \/ \E state \in {"DISABLED", "PENDING"} : create(r, state)
             \/ Reclaim(r)
             \/ \E to \in Moves : TaskMoves(r, to)
             \/ LoseReport(r)
      PROVE  RequestInv'
  BY <1>7, StepRequest
<1> QED
  BY <1>1, <1>2, <1>3, <1>4, <1>5, <1>6, <1>7 DEF Next, Step, Proceed, Fault

\* Whatever overlaps and fails, the state keeps its types: every status the
\* Task reports becomes one of a request.
THEOREM RequestTypeCorrect == Spec => []TypeOK
<1>1. RequestInv => TypeOK
  BY DEF RequestInv
<1> QED
  BY <1>1, RequestInit, RequestStep, PTL DEF Spec

\* Whatever overlaps and fails, a synced request is linked, a linked one has
\* its demand and one that stays in the panel has none.
THEOREM RequestConsistent == Spec => []RequestMatchesTask
<1>1. RequestInv => RequestMatchesTask
  BY DEF RequestInv, RowsMatch, RequestMatchesTask
<1> QED
  BY <1>1, RequestInit, RequestStep, PTL DEF Spec

(***************************************************************************)
(* One operation at a time on each request                                 *)
(***************************************************************************)

Alone ==
    \A v, w \in Workers : v = w \/ Free(v) \/ Free(w) \/ op[v].request # op[w].request

\* w is the one that works on r, or may be.
Turn(w, r) == IF Free(w) THEN ~Busy(r) ELSE op[w].request = r

\* Nothing happens to the other requests.
Elsewhere(r) ==
    \A q \in Requests \ {r} :
        /\ status'[q] = status[q]
        /\ q \in linked' <=> q \in linked
        /\ q \in dated' <=> q \in dated
        /\ demand'[q] = demand[q]
        /\ reports'[q] = reports[q]

\* The one operation on r goes on as o; the others are about other requests.
LEMMA OneMoves ==
    ASSUME RequestInv, Alone, NEW w \in Workers, NEW r \in Requests, Turn(w, r),
           NEW o \in Operation, Continue(w, o), o # Idle => o.request = r
    PROVE  /\ Alone'
           /\ op'[w] = o
           /\ \A v \in Workers \ {w} : op'[v] = op[v]
           /\ \A v \in Workers \ {w} : op[v] = Idle \/ op[v].request \in Requests \ {r}
<1>1. op'[w] = o /\ \A v \in Workers \ {w} : op'[v] = op[v]
  BY DEF Continue, RequestInv, TypeOK
<1>2. \A v \in Workers : op[v] # Idle => op[v].request \in Requests
  BY OperationFields DEF RequestInv, TypeOK
<1>3. \A v \in Workers \ {w} : op[v] = Idle \/ op[v].request # r
  BY DEF Alone, Turn, Busy, Free
<1>4. Alone'
  BY <1>1, <1>3 DEF Alone, Free
<1> QED
  BY <1>1, <1>2, <1>3, <1>4

\* The weather stays.
LEMMA WeatherStays ==
    ASSUME [Next]_vars
    PROVE  weather' = weather
<1>1. ASSUME NEW w \in Workers, NEW r \in Requests, Begin(w, r)
      PROVE  weather' = weather
  BY <1>1 DEF Begin, changeStatus, changeResolution, remove, retryTaskSync, Claim,
    ReceiveReport, syncFromTask
<1>2. ASSUME NEW w \in Workers, Proceed(w)
      PROVE  weather' = weather
  <2>1. CASE WriteResponse(w) \/ WriteDate(w) \/ WriteResolution(w) \/ Delete(w) \/ Rearm(w)
             \/ ClaimedIsGone(w) \/ saveTaskLink(w) \/ MarkRetry(w) \/ ApplyPoll(w)
             \/ ApplyReport(w)
    BY <2>1 DEF WriteResponse, WriteDate, WriteResolution, Delete, Rearm, ClaimedIsGone,
      saveTaskLink, MarkRetry, ApplyPoll, ApplyReport
  <2>2. CASE WriteUpdate(w)
    BY <2>2 DEF WriteUpdate
  <2>3. CASE EnsureDemand(w)
    BY <2>3 DEF EnsureDemand
  <2> QED
    BY <1>2, <2>1, <2>2, <2>3 DEF Proceed
<1>3. ASSUME NEW w \in Workers, DemandFails(w) \/ Crash(w)
      PROVE  weather' = weather
  BY <1>3 DEF DemandFails, Crash
<1>4. ASSUME NEW r \in Requests,
             \/ \E state \in {"DISABLED", "PENDING"} : create(r, state)
             \/ Reclaim(r)
             \/ \E to \in Moves : TaskMoves(r, to)
             \/ LoseReport(r)
      PROVE  weather' = weather
  BY <1>4 DEF create, Reclaim, TaskMoves, LoseReport
<1>5. CASE UNCHANGED vars
  BY <1>5 DEF vars
<1> QED
  BY <1>1, <1>2, <1>3, <1>4, <1>5 DEF Next, Step, Fault

\* What an operation that begins has read; only a report is taken from its queue.
LEMMA BeginForms ==
    ASSUME RequestInv, NEW w \in Workers, NEW r \in Requests, Begin(w, r)
    PROVE  /\ Ready(w, r)
           /\ UNCHANGED <<status, linked, dated, demand>>
           /\ \E o \in Operation :
                /\ Continue(w, o)
                /\ o # Idle => o.request = r
                /\ o.at \notin {"dating", "linking", "failing"}
                /\ o.at \in {"updating", "responding", "applying"}
                    => (o.completed <=> status[r] = "COMPLETED")
                /\ o.at \in {"updating", "responding", "resolving", "removing", "looking"}
                    => r \notin linked /\ Exists(r)
                /\ o.at = "polled" => o.reported = demand[r]
                /\ \/ reports' = reports /\ o.at \notin {"idle", "applying"}
                   \/ \E i \in DOMAIN reports[r] :
                        /\ i = 1 \/ "unordered" \in weather
                        /\ \/ reports' = [reports EXCEPT ![r] = RemoveAt(@, i)]
                           \/ "unordered" \in weather /\ reports' = reports
                        /\ \/ o.at = "applying" /\ o.reported = reports[r][i]
                           \/ o = Idle /\ ~Exists(r)
<1>1. reports \in [Requests -> Seq(TaskStatus)]
  BY DEF RequestInv, TypeOK
<1>2. ASSUME NEW point \in {"updating", "responding"}, NEW target \in RequestStatus,
             changeStatus(w, r, point, target)
      PROVE  \E o \in Operation :
                /\ Continue(w, o) /\ o.at = point /\ o.request = r
                /\ o.completed <=> status[r] = "COMPLETED"
  <2>1. PICK c \in BOOLEAN : c = (status[r] = "COMPLETED")
    OBVIOUS
  <2>2. [at |-> point, request |-> r, completed |-> c, target |-> target] \in Operation
    BY OperationBuilt
  <2> QED
    BY <1>2, <2>1, <2>2 DEF changeStatus
<1>3. ASSUME NEW point \in {"resolving", "removing", "retrying", "looking"},
             Continue(w, [at |-> point, request |-> r])
      PROVE  \E o \in Operation : Continue(w, o) /\ o.at = point /\ o.request = r
  BY <1>3, OperationBuilt
<1>4. ASSUME ReceiveReport(w, r)
      PROVE  \E i \in DOMAIN reports[r], o \in Operation :
                /\ Continue(w, o)
                /\ o # Idle => o.request = r
                /\ i = 1 \/ "unordered" \in weather
                /\ \/ reports' = [reports EXCEPT ![r] = RemoveAt(@, i)]
                   \/ "unordered" \in weather /\ reports' = reports
                /\ \/ /\ o.at = "applying" /\ o.reported = reports[r][i]
                      /\ o.completed <=> status[r] = "COMPLETED"
                   \/ o = Idle /\ ~Exists(r)
  <2>1. PICK i \in DOMAIN reports[r] :
            /\ i = 1 \/ "unordered" \in weather
            /\ \/ reports' = [reports EXCEPT ![r] = RemoveAt(@, i)]
               \/ "unordered" \in weather /\ reports' = reports
            /\ Receive(w, r, reports[r][i])
    BY <1>4 DEF ReceiveReport
  <2>2. PICK c \in BOOLEAN, t \in TaskStatus : c = (status[r] = "COMPLETED") /\ t = reports[r][i]
    BY <1>1, RemoveAtTyped
  <2> DEFINE o == [at |-> "applying", request |-> r, reported |-> t, completed |-> c]
  <2>3. o \in Operation /\ Idle \in Operation
    BY OperationBuilt
  <2>4. CASE Exists(r)
    <3>1. Continue(w, o)
      BY <2>1, <2>2, <2>4 DEF Receive
    <3>2. o.at = "applying" /\ o.request = r /\ o.reported = reports[r][i]
          /\ (o.completed <=> status[r] = "COMPLETED")
      BY <2>2
    <3> HIDE DEF o
    <3> QED
      BY <2>1, <2>3, <3>1, <3>2
  <2>5. CASE ~Exists(r)
    <3>1. Continue(w, Idle)
      BY <2>1, <2>5 DEF Receive, Done
    <3> QED
      BY <2>1, <2>3, <2>5, <3>1
  <2> QED
    BY <2>4, <2>5
<1>5. ASSUME syncFromTask(w, r)
      PROVE  \E o \in Operation :
                Continue(w, o) /\ o.at = "polled" /\ o.request = r /\ o.reported = demand[r]
  <2>1. demand[r] \in TaskStatus
    BY <1>5 DEF syncFromTask, RequestInv, TypeOK, RowsMatch
  <2>2. [at |-> "polled", request |-> r, reported |-> demand[r]] \in Operation
    BY <2>1, OperationBuilt
  <2> QED
    BY <1>5, <2>2 DEF syncFromTask
<1>6. Idle.at = "idle"
  BY DEF Idle
<1>7. ASSUME NEW point \in {"updating", "responding"}, NEW target \in RequestStatus,
             changeStatus(w, r, point, target)
      PROVE  /\ Ready(w, r) /\ Exists(r) /\ r \notin linked
             /\ UNCHANGED <<status, linked, dated, demand, reports>>
  BY <1>7 DEF changeStatus, row, task
<1>8. changeResolution(w, r) =>
        /\ Ready(w, r) /\ Exists(r) /\ r \notin linked
        /\ UNCHANGED <<status, linked, dated, demand, reports>>
        /\ Continue(w, [at |-> "resolving", request |-> r])
  BY DEF changeResolution, row, task, Exists, NoRow
<1>9. remove(w, r) =>
        /\ Ready(w, r) /\ Exists(r) /\ r \notin linked
        /\ UNCHANGED <<status, linked, dated, demand, reports>>
        /\ Continue(w, [at |-> "removing", request |-> r])
  BY DEF remove, Removable, row, task
<1>10. retryTaskSync(w, r) =>
        /\ Ready(w, r)
        /\ UNCHANGED <<status, linked, dated, demand, reports>>
        /\ Continue(w, [at |-> "retrying", request |-> r])
  BY DEF retryTaskSync, row, task
<1>11. Claim(w, r) =>
        /\ Ready(w, r) /\ Exists(r) /\ r \notin linked
        /\ UNCHANGED <<status, linked, dated, demand, reports>>
        /\ Continue(w, [at |-> "looking", request |-> r])
  BY DEF Claim, task
<1>12. ReceiveReport(w, r) => Ready(w, r) /\ UNCHANGED <<status, linked, dated, demand>>
  BY DEF ReceiveReport, row
<1>13. syncFromTask(w, r) =>
        Ready(w, r) /\ UNCHANGED <<status, linked, dated, demand, reports>>
  BY DEF syncFromTask, row, task
<1>14. CASE \E point \in {"updating", "responding"}, target \in RequestStatus :
                changeStatus(w, r, point, target)
  <2>1. PICK point \in {"updating", "responding"}, target \in RequestStatus :
                changeStatus(w, r, point, target)
    BY <1>14
  <2>2. PICK o \in Operation :
                /\ Continue(w, o) /\ o.at = point /\ o.request = r
                /\ o.completed <=> status[r] = "COMPLETED"
    BY <1>2, <2>1
  <2> QED
    BY <1>7, <2>1, <2>2
<1>15. CASE changeResolution(w, r)
  BY <1>3, <1>8, <1>15
<1>16. CASE remove(w, r)
  BY <1>3, <1>9, <1>16
<1>17. CASE retryTaskSync(w, r)
  BY <1>3, <1>10, <1>17
<1>18. CASE Claim(w, r)
  BY <1>3, <1>11, <1>18
<1>19. CASE ReceiveReport(w, r)
  <2>1. PICK i \in DOMAIN reports[r], o \in Operation :
                /\ Continue(w, o)
                /\ o # Idle => o.request = r
                /\ i = 1 \/ "unordered" \in weather
                /\ \/ reports' = [reports EXCEPT ![r] = RemoveAt(@, i)]
                   \/ "unordered" \in weather /\ reports' = reports
                /\ \/ /\ o.at = "applying" /\ o.reported = reports[r][i]
                      /\ o.completed <=> status[r] = "COMPLETED"
                   \/ o = Idle /\ ~Exists(r)
    BY <1>4, <1>19
  <2> QED
    BY <1>6, <1>12, <1>19, <2>1
<1>20. CASE syncFromTask(w, r)
  BY <1>5, <1>13, <1>20
<1> QED
  BY <1>14, <1>15, <1>16, <1>17, <1>18, <1>19, <1>20 DEF Begin

\* What goes on was begun.
LEMMA InTheMiddle ==
    ASSUME RequestInv, NEW w \in Workers, Proceed(w) \/ DemandFails(w)
    PROVE  ~Free(w) /\ op[w] \in Operation /\ op[w].request \in Requests
<1>1. op[w].at # "idle"
  BY DEF Proceed, WriteResponse, WriteUpdate, WriteDate, WriteResolution, Delete, Rearm,
    ClaimedIsGone, EnsureDemand, saveTaskLink, MarkRetry, ApplyPoll, ApplyReport,
    DemandFails, At
<1> QED
  BY <1>1, Underway DEF Free

\* A step of the queue, a retry or a poll writes neither the status nor the date.
QueueStep(w) ==
    \/ Rearm(w)
    \/ ClaimedIsGone(w)
    \/ EnsureDemand(w)
    \/ DemandFails(w)
    \/ saveTaskLink(w)
    \/ MarkRetry(w)
    \/ ApplyPoll(w)

LEMMA QueueForms ==
    ASSUME RequestInv, NEW w \in Workers, NEW r \in Requests, r = op[w].request, QueueStep(w)
    PROVE  /\ UNCHANGED <<status, dated, reports>>
           /\ \E o \in Operation :
                /\ Continue(w, o)
                /\ o # Idle => o.request = r
                /\ \/ /\ o = Idle /\ op[w].at \notin {"looking", "linking"}
                      /\ UNCHANGED <<linked, demand>>
                   \/ /\ o = Idle /\ ~Exists(r)
                      /\ UNCHANGED <<linked, demand>>
                   \/ /\ o = Idle /\ op[w].at = "linking" /\ Exists(r)
                      /\ linked' = linked \cup {r} /\ UNCHANGED demand
                   \/ /\ o.at = "linking" /\ op[w].at = "looking"
                      /\ WithDemand(r) /\ UNCHANGED linked
                   \/ /\ o.at = "failing" /\ "failure" \in weather
                      /\ WithDemand(r) \/ UNCHANGED demand
                      /\ UNCHANGED linked
                   \/ /\ o.at = "applying" /\ op[w].at = "polled"
                      /\ o.reported = op[w].reported
                      /\ o.completed <=> status[r] = "COMPLETED"
                      /\ UNCHANGED <<linked, demand>>
<1>1. /\ op[w] \in Operation
      /\ op[w] # Idle
      /\ r \in Requests
  <2>1. Proceed(w) \/ DemandFails(w)
    BY DEF QueueStep, Proceed
  <2> QED
    BY <2>1, InTheMiddle DEF Free
<1>2. Idle \in Operation
  BY OperationBuilt
<1>3. CASE Rearm(w)
  BY <1>2, <1>3 DEF Rearm, Done, At, task
<1>4. CASE ClaimedIsGone(w)
  BY <1>2, <1>4 DEF ClaimedIsGone, Done, row, task
<1>5. CASE EnsureDemand(w)
  <2>1. PICK o : o = [op[w] EXCEPT !.at = "linking"]
    OBVIOUS
  <2>2. o \in Operation /\ o.at = "linking" /\ o.request = r
    BY <1>1, <1>5, <2>1, OperationMoves DEF EnsureDemand, At
  <2> QED
    BY <1>5, <2>1, <2>2 DEF EnsureDemand, At, row
<1>6. CASE DemandFails(w)
  <2>1. PICK o : o = [op[w] EXCEPT !.at = "failing"]
    OBVIOUS
  <2>2. o \in Operation /\ o.at = "failing" /\ o.request = r
    BY <1>1, <1>6, <2>1, OperationMoves DEF DemandFails, At
  <2> QED
    BY <1>6, <2>1, <2>2 DEF DemandFails, At, row
<1>7. CASE saveTaskLink(w)
  <2>1. /\ op[w].at = "linking" /\ Continue(w, Idle)
        /\ UNCHANGED <<status, dated, demand, reports>>
        /\ \/ Exists(r) /\ linked' = linked \cup {r}
           \/ ~Exists(r) /\ linked' = linked
    BY <1>7 DEF saveTaskLink, Done, At, task
  <2> QED
    BY <1>2, <2>1
<1>8. CASE MarkRetry(w)
  BY <1>2, <1>8 DEF MarkRetry, Done, At, task
<1>9. CASE ApplyPoll(w)
  <2>1. /\ op[w].at = "polled" /\ Receive(w, r, op[w].reported)
        /\ UNCHANGED <<status, linked, dated, demand, reports>>
    BY <1>9 DEF ApplyPoll, At, row, task
  <2>2. PICK c \in BOOLEAN, t \in TaskStatus : c = (status[r] = "COMPLETED") /\ t = op[w].reported
    BY <1>1, <2>1, OperationFields
  <2> DEFINE o == [at |-> "applying", request |-> r, reported |-> t, completed |-> c]
  <2>3. o \in Operation
    BY OperationBuilt
  <2>4. CASE Exists(r)
    <3>1. Continue(w, o)
      BY <2>1, <2>2, <2>4 DEF Receive
    <3>2. o.at = "applying" /\ o.request = r /\ o.reported = op[w].reported
          /\ (o.completed <=> status[r] = "COMPLETED")
      BY <2>2
    <3> HIDE DEF o
    <3> QED
      BY <2>1, <2>3, <3>1, <3>2
  <2>5. CASE ~Exists(r)
    <3>1. Continue(w, Idle)
      BY <2>1, <2>5 DEF Receive, Done
    <3> QED
      BY <1>2, <2>1, <2>5, <3>1
  <2> QED
    BY <2>4, <2>5
<1> QED
  BY <1>3, <1>4, <1>5, <1>6, <1>7, <1>8, <1>9 DEF QueueStep

\* A step of the panel or of a callback that writes the row.
WriteStep(w) ==
    \/ WriteResponse(w)
    \/ WriteUpdate(w)
    \/ WriteDate(w)
    \/ WriteResolution(w)
    \/ Delete(w)
    \/ ApplyReport(w)

\* The date of a request whose status becomes s.
Dates(r, o, s) == r \in dated' <=> s = "COMPLETED" \/ (r \in dated /\ ~o.completed)

LEMMA WriteForms ==
    ASSUME RequestInv, NEW w \in Workers, NEW r \in Requests, r = op[w].request, WriteStep(w)
    PROVE  /\ UNCHANGED <<demand, reports>>
           /\ \A q \in Requests \ {r} :
                /\ status'[q] = status[q]
                /\ q \in dated' <=> q \in dated
                /\ q \in linked' <=> q \in linked
           /\ \E o \in Operation :
                /\ Continue(w, o)
                /\ \/ /\ o = Idle /\ op[w].at # "dating" /\ ~Exists(r)
                      /\ UNCHANGED <<status, linked, dated>>
                   \/ /\ o = Idle /\ op[w].at = "responding" /\ Exists(r)
                      /\ op[w].target \in RequestStatus /\ status'[r] = op[w].target
                      /\ Dates(r, op[w], op[w].target) /\ UNCHANGED linked
                   \/ /\ op[w].at = "updating" /\ Exists(r)
                      /\ o.at = "dating" /\ o.request = r
                      /\ o.target = op[w].target /\ o.completed = op[w].completed
                      /\ op[w].target \in RequestStatus /\ status'[r] = op[w].target
                      /\ UNCHANGED <<linked, dated>>
                   \/ /\ o = Idle /\ op[w].at = "dating"
                      /\ \/ Dates(r, op[w], op[w].target)
                         \/ /\ ~Exists(r) \/ (op[w].completed /\ op[w].target = "COMPLETED")
                            /\ UNCHANGED dated
                      /\ UNCHANGED <<status, linked>>
                   \/ /\ o = Idle /\ op[w].at = "resolving"
                      /\ dated' = dated \ {r} /\ UNCHANGED <<status, linked>>
                   \/ /\ o = Idle /\ op[w].at = "removing"
                      /\ status'[r] = "REMOVED" /\ r \notin dated'
                   \/ /\ o = Idle /\ op[w].at = "applying" /\ Exists(r)
                      /\ status'[r] = mapTaskStatus(op[w].reported)
                      /\ Dates(r, op[w], mapTaskStatus(op[w].reported))
                      /\ linked' = linked \cup {r}
<1>1. /\ op[w] \in Operation
      /\ op[w] # Idle
      /\ status \in [Requests -> RequestStatus \cup NoRow]
  <2>1. Proceed(w)
    BY DEF WriteStep, Proceed
  <2> QED
    BY <2>1, InTheMiddle DEF Free, RequestInv, TypeOK
<1>2. Idle \in Operation
  BY OperationBuilt
<1>3. \A s : SetStatus(r, s) =>
        status'[r] = s /\ \A q \in Requests \ {r} : status'[q] = status[q]
  BY <1>1 DEF SetStatus
<1>4. \A s : DateFrom(r, op[w].completed, s) =>
        Dates(r, op[w], s) /\ \A q \in Requests \ {r} : (q \in dated' <=> q \in dated)
  BY DEF DateFrom, Dates
<1>5. CASE WriteResponse(w)
  <2>1. op[w].at = "responding" /\ op[w].target \in RequestStatus
    BY <1>1, <1>5, OperationFields DEF WriteResponse, At
  <2>2. Continue(w, Idle) /\ UNCHANGED <<linked, demand, reports>>
    BY <1>5 DEF WriteResponse, Done, task
  <2>3. \/ /\ Exists(r) /\ SetStatus(r, op[w].target)
           /\ DateFrom(r, op[w].completed, op[w].target)
        \/ ~Exists(r) /\ UNCHANGED <<status, dated>>
    BY <1>5 DEF WriteResponse
  <2> QED
    BY <1>2, <1>3, <1>4, <2>1, <2>2, <2>3
<1>6. CASE WriteUpdate(w)
  <2>1. op[w].at = "updating" /\ op[w].target \in RequestStatus
    BY <1>1, <1>6, OperationFields DEF WriteUpdate, At
  <2>2. UNCHANGED <<linked, dated, demand, reports>>
    BY <1>6 DEF WriteUpdate, task
  <2>3. CASE ~Exists(r)
    <3>1. Continue(w, Idle) /\ UNCHANGED status
      BY <1>6, <2>3 DEF WriteUpdate, Done
    <3> QED
      BY <1>2, <2>1, <2>2, <2>3, <3>1
  <2>4. CASE Exists(r)
    <3>1. PICK o : o = [op[w] EXCEPT !.at = "dating"]
      OBVIOUS
    <3>2. op[w] \in [at : {"updating", "responding", "dating"}, request : Requests,
                     completed : BOOLEAN, target : RequestStatus]
      BY <1>1, <2>1 DEF Operation, Idle
    <3>3. /\ o \in Operation /\ o.at = "dating" /\ o.request = r
          /\ o.target = op[w].target /\ o.completed = op[w].completed
      BY <3>1, <3>2 DEF Operation
    <3>4. Continue(w, o) /\ SetStatus(r, op[w].target)
      BY <1>6, <2>4, <3>1 DEF WriteUpdate
    <3> QED
      BY <1>3, <2>1, <2>2, <2>4, <3>3, <3>4
  <2> QED
    BY <2>3, <2>4
<1>7. CASE WriteDate(w)
  <2>1. op[w].at = "dating" /\ Continue(w, Idle) /\ UNCHANGED <<status, linked, demand, reports>>
    BY <1>7 DEF WriteDate, At, Done, task
  <2>2. \/ DateFrom(r, op[w].completed, op[w].target)
        \/ /\ ~Exists(r) \/ (op[w].completed /\ op[w].target = "COMPLETED")
           /\ UNCHANGED dated
    BY <1>7 DEF WriteDate
  <2> QED
    BY <1>2, <1>4, <2>1, <2>2
<1>8. CASE WriteResolution(w)
  BY <1>2, <1>8 DEF WriteResolution, At, Done, task
<1>9. CASE Delete(w)
  <2>1. /\ op[w].at = "removing" /\ Continue(w, Idle) /\ UNCHANGED <<demand, reports>>
        /\ SetStatus(r, "REMOVED") /\ linked' = linked \ {r} /\ dated' = dated \ {r}
    BY <1>9 DEF Delete, At, Done, task
  <2> QED
    BY <1>2, <1>3, <2>1
<1>10. CASE ApplyReport(w)
  <2>1. op[w].at = "applying" /\ Continue(w, Idle) /\ UNCHANGED <<demand, reports>>
    BY <1>10 DEF ApplyReport, At, Done, task
  <2>2. CASE ~Exists(r)
    <3>1. UNCHANGED <<status, linked, dated>>
      BY <1>10, <2>2 DEF ApplyReport, row
    <3> QED
      BY <1>2, <2>1, <2>2, <3>1
  <2>3. CASE Exists(r)
    <3>1. /\ SetStatus(r, mapTaskStatus(op[w].reported))
          /\ DateFrom(r, op[w].completed, mapTaskStatus(op[w].reported))
          /\ linked' = linked \cup {r}
      BY <1>10, <2>3 DEF ApplyReport, Applied
    <3> QED
      BY <1>2, <1>3, <1>4, <2>1, <2>3, <3>1
  <2> QED
    BY <2>2, <2>3
<1> QED
  BY <1>5, <1>6, <1>7, <1>8, <1>9, <1>10 DEF WriteStep

\* An operation is about one request.
LEMMA BeginElsewhere ==
    ASSUME RequestInv, NEW w \in Workers, NEW r \in Requests, Begin(w, r),
           "overlap" \notin weather
    PROVE  Turn(w, r) /\ Elsewhere(r)
<1>1. Turn(w, r)
  BY BeginForms DEF Ready, Turn
<1>2. UNCHANGED <<status, linked, dated, demand>>
  BY BeginForms
<1>3. \/ reports' = reports
      \/ \E i \in DOMAIN reports[r] : reports' = [reports EXCEPT ![r] = RemoveAt(@, i)]
  BY BeginForms
<1>4. \A q \in Requests \ {r} : reports'[q] = reports[q]
  BY <1>3 DEF RequestInv, TypeOK
<1> QED
  BY <1>1, <1>2, <1>4 DEF Elsewhere

LEMMA QueueElsewhere ==
    ASSUME RequestInv, NEW w \in Workers, QueueStep(w)
    PROVE  /\ op[w].request \in Requests
           /\ Turn(w, op[w].request)
           /\ Elsewhere(op[w].request)
<1>1. ~Free(w) /\ op[w].request \in Requests
  BY InTheMiddle DEF QueueStep, Proceed
<1>2. PICK r \in Requests : r = op[w].request
  BY <1>1
<1>3. UNCHANGED <<status, dated, reports>>
  BY <1>2, QueueForms
<1>4. /\ linked' = linked \/ linked' = linked \cup {r}
      /\ UNCHANGED demand \/ WithDemand(r)
  BY <1>2, QueueForms
<1>5. \A q \in Requests \ {r} : demand'[q] = demand[q]
  BY <1>4 DEF WithDemand, RequestInv, TypeOK
<1>6. Elsewhere(r)
  BY <1>3, <1>4, <1>5 DEF Elsewhere
<1> QED
  BY <1>1, <1>2, <1>6 DEF Turn

LEMMA WriteElsewhere ==
    ASSUME RequestInv, NEW w \in Workers, WriteStep(w)
    PROVE  /\ op[w].request \in Requests
           /\ Turn(w, op[w].request)
           /\ Elsewhere(op[w].request)
<1>1. ~Free(w) /\ op[w].request \in Requests
  BY InTheMiddle DEF WriteStep, Proceed
<1>2. PICK r \in Requests : r = op[w].request
  BY <1>1
<1>3. Elsewhere(r)
  BY <1>2, WriteForms DEF Elsewhere
<1> QED
  BY <1>1, <1>2, <1>3 DEF Turn

\* What a step of Next is when no replica stops.
LEMMA StepForms ==
    ASSUME Next, "crash" \notin weather
    PROVE  \/ \E w \in Workers, r \in Requests : Begin(w, r)
           \/ \E w \in Workers : QueueStep(w) \/ WriteStep(w)
           \/ \E r \in Requests :
                \/ \E state \in {"DISABLED", "PENDING"} : create(r, state)
                \/ Reclaim(r)
                \/ \E to \in Moves : TaskMoves(r, to)
                \/ LoseReport(r)
<1>1. \A w \in Workers : Proceed(w) \/ DemandFails(w) => QueueStep(w) \/ WriteStep(w)
  BY DEF Proceed, QueueStep, WriteStep
<1>2. \A w \in Workers : ~Crash(w)
  BY DEF Crash
<1> QED
  BY <1>1, <1>2 DEF Next, Step, Fault

(***************************************************************************)
(* A request with a date is complete                                       *)
(***************************************************************************)

\* What an operation has read of the status is still so; between the two writes
\* of update there is a date only if the request was complete before.
KnowsDate(o) ==
    /\ o.at \in {"updating", "responding", "applying"}
        => (o.completed <=> status[o.request] = "COMPLETED")
    /\ o.at = "dating" =>
        /\ status[o.request] = o.target
        /\ o.request \in dated => o.completed

Dating(o, r) == o.at = "dating" /\ o.request = r

DatedSerial ==
    /\ Alone
    /\ \A w \in Workers : KnowsDate(op[w])
    /\ \A r \in Requests :
        r \in dated => status[r] = "COMPLETED" \/ \E w \in Workers : Dating(op[w], r)

DatedInv == Without({"overlap", "crash"}) => DatedSerial

\* A request with a date that is not complete has its operation.
LEMMA DatedAlone ==
    ASSUME DatedSerial, NEW w \in Workers, NEW r \in Requests, Turn(w, r), r \in dated,
           status[r] # "COMPLETED"
    PROVE  Dating(op[w], r)
<1>1. PICK v \in Workers : Dating(op[v], r)
  BY DEF DatedSerial
<1>2. ~Free(v)
  BY <1>1 DEF Dating, Free, Idle
<1> QED
  BY <1>1, <1>2 DEF DatedSerial, Alone, Turn, Busy, Dating

LEMMA DatedStep ==
    ASSUME RequestInv, DatedSerial, NEW w \in Workers, NEW r \in Requests,
           Turn(w, r), Elsewhere(r),
           NEW o \in Operation, Continue(w, o), o # Idle => o.request = r, KnowsDate(o)',
           r \in dated' => status'[r] = "COMPLETED" \/ Dating(o, r)
    PROVE  DatedSerial'
<1>1. /\ Alone' /\ op'[w] = o
      /\ \A v \in Workers \ {w} : op'[v] = op[v]
      /\ \A v \in Workers \ {w} : op[v] = Idle \/ op[v].request \in Requests \ {r}
  BY OneMoves DEF DatedSerial
<1>2. \A v \in Workers \ {w} : KnowsDate(op[v])'
  BY <1>1 DEF DatedSerial, KnowsDate, Elsewhere, Idle
<1>3. \A v \in Workers : KnowsDate(op[v])'
  BY <1>1, <1>2
<1>4. ASSUME NEW q \in Requests \ {r}, q \in dated', status'[q] # "COMPLETED"
      PROVE  \E v \in Workers : Dating(op'[v], q)
  <2>1. PICK v \in Workers : Dating(op[v], q)
    BY <1>4 DEF DatedSerial, Elsewhere
  <2>2. v # w
    BY <2>1 DEF Turn, Dating, Free, Idle
  <2> QED
    BY <1>1, <2>1, <2>2
<1>5. r \in dated' => status'[r] = "COMPLETED" \/ \E v \in Workers : Dating(op'[v], r)
  BY <1>1
<1> QED
  BY <1>1, <1>3, <1>4, <1>5 DEF DatedSerial

LEMMA DatedBegin ==
    ASSUME RequestInv, DatedSerial, Without({"overlap", "crash"}),
           NEW w \in Workers, NEW r \in Requests, Begin(w, r)
    PROVE  DatedSerial'
<1>1. Turn(w, r) /\ Elsewhere(r) /\ Free(w)
  BY BeginForms, BeginElsewhere DEF Ready, Without
<1>2. PICK o \in Operation :
        /\ Continue(w, o)
        /\ o # Idle => o.request = r
        /\ o.at # "dating"
        /\ o.at \in {"updating", "responding", "applying"}
            => (o.completed <=> status[r] = "COMPLETED")
  BY BeginForms
<1>3. UNCHANGED <<status, dated>>
  BY BeginForms
<1>4. KnowsDate(o)'
  BY <1>2, <1>3 DEF KnowsDate, Idle
<1>5. r \in dated' => status'[r] = "COMPLETED"
  BY <1>1, <1>3, DatedAlone DEF Dating, Free, Idle
<1> QED
  BY <1>1, <1>2, <1>4, <1>5, DatedStep

LEMMA DatedQueue ==
    ASSUME RequestInv, DatedSerial, NEW w \in Workers, QueueStep(w)
    PROVE  DatedSerial'
<1>1. PICK r \in Requests : r = op[w].request /\ Turn(w, r) /\ Elsewhere(r)
  BY QueueElsewhere
<1>2. op[w].at # "dating"
  BY DEF QueueStep, Rearm, ClaimedIsGone, EnsureDemand, DemandFails, saveTaskLink, MarkRetry,
    ApplyPoll, At
<1>3. PICK o \in Operation :
        /\ Continue(w, o)
        /\ o # Idle => o.request = r
        /\ o.at \notin {"updating", "responding", "dating"}
        /\ o.at = "applying" => (o.completed <=> status[r] = "COMPLETED")
  <2>1. Idle.at = "idle"
    BY DEF Idle
  <2> QED
    BY <1>1, <2>1, QueueForms
<1>4. UNCHANGED <<status, dated>>
  BY <1>1, QueueForms
<1>5. KnowsDate(o)'
  BY <1>3, <1>4 DEF KnowsDate, Idle
<1>6. r \in dated' => status'[r] = "COMPLETED"
  BY <1>1, <1>2, <1>4, DatedAlone DEF Dating
<1> QED
  BY <1>1, <1>3, <1>5, <1>6, DatedStep

LEMMA DatedWrite ==
    ASSUME RequestInv, DatedSerial, NEW w \in Workers, WriteStep(w)
    PROVE  DatedSerial'
<1>1. PICK r \in Requests : r = op[w].request /\ Turn(w, r) /\ Elsewhere(r)
  BY WriteElsewhere
<1>2. KnowsDate(op[w])
  BY DEF DatedSerial
<1>4. r \in dated => status[r] = "COMPLETED" \/ op[w].at = "dating"
  BY <1>1, DatedAlone DEF Dating
<1>5. Idle \in Operation /\ KnowsDate(Idle)'
  BY OperationBuilt DEF KnowsDate, Idle
<1>6. ASSUME Continue(w, Idle), r \in dated' => status'[r] = "COMPLETED"
      PROVE  DatedSerial'
  BY <1>1, <1>5, <1>6, DatedStep
<1>7. PICK o \in Operation :
        /\ Continue(w, o)
        /\ \/ /\ o = Idle /\ op[w].at # "dating" /\ UNCHANGED <<status, dated>>
           \/ /\ o = Idle /\ op[w].at = "responding"
              /\ status'[r] = op[w].target /\ Dates(r, op[w], op[w].target)
           \/ /\ op[w].at = "updating"
              /\ o.at = "dating" /\ o.request = r
              /\ o.target = op[w].target /\ o.completed = op[w].completed
              /\ status'[r] = op[w].target /\ UNCHANGED dated
           \/ /\ o = Idle /\ op[w].at = "dating" /\ UNCHANGED status
              /\ \/ Dates(r, op[w], op[w].target)
                 \/ /\ ~Exists(r) \/ (op[w].completed /\ op[w].target = "COMPLETED")
                    /\ UNCHANGED dated
           \/ o = Idle /\ r \notin dated'
           \/ /\ o = Idle /\ op[w].at = "applying"
              /\ status'[r] = mapTaskStatus(op[w].reported)
              /\ Dates(r, op[w], mapTaskStatus(op[w].reported))
  <2>1. dated' = dated \ {r} => r \notin dated'
    OBVIOUS
  <2> QED
    BY <1>1, <2>1, WriteForms
<1>8. CASE o = Idle /\ op[w].at # "dating" /\ UNCHANGED <<status, dated>>
  BY <1>4, <1>6, <1>7, <1>8
<1>9. CASE /\ o = Idle /\ op[w].at = "responding"
           /\ status'[r] = op[w].target /\ Dates(r, op[w], op[w].target)
  BY <1>1, <1>2, <1>4, <1>6, <1>7, <1>9 DEF KnowsDate, Dates
<1>10. CASE /\ op[w].at = "updating"
            /\ o.at = "dating" /\ o.request = r
            /\ o.target = op[w].target /\ o.completed = op[w].completed
            /\ status'[r] = op[w].target /\ UNCHANGED dated
  <2>1. KnowsDate(o)'
    BY <1>1, <1>2, <1>4, <1>10 DEF KnowsDate
  <2> QED
    BY <1>1, <1>7, <1>10, <2>1, DatedStep DEF Dating
<1>11. CASE /\ o = Idle /\ op[w].at = "dating" /\ UNCHANGED status
            /\ Dates(r, op[w], op[w].target)
  BY <1>1, <1>2, <1>6, <1>7, <1>11 DEF KnowsDate, Dates
<1>12. CASE /\ o = Idle /\ op[w].at = "dating" /\ UNCHANGED <<status, dated>>
            /\ op[w].completed /\ op[w].target = "COMPLETED"
  BY <1>1, <1>2, <1>6, <1>7, <1>12 DEF KnowsDate
<1>13. CASE /\ o = Idle /\ op[w].at = "dating" /\ UNCHANGED <<status, dated>> /\ ~Exists(r)
  <2>1. op[w].target \in RequestStatus
    BY <1>13, InTheMiddle, OperationFields DEF WriteStep, Proceed
  <2>2. status[r] = op[w].target
    BY <1>1, <1>2, <1>13 DEF KnowsDate
  <2> QED
    BY <1>13, <2>1, <2>2 DEF Exists, NoRow, RequestStatus
<1>14. CASE o = Idle /\ r \notin dated'
  BY <1>6, <1>7, <1>14
<1>15. CASE /\ o = Idle /\ op[w].at = "applying"
            /\ status'[r] = mapTaskStatus(op[w].reported)
            /\ Dates(r, op[w], mapTaskStatus(op[w].reported))
  BY <1>1, <1>2, <1>4, <1>6, <1>7, <1>15 DEF KnowsDate, Dates
<1> QED
  BY <1>7, <1>8, <1>9, <1>10, <1>11, <1>12, <1>13, <1>14, <1>15

LEMMA DatedNext == RequestInv /\ DatedInv /\ [Next]_vars => DatedInv'
<1> SUFFICES ASSUME RequestInv, DatedInv, [Next]_vars, Without({"overlap", "crash"})'
             PROVE  DatedSerial'
  BY DEF DatedInv
<1>1. Without({"overlap", "crash"}) /\ DatedSerial
  BY WeatherStays DEF Without, DatedInv
<1>2. CASE UNCHANGED vars
  BY <1>1, <1>2 DEF vars, row, DatedSerial, Alone, Free, KnowsDate
<1>3. ASSUME NEW r \in Requests,
             \/ \E state \in {"DISABLED", "PENDING"} : create(r, state)
             \/ Reclaim(r)
             \/ \E to \in Moves : TaskMoves(r, to)
             \/ LoseReport(r)
      PROVE  DatedSerial'
  <2>1. UNCHANGED <<dated, op>>
    BY <1>3 DEF create, Reclaim, TaskMoves, LoseReport, row
  <2>2. CASE UNCHANGED status
    BY <1>1, <2>1, <2>2 DEF DatedSerial, Alone, Free, KnowsDate
  <2>3. CASE \E state \in {"DISABLED", "PENDING"} : create(r, state)
    <3>1. status[r] = "ABSENT" /\ \A q \in Requests \ {r} : status'[q] = status[q]
      BY <2>3 DEF create, SetStatus, RequestInv, TypeOK
    <3>2. \A w \in Workers : op[w] # Idle => op[w].request \in Requests \ {r}
      BY <3>1, OperationFields DEF RequestInv, TypeOK, Fits
    <3>3. \A w \in Workers : KnowsDate(op[w])'
      BY <1>1, <2>1, <3>1, <3>2 DEF DatedSerial, KnowsDate, Idle
    <3>4. \A w \in Workers, q \in Requests : Dating(op[w], q) => q # r
      BY <3>2 DEF Dating, Idle
    <3>5. r \notin dated
      BY <1>1, <3>1, <3>4 DEF DatedSerial
    <3> QED
      BY <1>1, <2>1, <3>1, <3>3, <3>5 DEF DatedSerial, Alone, Free
  <2> QED
    BY <1>3, <2>2, <2>3 DEF Reclaim, TaskMoves, LoseReport, row
<1> QED
  BY <1>1, <1>2, <1>3, StepForms, DatedBegin, DatedQueue, DatedWrite DEF Without

LEMMA DatedInit == Init => DatedInv
  BY DEF Init, DatedInv, DatedSerial, Alone, Free, KnowsDate, Idle

\* While operations on a request do not overlap and none is cut short, whatever
\* fails, is late or reordered and whatever happens to other requests meanwhile,
\* a request nobody works on has a completion date only if it is complete: the
\* second write of update repairs what the first one left.
THEOREM DatesComplete == Spec => []DatedIsComplete
<1>1. RequestInv /\ DatedInv => DatedIsComplete
  <2> SUFFICES ASSUME RequestInv, DatedSerial, NEW r \in Requests, ~Busy(r), r \in dated
               PROVE  status[r] = "COMPLETED"
    BY DEF DatedInv, DatedIsComplete
  <2>1. \A w \in Workers : ~Dating(op[w], r)
    BY DEF Busy, Dating, Free, Idle
  <2> QED
    BY <2>1 DEF DatedSerial
<1> QED
  BY <1>1, RequestInit, RequestStep, DatedInit, DatedNext, PTL DEF Spec

(***************************************************************************)
(* No demand is left without its request                                   *)
(***************************************************************************)

\* The queue works on a request that is there, and what is deleted has no demand.
KnowsDemand(o) ==
    /\ o.at \in {"looking", "linking"} => Exists(o.request)
    /\ o.at = "removing" => demand[o.request] = "NONE"

Linking(o, r) == o.at = "linking" /\ o.request = r

\* A demand is linked, or is about to be: then the panel does not delete it.
OrphanSerial ==
    /\ Alone
    /\ \A w \in Workers : KnowsDemand(op[w])
    /\ \A r \in Requests :
        demand[r] # "NONE" => Exists(r) /\ (r \in linked \/ \E w \in Workers : Linking(op[w], r))

OrphanInv == Without({"overlap", "crash", "failure"}) => OrphanSerial

LEMMA OrphanAlone ==
    ASSUME OrphanSerial, NEW w \in Workers, NEW r \in Requests, Turn(w, r), demand[r] # "NONE"
    PROVE  Exists(r) /\ (r \in linked \/ Linking(op[w], r))
<1>1. ASSUME NEW v \in Workers, Linking(op[v], r)
      PROVE  v = w
  <2>1. ~Free(v)
    BY <1>1 DEF Linking, Free, Idle
  <2> QED
    BY <1>1, <2>1 DEF OrphanSerial, Alone, Turn, Busy, Linking
<1> QED
  BY <1>1 DEF OrphanSerial

LEMMA OrphanStep ==
    ASSUME RequestInv, OrphanSerial, NEW w \in Workers, NEW r \in Requests,
           Turn(w, r), Elsewhere(r),
           NEW o \in Operation, Continue(w, o), o # Idle => o.request = r, KnowsDemand(o)',
           demand'[r] # "NONE" => Exists(r)' /\ (r \in linked' \/ Linking(o, r))
    PROVE  OrphanSerial'
<1>1. /\ Alone' /\ op'[w] = o
      /\ \A v \in Workers \ {w} : op'[v] = op[v]
      /\ \A v \in Workers \ {w} : op[v] = Idle \/ op[v].request \in Requests \ {r}
  BY OneMoves DEF OrphanSerial
<1>2. \A v \in Workers \ {w} : KnowsDemand(op[v])'
  BY <1>1 DEF OrphanSerial, KnowsDemand, Elsewhere, Exists, Idle
<1>3. \A v \in Workers : KnowsDemand(op[v])'
  BY <1>1, <1>2
<1>4. ASSUME NEW q \in Requests \ {r}, demand'[q] # "NONE"
      PROVE  Exists(q)' /\ (q \in linked' \/ \E v \in Workers : Linking(op'[v], q))
  <2>1. Exists(q) /\ (q \in linked \/ \E v \in Workers : Linking(op[v], q))
    BY <1>4 DEF OrphanSerial, Elsewhere
  <2>2. \A v \in Workers : Linking(op[v], q) => v # w
    BY DEF Turn, Linking, Free, Idle
  <2>3. Exists(q)' /\ (q \in linked' <=> q \in linked)
    BY <2>1 DEF Elsewhere, Exists
  <2> QED
    BY <1>1, <2>1, <2>2, <2>3
<1>5. demand'[r] # "NONE" =>
        Exists(r)' /\ (r \in linked' \/ \E v \in Workers : Linking(op'[v], r))
  BY <1>1
<1> QED
  BY <1>1, <1>3, <1>4, <1>5 DEF OrphanSerial

LEMMA OrphanBegin ==
    ASSUME RequestInv, OrphanSerial, Without({"overlap", "crash", "failure"}),
           NEW w \in Workers, NEW r \in Requests, Begin(w, r)
    PROVE  OrphanSerial'
<1>1. Turn(w, r) /\ Elsewhere(r) /\ Free(w)
  BY BeginForms, BeginElsewhere DEF Ready, Without
<1>2. PICK o \in Operation :
        /\ Continue(w, o)
        /\ o # Idle => o.request = r
        /\ o.at # "linking"
        /\ o.at \in {"removing", "looking"} => r \notin linked /\ Exists(r)
  BY BeginForms
<1>3. UNCHANGED <<status, linked, demand>>
  BY BeginForms
<1>4. demand[r] # "NONE" => Exists(r) /\ r \in linked
  BY <1>1, OrphanAlone DEF Linking, Free, Idle
<1>5. KnowsDemand(o)'
  <2>1. o.at \in {"looking", "linking"} => Exists(o.request)'
    BY <1>2, <1>3 DEF Exists, Idle
  <2>2. o.at = "removing" => demand'[o.request] = "NONE"
    BY <1>2, <1>3, <1>4 DEF Idle
  <2> QED
    BY <2>1, <2>2 DEF KnowsDemand
<1>6. demand'[r] # "NONE" => Exists(r)' /\ r \in linked'
  BY <1>3, <1>4 DEF Exists
<1> QED
  BY <1>1, <1>2, <1>5, <1>6, OrphanStep

LEMMA OrphanQueue ==
    ASSUME RequestInv, OrphanSerial, "failure" \notin weather, NEW w \in Workers, QueueStep(w)
    PROVE  OrphanSerial'
<1>1. PICK r \in Requests : r = op[w].request /\ Turn(w, r) /\ Elsewhere(r)
  BY QueueElsewhere
<1>2. KnowsDemand(op[w])
  BY DEF OrphanSerial
<1>3. demand[r] # "NONE" => Exists(r) /\ (r \in linked \/ Linking(op[w], r))
  BY <1>1, OrphanAlone
<1>4. UNCHANGED status
  BY <1>1, QueueForms
<1>5. PICK o \in Operation :
        /\ Continue(w, o)
        /\ o # Idle => o.request = r
        /\ \/ o = Idle /\ op[w].at \notin {"looking", "linking"} /\ UNCHANGED <<linked, demand>>
           \/ o = Idle /\ ~Exists(r) /\ UNCHANGED <<linked, demand>>
           \/ /\ o = Idle /\ op[w].at = "linking" /\ Exists(r)
              /\ linked' = linked \cup {r} /\ UNCHANGED demand
           \/ o.at = "linking" /\ op[w].at = "looking" /\ WithDemand(r) /\ UNCHANGED linked
           \/ o.at = "applying" /\ op[w].at = "polled" /\ UNCHANGED <<linked, demand>>
  BY <1>1, QueueForms
<1>6. Idle \in Operation /\ KnowsDemand(Idle)'
  BY OperationBuilt DEF KnowsDemand, Idle
<1>7. CASE /\ o = Idle \/ o.at = "applying"
           /\ op[w].at # "linking" /\ UNCHANGED <<linked, demand>>
  <2>1. KnowsDemand(o)'
    BY <1>6, <1>7 DEF KnowsDemand
  <2>2. demand'[r] # "NONE" => Exists(r)' /\ r \in linked'
    BY <1>3, <1>4, <1>7 DEF Exists, Linking
  <2> QED
    BY <1>1, <1>5, <2>1, <2>2, OrphanStep
<1>8. CASE o = Idle /\ ~Exists(r) /\ op[w].at = "linking"
  BY <1>1, <1>2, <1>8 DEF KnowsDemand
<1>9. CASE /\ o = Idle /\ op[w].at = "linking" /\ Exists(r)
           /\ linked' = linked \cup {r} /\ UNCHANGED demand
  <2>1. demand'[r] # "NONE" => Exists(r)' /\ r \in linked'
    BY <1>1, <1>3, <1>4, <1>9 DEF Exists, Linking
  <2> QED
    BY <1>1, <1>5, <1>6, <1>9, <2>1, OrphanStep
<1>10. CASE o.at = "linking" /\ op[w].at = "looking" /\ WithDemand(r) /\ UNCHANGED linked
  <2>1. Exists(r)
    BY <1>1, <1>2, <1>10 DEF KnowsDemand
  <2>2. o.request = r
    BY <1>5, <1>10 DEF Idle
  <2>3. KnowsDemand(o)'
    BY <1>4, <1>10, <2>1, <2>2 DEF KnowsDemand, Exists
  <2>4. Exists(r)' /\ Linking(o, r)
    BY <1>4, <1>10, <2>1, <2>2 DEF Exists, Linking
  <2> QED
    BY <1>1, <1>5, <2>3, <2>4, OrphanStep
<1> QED
  BY <1>5, <1>7, <1>8, <1>9, <1>10

LEMMA OrphanWrite ==
    ASSUME RequestInv, OrphanSerial, NEW w \in Workers, WriteStep(w)
    PROVE  OrphanSerial'
<1>1. PICK r \in Requests : r = op[w].request /\ Turn(w, r) /\ Elsewhere(r)
  BY WriteElsewhere
<1>2. KnowsDemand(op[w]) /\ op[w] \in Operation
  BY DEF OrphanSerial, RequestInv, TypeOK
<1>3. op[w].at # "linking"
  BY DEF WriteStep, WriteResponse, WriteUpdate, WriteDate, WriteResolution, Delete,
    ApplyReport, At
<1>4. demand[r] # "NONE" => Exists(r) /\ r \in linked
  BY <1>1, <1>3, OrphanAlone DEF Linking
<1>5. op[w].at = "applying" => mapTaskStatus(op[w].reported) \in RequestStatus
  BY <1>2, MapTyped, OperationFields
<1>6. \A s \in RequestStatus : s \notin NoRow
  BY DEF RequestStatus, NoRow
<1>7. PICK o \in Operation :
        /\ Continue(w, o)
        /\ o = Idle \/ (o.at = "dating" /\ o.request = r)
        /\ \/ UNCHANGED <<status, linked>>
           \/ status'[r] \in RequestStatus /\ (r \in linked => r \in linked')
           \/ op[w].at = "removing"
  <2>1. op[w].at = "applying" => mapTaskStatus(op[w].reported) \in RequestStatus
    BY <1>5
  <2> QED
    BY <1>1, <2>1, WriteForms
<1>8. UNCHANGED demand
  BY <1>1, WriteForms
<1>9. KnowsDemand(o)'
  BY <1>7 DEF KnowsDemand, Idle
<1>10. demand[r] # "NONE" => Exists(r)' /\ r \in linked'
  BY <1>1, <1>2, <1>4, <1>6, <1>7 DEF Exists, KnowsDemand
<1>11. demand'[r] # "NONE" => Exists(r)' /\ r \in linked'
  BY <1>8, <1>10
<1> QED
  BY <1>1, <1>7, <1>9, <1>11, OrphanStep

LEMMA OrphanNext == RequestInv /\ OrphanInv /\ [Next]_vars => OrphanInv'
<1> SUFFICES ASSUME RequestInv, OrphanInv, [Next]_vars,
                    Without({"overlap", "crash", "failure"})'
             PROVE  OrphanSerial'
  BY DEF OrphanInv
<1>1. Without({"overlap", "crash", "failure"}) /\ OrphanSerial
  BY WeatherStays DEF Without, OrphanInv
<1>2. CASE UNCHANGED vars
  BY <1>1, <1>2 DEF vars, row, task, OrphanSerial, Alone, Free, KnowsDemand, Exists
<1>3. ASSUME NEW r \in Requests,
             \/ \E state \in {"DISABLED", "PENDING"} : create(r, state)
             \/ Reclaim(r)
             \/ \E to \in Moves : TaskMoves(r, to)
             \/ LoseReport(r)
      PROVE  OrphanSerial'
  <2>1. UNCHANGED <<linked, op>>
    BY <1>3 DEF create, Reclaim, TaskMoves, LoseReport, row
  <2>2. \A q \in Requests : Exists(q) => Exists(q)'
    <3>1. CASE UNCHANGED status
      BY <3>1 DEF Exists
    <3>2. CASE \E state \in {"DISABLED", "PENDING"} : create(r, state)
      BY <3>2 DEF create, SetStatus, Exists, NoRow, RequestInv, TypeOK
    <3> QED
      BY <1>3, <3>1, <3>2 DEF Reclaim, TaskMoves, LoseReport, row
  <2>3. \A q \in Requests : demand'[q] = "NONE" <=> demand[q] = "NONE"
    <3>1. CASE UNCHANGED demand
      BY <3>1
    <3>2. CASE \E to \in Moves : TaskMoves(r, to)
      <4>1. PICK to \in Moves : TaskMoves(r, to)
        BY <3>2
      <4>2. to # "NONE"
        BY RequestSyncAssumption DEF TaskStatus
      <4> QED
        BY <4>1, <4>2 DEF TaskMoves, RequestInv, TypeOK
    <3> QED
      BY <1>3, <3>1, <3>2 DEF create, Reclaim, LoseReport, task
  <2>4. \A w \in Workers : op[w].at # "idle" => op[w].request \in Requests
    BY OperationFields DEF RequestInv, TypeOK, Idle
  <2>5. \A w \in Workers : KnowsDemand(op[w])'
    BY <1>1, <2>1, <2>2, <2>3, <2>4 DEF OrphanSerial, KnowsDemand
  <2> QED
    BY <1>1, <2>1, <2>2, <2>3, <2>5 DEF OrphanSerial, Alone, Free
<1> QED
  BY <1>1, <1>2, <1>3, StepForms, OrphanBegin, OrphanQueue, OrphanWrite DEF Without

LEMMA OrphanInit == Init => OrphanInv
  BY DEF Init, OrphanInv, OrphanSerial, Alone, Free, KnowsDemand, Idle

\* While operations on a request do not overlap, none is cut short and no answer
\* of the Task is lost, no request is deleted that has a demand, however late or
\* reordered the reports are: the deletion relies on the link, and the link on
\* the answer.
THEOREM DemandsKept == Spec => []NoOrphanDemand
<1>1. OrphanInv => NoOrphanDemand
  BY DEF OrphanInv, OrphanSerial, NoOrphanDemand
<1> QED
  BY <1>1, RequestInit, RequestStep, OrphanInit, OrphanNext, PTL DEF Spec

(***************************************************************************)
(* The status of a request follows its demand                              *)
(***************************************************************************)

\* The last report on its way tells where the demand is; taking the first one
\* leaves it the last, unless it was the only one.
LEMMA LastReport ==
    ASSUME NEW S, NEW s \in Seq(S), s # <<>>
    PROVE  \/ RemoveAt(s, 1) = <<>> /\ s[1] = s[Len(s)]
           \/ /\ RemoveAt(s, 1) # <<>>
              /\ RemoveAt(s, 1)[Len(RemoveAt(s, 1))] = s[Len(s)]
<1>1. PICK n \in Nat : n = Len(s)
  BY LenProperties
<1>2. n >= 1 /\ \A j \in 1 .. n : s[j] \in S
  BY <1>1, EmptySeq, LenProperties, ElementOfSeq
<1>3. PICK t : t = SubSeq(s, 2, n)
  OBVIOUS
<1>4. t \in Seq(S) /\ Len(t) = n - 1 /\ \A i \in 1 .. n - 1 : t[i] = s[i + 1]
  <2>1. \A j \in 2 .. n : s[j] \in S
    BY <1>2
  <2>2. SubSeq(s, 2, n) \in Seq(S) /\ Len(SubSeq(s, 2, n)) = (IF 2 <= n THEN n - 2 + 1 ELSE 0)
    BY <1>1, <2>1, SubSeqProperties
  <2>3. \A i \in 1 .. n - 2 + 1 : SubSeq(s, 2, n)[i] = s[2 + i - 1]
    BY <1>1, <2>1, SubSeqProperties
  <2>4. \A i \in 1 .. n - 1 : i \in 1 .. n - 2 + 1 /\ 2 + i - 1 = i + 1
    BY <1>1
  <2>5. (IF 2 <= n THEN n - 2 + 1 ELSE 0) = n - 1
    BY <1>1, <1>2
  <2> QED
    BY <1>3, <2>2, <2>3, <2>4, <2>5
<1>5. SubSeq(s, 1, 0) = <<>>
  BY <1>1, SubSeqProperties, EmptySeq
<1>6. <<>> \o t = t
  BY <1>4, ConcatProperties, EmptySeq
<1>7. RemoveAt(s, 1) = t
  BY <1>1, <1>3, <1>5, <1>6 DEF RemoveAt
<1>8. CASE n = 1
  <2>1. t = <<>>
    BY <1>4, <1>8, EmptySeq
  <2> QED
    BY <1>1, <1>7, <1>8, <2>1
<1>9. CASE n # 1
  <2>1. n - 1 \in 1 .. n - 1 /\ (n - 1) + 1 = n
    BY <1>1, <1>2, <1>9
  <2>2. t[Len(t)] = s[n]
    BY <1>4, <2>1
  <2>3. Len(<<>>) = 0 /\ Len(t) # 0
    BY <1>1, <1>4, <1>9, EmptySeq
  <2>4. t # <<>>
    BY <2>3
  <2> QED
    BY <1>1, <1>7, <2>2, <2>4
<1> QED
  BY <1>8, <1>9

\* What the panel is about to write is not linked; what a poll or a callback
\* carries is where the demand is, unless another report is on its way.
KnowsReport(o) ==
    /\ o.at \in {"updating", "responding", "dating", "resolving"} => o.request \notin linked
    /\ o.at \in {"polled", "applying"} /\ reports[o.request] = <<>>
        => o.reported = demand[o.request]

Applying(o, r) == o.at = "applying" /\ o.request = r

\* The demand was moved and nothing more is reported about it.
Told(r) == Exists(r) /\ demand[r] \notin {"NONE", "em_aberto"} /\ reports[r] = <<>>

Follows(r) ==
    /\ status[r] = mapTaskStatus(demand[r])
    /\ r \in dated <=> demand[r] = "concluido"
    /\ r \in linked

Reported(r) == reports[r] # <<>> => reports[r][Len(reports[r])] = demand[r]

FollowSerial ==
    /\ Alone
    /\ \A r \in Requests : Reported(r)
    /\ \A w \in Workers : KnowsReport(op[w])
    /\ \A r \in Requests : Told(r) => Follows(r) \/ \E w \in Workers : Applying(op[w], r)

FollowInv == Without({"overlap", "unordered", "crash"}) => FollowSerial

LEMMA FollowAlone ==
    ASSUME FollowSerial, NEW w \in Workers, NEW r \in Requests, Turn(w, r), Told(r)
    PROVE  Follows(r) \/ Applying(op[w], r)
<1>1. ASSUME NEW v \in Workers, Applying(op[v], r)
      PROVE  v = w
  <2>1. ~Free(v)
    BY <1>1 DEF Applying, Free, Idle
  <2> QED
    BY <1>1, <2>1 DEF FollowSerial, Alone, Turn, Busy, Applying
<1> QED
  BY <1>1 DEF FollowSerial

LEMMA FollowStep ==
    ASSUME RequestInv, FollowSerial, NEW w \in Workers, NEW r \in Requests,
           Turn(w, r), Elsewhere(r),
           NEW o \in Operation, Continue(w, o), o # Idle => o.request = r, KnowsReport(o)',
           Reported(r)', Told(r)' => Follows(r)' \/ Applying(o, r)
    PROVE  FollowSerial'
<1>1. /\ Alone' /\ op'[w] = o
      /\ \A v \in Workers \ {w} : op'[v] = op[v]
      /\ \A v \in Workers \ {w} : op[v] = Idle \/ op[v].request \in Requests \ {r}
  BY OneMoves DEF FollowSerial
<1>2. \A v \in Workers \ {w} : KnowsReport(op[v])'
  BY <1>1 DEF FollowSerial, KnowsReport, Elsewhere, Idle
<1>3. \A v \in Workers : KnowsReport(op[v])'
  BY <1>1, <1>2
<1>4. ASSUME NEW q \in Requests \ {r}
      PROVE  /\ Reported(q)'
             /\ Told(q)' => Follows(q)' \/ \E v \in Workers : Applying(op'[v], q)
  <2>1. Reported(q)' /\ (Told(q)' => Told(q)) /\ (Follows(q) => Follows(q)')
    BY DEF FollowSerial, Reported, Told, Follows, Exists, Elsewhere
  <2>2. \A v \in Workers : Applying(op[v], q) => v # w
    BY DEF Turn, Applying, Free, Idle
  <2> QED
    BY <1>1, <2>1, <2>2 DEF FollowSerial
<1>5. Told(r)' => Follows(r)' \/ \E v \in Workers : Applying(op'[v], r)
  BY <1>1
<1>6. \A q \in Requests :
        /\ Reported(q)'
        /\ Told(q)' => Follows(q)' \/ \E v \in Workers : Applying(op'[v], q)
  BY <1>4, <1>5
<1> QED
  BY <1>1, <1>3, <1>6 DEF FollowSerial

LEMMA FollowBegin ==
    ASSUME RequestInv, FollowSerial, Without({"overlap", "unordered", "crash"}),
           NEW w \in Workers, NEW r \in Requests, Begin(w, r)
    PROVE  FollowSerial'
<1>1. Turn(w, r) /\ Elsewhere(r) /\ Free(w)
  BY BeginForms, BeginElsewhere DEF Ready, Without
<1>2. "unordered" \notin weather
  BY DEF Without
<1>3. PICK o \in Operation :
        /\ Continue(w, o)
        /\ o # Idle => o.request = r
        /\ o.at # "dating"
        /\ o.at \in {"updating", "responding", "resolving"} => r \notin linked
        /\ o.at = "polled" => o.reported = demand[r]
        /\ \/ reports' = reports /\ o.at \notin {"idle", "applying"}
           \/ /\ 1 \in DOMAIN reports[r]
              /\ reports' = [reports EXCEPT ![r] = RemoveAt(@, 1)]
              /\ \/ o.at = "applying" /\ o.reported = reports[r][1]
                 \/ o = Idle /\ ~Exists(r)
  BY <1>2, BeginForms
<1>4. UNCHANGED <<status, linked, dated, demand>>
  BY BeginForms
<1>5. Told(r) => Follows(r)
  BY <1>1, FollowAlone DEF Applying, Free, Idle
<1>6. Reported(r)
  BY DEF FollowSerial
<1>7. CASE reports' = reports /\ o.at \notin {"idle", "applying"}
  <2>1. o.request = r
    BY <1>3, <1>7 DEF Idle
  <2>2. KnowsReport(o)'
    BY <1>3, <1>4, <1>7, <2>1 DEF KnowsReport
  <2>3. Reported(r)'
    BY <1>4, <1>6, <1>7 DEF Reported
  <2>4. Told(r)' => Follows(r)'
    BY <1>4, <1>5, <1>7 DEF Told, Follows, Exists
  <2> QED
    BY <1>1, <1>3, <2>2, <2>3, <2>4, FollowStep
<1>8. CASE /\ 1 \in DOMAIN reports[r]
           /\ reports' = [reports EXCEPT ![r] = RemoveAt(@, 1)]
           /\ \/ o.at = "applying" /\ o.reported = reports[r][1]
              \/ o = Idle /\ ~Exists(r)
  <2>1. reports \in [Requests -> Seq(TaskStatus)]
    BY DEF RequestInv, TypeOK
  <2>2. reports[r] \in Seq(TaskStatus) /\ reports[r] # <<>>
    BY <1>8, <2>1, EmptySeq
  <2>3. reports'[r] = RemoveAt(reports[r], 1)
    BY <1>8, <2>1
  <2>4. reports[r][Len(reports[r])] = demand[r]
    BY <1>6, <2>2 DEF Reported
  <2>5. \/ reports'[r] = <<>> /\ reports[r][1] = demand[r]
        \/ reports'[r] # <<>> /\ reports'[r][Len(reports'[r])] = demand[r]
    BY <2>2, <2>3, <2>4, LastReport
  <2>6. Reported(r)'
    BY <1>4, <1>6, <2>3, <2>5 DEF Reported
  <2>7. KnowsReport(o)'
    BY <1>3, <1>4, <1>8, <2>5 DEF KnowsReport, Idle
  <2>9. Told(r)' => Applying(o, r)
    BY <1>3, <1>4, <1>8 DEF Told, Exists, Applying, Idle
  <2> QED
    BY <1>1, <1>3, <2>6, <2>7, <2>9, FollowStep
<1> QED
  BY <1>3, <1>7, <1>8

LEMMA FollowQueue ==
    ASSUME RequestInv, FollowSerial, NEW w \in Workers, QueueStep(w)
    PROVE  FollowSerial'
<1>1. PICK r \in Requests : r = op[w].request /\ Turn(w, r) /\ Elsewhere(r)
  BY QueueElsewhere
<1>2. KnowsReport(op[w])
  BY DEF FollowSerial
<1>3. op[w].at # "applying"
  BY DEF QueueStep, Rearm, ClaimedIsGone, EnsureDemand, DemandFails, saveTaskLink, MarkRetry,
    ApplyPoll, At
<1>4. Told(r) => Follows(r)
  BY <1>1, <1>3, FollowAlone DEF Applying
<1>5. UNCHANGED <<status, dated, reports>>
  BY <1>1, QueueForms
<1>6. PICK o \in Operation :
        /\ Continue(w, o)
        /\ o # Idle => o.request = r
        /\ \/ /\ o = Idle \/ o.at \in {"linking", "failing"}
              /\ linked \subseteq linked'
              /\ WithDemand(r) \/ UNCHANGED demand
           \/ /\ o.at = "applying" /\ op[w].at = "polled" /\ o.reported = op[w].reported
              /\ UNCHANGED <<linked, demand>>
  <2>1. linked' = linked \cup {r} \/ linked' = linked => linked \subseteq linked'
    OBVIOUS
  <2> QED
    BY <1>1, <2>1, QueueForms
<1>7. Reported(r)
  BY DEF FollowSerial
<1>8. demand[r] = "NONE" => reports[r] = <<>>
  BY DEF RequestInv, RowsMatch
<1>9. \/ demand'[r] = demand[r]
      \/ demand[r] = "NONE" /\ demand'[r] = "em_aberto"
  BY <1>6 DEF WithDemand, RequestInv, TypeOK
<1>10. Reported(r)'
  BY <1>5, <1>7, <1>8, <1>9 DEF Reported
<1>11. KnowsReport(o)'
  <2>1. CASE o = Idle \/ o.at \in {"linking", "failing"}
    BY <2>1 DEF KnowsReport, Idle
  <2>2. CASE /\ o.at = "applying" /\ op[w].at = "polled" /\ o.reported = op[w].reported
             /\ UNCHANGED <<linked, demand>>
    BY <1>1, <1>2, <1>5, <1>6, <2>2 DEF KnowsReport, Idle
  <2> QED
    BY <1>6, <2>1, <2>2
<1>12. linked \subseteq linked'
  BY <1>6
<1>13. Told(r)' => Follows(r)'
  BY <1>4, <1>5, <1>9, <1>12 DEF Told, Follows, Exists
<1> QED
  BY <1>1, <1>6, <1>10, <1>11, <1>13, FollowStep

\* A concluded demand, and no other, completes its request.
LEMMA CompletedIsConcluded == \A t : mapTaskStatus(t) = "COMPLETED" <=> t = "concluido"
  BY DEF mapTaskStatus

LEMMA FollowWrite ==
    ASSUME RequestInv, FollowSerial, DatedSerial, NEW w \in Workers, WriteStep(w)
    PROVE  FollowSerial'
<1>1. PICK r \in Requests : r = op[w].request /\ Turn(w, r) /\ Elsewhere(r)
  BY WriteElsewhere
<1>2. KnowsReport(op[w]) /\ KnowsDate(op[w])
  BY DEF FollowSerial, DatedSerial
<1>3. Told(r) => Follows(r) \/ Applying(op[w], r)
  BY <1>1, FollowAlone
<1>4. UNCHANGED <<demand, reports>>
  BY <1>1, WriteForms
<1>5. Reported(r)'
  BY <1>4 DEF FollowSerial, Reported
<1>7. PICK o \in Operation :
        /\ Continue(w, o)
        /\ \/ o = Idle /\ ~Exists(r) /\ UNCHANGED <<status, linked>>
           \/ /\ op[w].at \in {"updating", "responding"} /\ Exists(r) /\ UNCHANGED linked
              /\ o = Idle \/ (o.at = "dating" /\ o.request = r)
           \/ o = Idle /\ op[w].at \in {"dating", "resolving"} /\ UNCHANGED <<status, linked>>
           \/ o = Idle /\ op[w].at = "removing" /\ status'[r] = "REMOVED"
           \/ /\ o = Idle /\ op[w].at = "applying" /\ Exists(r)
              /\ status'[r] = mapTaskStatus(op[w].reported)
              /\ Dates(r, op[w], mapTaskStatus(op[w].reported))
              /\ linked' = linked \cup {r}
  BY <1>1, WriteForms
<1>8. ASSUME KnowsReport(o)', Told(r)' => Follows(r)' \/ Applying(o, r)
      PROVE  FollowSerial'
  BY <1>1, <1>5, <1>7, <1>8, FollowStep
<1>9. KnowsReport(Idle)'
  BY DEF KnowsReport, Idle
<1>10. CASE o = Idle /\ ~Exists(r) /\ UNCHANGED <<status, linked>>
  BY <1>8, <1>9, <1>10 DEF Told, Exists
<1>11. CASE /\ op[w].at \in {"updating", "responding"} /\ Exists(r) /\ UNCHANGED linked
            /\ o = Idle \/ (o.at = "dating" /\ o.request = r)
  <2>1. r \notin linked
    BY <1>1, <1>2, <1>11 DEF KnowsReport
  <2>2. ~Told(r)'
    BY <1>3, <1>4, <1>11, <2>1 DEF Told, Follows, Applying
  <2>3. KnowsReport(o)'
    BY <1>9, <1>11, <2>1 DEF KnowsReport
  <2> QED
    BY <1>8, <2>2, <2>3
<1>12. CASE o = Idle /\ op[w].at \in {"dating", "resolving"} /\ UNCHANGED <<status, linked>>
  <2>1. r \notin linked
    BY <1>1, <1>2, <1>12 DEF KnowsReport
  <2>2. ~Told(r)'
    BY <1>3, <1>4, <1>12, <2>1 DEF Told, Follows, Applying, Exists
  <2> QED
    BY <1>8, <1>9, <1>12, <2>2
<1>13. CASE o = Idle /\ op[w].at = "removing" /\ status'[r] = "REMOVED"
  BY <1>8, <1>9, <1>13 DEF Told, Exists, NoRow
<1>14. CASE /\ o = Idle /\ op[w].at = "applying" /\ Exists(r)
            /\ status'[r] = mapTaskStatus(op[w].reported)
            /\ Dates(r, op[w], mapTaskStatus(op[w].reported))
            /\ linked' = linked \cup {r}
  <2>1. ASSUME Told(r)'
        PROVE  Follows(r)'
    <3>1. op[w].reported = demand[r] /\ demand'[r] = demand[r]
      BY <1>1, <1>2, <1>4, <1>14, <2>1 DEF KnowsReport, Told
    <3>2. r \in dated => op[w].completed
      <4>1. r \in dated => status[r] = "COMPLETED"
        BY <1>1, <1>14, DatedAlone DEF Dating
      <4> QED
        BY <1>1, <1>2, <1>14, <4>1 DEF KnowsDate
    <3>3. r \in dated' <=> demand[r] = "concluido"
      BY <1>14, <3>1, <3>2, CompletedIsConcluded DEF Dates
    <3> QED
      BY <1>14, <3>1, <3>3 DEF Follows
  <2> QED
    BY <1>8, <1>9, <1>14, <2>1
<1> QED
  BY <1>7, <1>10, <1>11, <1>12, <1>13, <1>14

LEMMA FollowNext == RequestInv /\ DatedInv /\ FollowInv /\ [Next]_vars => FollowInv'
<1> SUFFICES ASSUME RequestInv, DatedInv, FollowInv, [Next]_vars,
                    Without({"overlap", "unordered", "crash"})'
             PROVE  FollowSerial'
  BY DEF FollowInv
<1>1. Without({"overlap", "unordered", "crash"}) /\ FollowSerial /\ DatedSerial
  BY WeatherStays DEF Without, FollowInv, DatedInv
<1>2. CASE UNCHANGED vars
  BY <1>1, <1>2 DEF vars, row, task, FollowSerial, Alone, Free, KnowsReport, Reported, Told,
    Follows, Exists
<1>3. ASSUME NEW r \in Requests,
             \/ \E state \in {"DISABLED", "PENDING"} : create(r, state)
             \/ Reclaim(r)
             \/ \E to \in Moves : TaskMoves(r, to)
             \/ LoseReport(r)
      PROVE  FollowSerial'
  <2>1. UNCHANGED <<linked, dated, op>>
    BY <1>3 DEF create, Reclaim, TaskMoves, LoseReport, row
  <2>2. ~LoseReport(r)
    BY <1>1 DEF LoseReport, Without
  <2>3. /\ status \in [Requests -> RequestStatus \cup NoRow]
        /\ demand \in [Requests -> TaskStatus \cup {"NONE"}]
        /\ reports \in [Requests -> Seq(TaskStatus)]
    BY DEF RequestInv, TypeOK
  <2>4. CASE \E state \in {"DISABLED", "PENDING"} : create(r, state)
    <3>1. /\ status[r] = "ABSENT" /\ UNCHANGED <<demand, reports>>
          /\ \A q \in Requests \ {r} : status'[q] = status[q]
      BY <2>3, <2>4 DEF create, SetStatus, task
    <3>2. demand[r] = "NONE"
      BY <3>1 DEF RequestInv, RowsMatch
    <3>3. \A w \in Workers : KnowsReport(op[w])'
      BY <1>1, <2>1, <3>1 DEF FollowSerial, KnowsReport
    <3>4. \A q \in Requests : Reported(q)'
      BY <1>1, <3>1 DEF FollowSerial, Reported
    <3>5. \A q \in Requests : Told(q)' => Told(q) /\ q # r
      BY <3>1, <3>2 DEF Told, Exists
    <3>6. \A q \in Requests \ {r} : Follows(q) => Follows(q)'
      BY <2>1, <3>1 DEF Follows
    <3> QED
      BY <1>1, <2>1, <3>3, <3>4, <3>5, <3>6 DEF FollowSerial, Alone, Free
  <2>5. CASE Reclaim(r)
    <3>1. UNCHANGED <<status, demand, reports>>
      BY <2>5 DEF Reclaim, task
    <3> QED
      BY <1>1, <2>1, <3>1 DEF FollowSerial, Alone, Free, KnowsReport, Reported, Told, Follows,
        Exists
  <2>6. CASE \E to \in Moves : TaskMoves(r, to)
    <3>1. PICK to \in Moves : TaskMoves(r, to)
      BY <2>6
    <3>2. to \in TaskStatus
      BY RequestSyncAssumption
    <3>3. /\ demand'[r] = to /\ reports'[r] = Append(reports[r], to) /\ UNCHANGED status
          /\ \A q \in Requests \ {r} : demand'[q] = demand[q] /\ reports'[q] = reports[q]
      BY <2>3, <3>1 DEF TaskMoves, row
    <3>4. reports'[r] # <<>> /\ reports'[r][Len(reports'[r])] = to
      <4>1. reports[r] \in Seq(TaskStatus)
        BY <2>3
      <4> QED
        BY <3>2, <3>3, <4>1, AppendProperties, LenProperties, EmptySeq
    <3>5. \A q \in Requests : Reported(q)'
      BY <1>1, <3>3, <3>4 DEF FollowSerial, Reported
    <3>6. \A w \in Workers : op[w].at # "idle" => op[w].request \in Requests
      BY OperationFields DEF RequestInv, TypeOK, Idle
    <3>7. \A w \in Workers : KnowsReport(op[w])'
      BY <1>1, <2>1, <3>3, <3>4, <3>6 DEF FollowSerial, KnowsReport
    <3>8. \A q \in Requests : Told(q)' => Told(q) /\ q # r
      BY <3>3, <3>4 DEF Told, Exists
    <3>9. \A q \in Requests \ {r} : Follows(q) => Follows(q)'
      BY <2>1, <3>3 DEF Follows
    <3> QED
      BY <1>1, <2>1, <3>5, <3>7, <3>8, <3>9 DEF FollowSerial, Alone, Free
  <2> QED
    BY <1>3, <2>2, <2>4, <2>5, <2>6
<1> QED
  BY <1>1, <1>2, <1>3, StepForms, FollowBegin, FollowQueue, FollowWrite DEF Without

LEMMA FollowInit == Init => FollowInv
  BY DEF Init, FollowInv, FollowSerial, Alone, Free, KnowsReport, Reported, Told, Idle

\* While operations on a request do not overlap, none is cut short and reports
\* arrive once and in order, whatever fails and whatever the panel changed before
\* the link, a request nobody works on has the status and the date of its demand.
THEOREM StatusFollowed == Spec => []StatusFollowsTask
<1>1. FollowInv => StatusFollowsTask
  <2> SUFFICES ASSUME FollowSerial, NEW r \in Requests, Told(r), ~Busy(r)
               PROVE  Follows(r)
    BY DEF FollowInv, StatusFollowsTask, Told, Follows
  <2>1. \A w \in Workers : ~Applying(op[w], r)
    BY DEF Busy, Applying, Free, Idle
  <2> QED
    BY <2>1 DEF FollowSerial
<1> QED
  BY <1>1, RequestInit, RequestStep, DatedInit, DatedNext, FollowInit, FollowNext, PTL DEF Spec

=============================================================================
