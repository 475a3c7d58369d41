----------------------------- MODULE RequestSync -----------------------------
(***************************************************************************)
(* Requests ("Demandas"): opened in the panel, most of them carried out in *)
(* Luxus Task.  A queue creates a demand for each; from then on the Task   *)
(* owns the status of the request and reports its changes, one message per *)
(* change.  Before, the panel may change the status or delete the request. *)
(*                                                                         *)
(* A worker is a request, a callback or a run of the queue on any replica; *)
(* what it read before an await travels in its record.  Every write names  *)
(* the row by id only, except the claim.                                   *)
(***************************************************************************)
EXTENDS Naturals, Sequences, SequencesExt

CONSTANTS
    Requests,
    Workers,
    Moves,       \* statuses to which the Task moves a demand
    Weathers,    \* sets of faults to consider: a subset of one allows no step more
    MaxReports   \* bound: reports of a demand that are on their way

Faults ==
    {"crash",      \* a replica stops in the middle of an operation
     "failure",    \* a request to the Task fails or its answer is lost
     "slow",       \* an operation outlives the 5 minutes of its claim
     "unordered",  \* reports are lost, duplicated or reordered
     "overlap"}    \* operations on one request overlap

TaskStatus == {"em_aberto", "em_andamento", "concluido", "standby", "cancelado", "other"}

ASSUME RequestSyncAssumption ==
    /\ Moves \subseteq TaskStatus \ {"em_aberto"}
    /\ Weathers \subseteq SUBSET Faults
    /\ MaxReports \in Nat

VARIABLES
    weather,  \* the faults that may happen, chosen once and for all
    status,   \* status[r]: Request.status, or why there is no row
    sync,     \* sync[r]: taskSyncState
    linked,   \* the requests with a taskDemandId
    dated,    \* the requests with a completedAt
    demand,   \* demand[r]: status of the demand in Luxus Task, or NONE
    reports,  \* reports[r]: statuses reported and not delivered yet
    op        \* op[w]: the operation worker w is in the middle of

row == <<status, sync, linked, dated>>
task == <<demand, reports>>
vars == <<weather, row, task, op>>

RequestStatus == {"OPEN", "IN_ANALYSIS", "IN_PROGRESS", "COMPLETED", "REJECTED"}

NoRow == {"ABSENT", "REMOVED"}

Claimable == {"PENDING", "RETRY"}

SyncState == Claimable \cup {"DISABLED", "PROCESSING", "SYNCED"}

REQUEST_STATUS_TRANSITIONS ==
    [OPEN |-> {"IN_ANALYSIS", "IN_PROGRESS", "REJECTED"},
     IN_ANALYSIS |-> {"OPEN", "IN_PROGRESS", "REJECTED"},
     IN_PROGRESS |-> {"IN_ANALYSIS", "COMPLETED", "REJECTED"},
     COMPLETED |-> {"IN_PROGRESS"},
     REJECTED |-> {"IN_ANALYSIS"}]

\* Mutant: a status the map does not know is kept as it came.
mapTaskStatus_Raw(reported) ==
    CASE reported = "em_aberto" -> "OPEN"
      [] reported = "em_andamento" -> "IN_PROGRESS"
      [] reported = "concluido" -> "COMPLETED"
      [] reported = "cancelado" -> "REJECTED"
      [] OTHER -> reported

mapTaskStatus(reported) ==
    CASE reported = "em_aberto" -> "OPEN"
      [] reported = "em_andamento" -> "IN_PROGRESS"
      [] reported = "concluido" -> "COMPLETED"
      [] reported = "cancelado" -> "REJECTED"
      [] OTHER -> "IN_ANALYSIS"

Idle == [at |-> "idle"]

Operation ==
    {Idle}
    \* the queue, with a claim: before getDemand, before and after its outcome
    \cup [at : {"looking", "linking", "failing"}, request : Requests]
    \* accepted, about to write
    \cup [at : {"retrying", "removing", "resolving"}, request : Requests]
    \* a report or a poll, before and after the read of the request
    \cup [at : {"polled"}, request : Requests, reported : TaskStatus]
    \cup [at : {"applying"}, request : Requests, reported : TaskStatus, completed : BOOLEAN]
    \* a change of status in the panel; its date is a second write of update
    \cup [at : {"updating", "responding", "dating"}, request : Requests,
          completed : BOOLEAN, target : RequestStatus]

Exists(r) == status[r] \notin NoRow

Free(w) == op[w] = Idle

Busy(r) == \E w \in Workers : ~Free(w) /\ op[w].request = r

\* w may start an operation on r.
Ready(w, r) == Free(w) /\ ("overlap" \in weather \/ ~Busy(r))

At(w, point) == op[w].at = point

Continue(w, operation) == op' = [op EXCEPT ![w] = operation]

Done(w) == Continue(w, Idle)

SetSync(r, state) == sync' = [sync EXCEPT ![r] = state]

SetStatus(r, state) == status' = [status EXCEPT ![r] = state]

TypeOK ==
    /\ weather \in Weathers
    /\ status \in [Requests -> RequestStatus \cup NoRow]
    /\ sync \in [Requests -> SyncState]
    /\ linked \in SUBSET Requests
    /\ dated \in SUBSET Requests
    /\ demand \in [Requests -> TaskStatus \cup {"NONE"}]
    /\ reports \in [Requests -> Seq(TaskStatus)]
    /\ op \in [Workers -> Operation]

Init ==
    /\ weather \in Weathers
    /\ status = [r \in Requests |-> "ABSENT"]
    /\ sync = [r \in Requests |-> "DISABLED"]
    /\ linked = {}
    /\ dated = {}
    /\ demand = [r \in Requests |-> "NONE"]
    /\ reports = [r \in Requests |-> <<>>]
    /\ op = [w \in Workers |-> Idle]

(***************************************************************************)
(* RequestsService: create, update, respond, remove, retryTaskSync         *)
(***************************************************************************)

\* To be carried out in the Task, or in the panel (resolveInternally).
create(r, state) ==
    /\ status[r] = "ABSENT"
    /\ SetStatus(r, "OPEN")
    /\ SetSync(r, state)
    /\ UNCHANGED <<weather, linked, dated, task, op>>

\* update and respond: refused once the request is linked.  An update may
\* name the status the request has.
changeStatus(w, r, point, target) ==
    /\ Ready(w, r)
    /\ Exists(r)
    /\ r \notin linked
    /\ \/ target \in REQUEST_STATUS_TRANSITIONS[status[r]]
       \/ point = "updating" /\ target = status[r]
    /\ Continue(w, [at |-> point, request |-> r,
                    completed |-> status[r] = "COMPLETED", target |-> target])
    /\ UNCHANGED <<weather, row, task>>

\* Mutant: reopening keeps the date.
DateFrom_Kept(r, completed, target) ==
    dated' = IF target = "COMPLETED" THEN dated \cup {r} ELSE dated

DateFrom(r, completed, target) ==
    dated' = IF target = "COMPLETED" THEN dated \cup {r}
             ELSE IF completed THEN dated \ {r} ELSE dated

\* respond writes the status and the date in one update.
WriteResponse(w) ==
    /\ At(w, "responding")
    /\ IF Exists(op[w].request)
       THEN /\ SetStatus(op[w].request, op[w].target)
            /\ DateFrom(op[w].request, op[w].completed, op[w].target)
       ELSE UNCHANGED <<status, dated>>
    /\ Done(w)
    /\ UNCHANGED <<weather, sync, linked, task>>

\* update writes them one after the other, the date if the status changes.
WriteUpdate(w) ==
    /\ At(w, "updating")
    /\ IF Exists(op[w].request)
       THEN /\ SetStatus(op[w].request, op[w].target)
            /\ Continue(w, [op[w] EXCEPT !.at = "dating"])
       ELSE UNCHANGED status /\ Done(w)
    /\ UNCHANGED <<weather, sync, linked, dated, task>>

WriteDate(w) ==
    /\ At(w, "dating")
    /\ IF Exists(op[w].request) /\ ~(op[w].completed /\ op[w].target = "COMPLETED")
       THEN DateFrom(op[w].request, op[w].completed, op[w].target)
       ELSE UNCHANGED dated
    /\ Done(w)
    /\ UNCHANGED <<weather, status, sync, linked, task>>

\* respond with a resolution and no status: of a complete request it clears
\* the date.
changeResolution(w, r) ==
    /\ Ready(w, r)
    /\ status[r] = "COMPLETED"
    /\ r \notin linked
    /\ Continue(w, [at |-> "resolving", request |-> r])
    /\ UNCHANGED <<weather, row, task>>

WriteResolution(w) ==
    /\ At(w, "resolving")
    /\ dated' = dated \ {op[w].request}
    /\ Done(w)
    /\ UNCHANGED <<weather, status, sync, linked, task>>

\* Mutant: only the status is looked at.
Removable_Linked(r) == status[r] # "COMPLETED"

Removable(r) == r \notin linked /\ status[r] # "COMPLETED"

\* remove and bulkRemove.
remove(w, r) ==
    /\ Ready(w, r)
    /\ Exists(r)
    /\ Removable(r)
    /\ Continue(w, [at |-> "removing", request |-> r])
    /\ UNCHANGED <<weather, row, task>>

Delete(w) ==
    /\ At(w, "removing")
    /\ LET r == op[w].request IN
        /\ SetStatus(r, "REMOVED")
        /\ linked' = linked \ {r}
        /\ dated' = dated \ {r}
    /\ Done(w)
    /\ UNCHANGED <<weather, sync, task>>

retryTaskSync(w, r) ==
    /\ Ready(w, r)
    /\ Exists(r)
    /\ r \notin linked
    /\ sync[r] # "DISABLED"
    /\ Continue(w, [at |-> "retrying", request |-> r])
    /\ UNCHANGED <<weather, row, task>>

\* Written whatever became of the request; then the queue runs.
Rearm(w) ==
    /\ At(w, "retrying")
    /\ IF Exists(op[w].request) THEN SetSync(op[w].request, "PENDING") ELSE UNCHANGED sync
    /\ Done(w)
    /\ UNCHANGED <<weather, status, linked, dated, task>>

(***************************************************************************)
(* RequestsService.processTaskSyncQueue, sendToTask and saveTaskLink       *)
(***************************************************************************)

\* Mutant: looks for the requests that wait instead of those that are stuck.
Stuck_Waiting(r) == Exists(r) /\ sync[r] = "RETRY"

\* Claimed for more than 5 minutes.
Stuck(r) ==
    /\ Exists(r)
    /\ sync[r] = "PROCESSING"
    /\ "slow" \in weather
       \/ ~\E w \in Workers : op[w].at \in {"looking", "linking", "failing"} /\ op[w].request = r

Reclaim(r) ==
    /\ Stuck(r)
    /\ SetSync(r, "RETRY")
    /\ UNCHANGED <<weather, status, linked, dated, task, op>>

Claim(w, r) ==
    /\ Ready(w, r)
    /\ Exists(r)
    /\ r \notin linked
    /\ sync[r] \in Claimable
    /\ SetSync(r, "PROCESSING")
    /\ Continue(w, [at |-> "looking", request |-> r])
    /\ UNCHANGED <<weather, status, linked, dated, task>>

\* A demand that getDemand does not find is created.
WithDemand(r) == demand' = [demand EXCEPT ![r] = IF @ = "NONE" THEN "em_aberto" ELSE @]

\* The row is gone before it is read: the run of the queue ends with an error.
ClaimedIsGone(w) ==
    /\ At(w, "looking")
    /\ ~Exists(op[w].request)
    /\ Done(w)
    /\ UNCHANGED <<weather, row, task>>

EnsureDemand(w) ==
    /\ At(w, "looking")
    /\ WithDemand(op[w].request)
    /\ Continue(w, [op[w] EXCEPT !.at = "linking"])
    /\ UNCHANGED <<weather, row, reports>>

DemandFails(w) ==
    /\ "failure" \in weather
    /\ At(w, "looking")
    /\ WithDemand(op[w].request) \/ UNCHANGED demand
    /\ Continue(w, [op[w] EXCEPT !.at = "failing"])
    /\ UNCHANGED <<weather, row, reports>>

\* Mutant: the state is written without the id of the demand.
saveTaskLink_Unlinked(w) ==
    /\ At(w, "linking")
    /\ SetSync(op[w].request, "SYNCED")
    /\ Done(w)
    /\ UNCHANGED <<weather, status, linked, dated, task>>

\* Of a request deleted meanwhile nothing can be written: the run ends.
saveTaskLink(w) ==
    /\ At(w, "linking")
    /\ IF Exists(op[w].request)
       THEN /\ SetSync(op[w].request, "SYNCED")
            /\ linked' = linked \cup {op[w].request}
       ELSE UNCHANGED <<sync, linked>>
    /\ Done(w)
    /\ UNCHANGED <<weather, status, dated, task>>

MarkRetry(w) ==
    /\ At(w, "failing")
    /\ IF Exists(op[w].request) THEN SetSync(op[w].request, "RETRY") ELSE UNCHANGED sync
    /\ Done(w)
    /\ UNCHANGED <<weather, status, linked, dated, task>>

(***************************************************************************)
(* Luxus Task: it moves a demand and reports every move                    *)
(***************************************************************************)

TaskMoves(r, to) ==
    /\ demand[r] \notin {"NONE", to}
    /\ Len(reports[r]) < MaxReports
    /\ demand' = [demand EXCEPT ![r] = to]
    /\ reports' = [reports EXCEPT ![r] = Append(@, to)]
    /\ UNCHANGED <<weather, row, op>>

LoseReport(r) ==
    /\ "unordered" \in weather
    /\ \E i \in DOMAIN reports[r] : reports' = [reports EXCEPT ![r] = RemoveAt(@, i)]
    /\ UNCHANGED <<weather, row, demand, op>>

(***************************************************************************)
(* TaskIntegrationService.applyCallback, of a report or of a poll          *)
(***************************************************************************)

\* The read of the request; without it the callback is an error.
Receive(w, r, reported) ==
    IF Exists(r)
    THEN Continue(w, [at |-> "applying", request |-> r, reported |-> reported,
                      completed |-> status[r] = "COMPLETED"])
    ELSE Done(w)

ReceiveReport(w, r) ==
    /\ Ready(w, r)
    /\ \E i \in DOMAIN reports[r] :
        /\ i = 1 \/ "unordered" \in weather
        /\ \/ reports' = [reports EXCEPT ![r] = RemoveAt(@, i)]
           \/ "unordered" \in weather /\ UNCHANGED reports
        /\ Receive(w, r, reports[r][i])
    /\ UNCHANGED <<weather, row, demand>>

\* getDemand answers for the demand the request is linked to.
syncFromTask(w, r) ==
    /\ Ready(w, r)
    /\ r \in linked
    /\ Continue(w, [at |-> "polled", request |-> r, reported |-> demand[r]])
    /\ UNCHANGED <<weather, row, task>>

ApplyPoll(w) ==
    /\ At(w, "polled")
    /\ Receive(w, op[w].request, op[w].reported)
    /\ UNCHANGED <<weather, row, task>>

\* Mutant: a report about a rejected request is ignored.
Applied_NotRejected(r, reported) ==
    IF status[r] = "REJECTED" THEN UNCHANGED status ELSE SetStatus(r, mapTaskStatus(reported))

Applied(r, reported) == SetStatus(r, mapTaskStatus(reported))

ApplyReport(w) ==
    /\ At(w, "applying")
    /\ LET r == op[w].request IN
        IF Exists(r)
        THEN /\ Applied(r, op[w].reported)
             /\ SetSync(r, "SYNCED")
             /\ linked' = linked \cup {r}
             /\ DateFrom(r, op[w].completed, mapTaskStatus(op[w].reported))
        ELSE UNCHANGED row
    /\ Done(w)
    /\ UNCHANGED <<weather, task>>

\* A replica stops; the Task does not report again.
Crash(w) ==
    /\ "crash" \in weather
    /\ ~Free(w)
    /\ Done(w)
    /\ UNCHANGED <<weather, row, task>>

(***************************************************************************)
(* Specification                                                           *)
(***************************************************************************)

Begin(w, r) ==
    \/ \E point \in {"updating", "responding"}, target \in RequestStatus :
           changeStatus(w, r, point, target)
    \/ changeResolution(w, r)
    \/ remove(w, r)
    \/ retryTaskSync(w, r)
    \/ Claim(w, r)
    \/ ReceiveReport(w, r)
    \/ syncFromTask(w, r)

Proceed(w) ==
    \/ WriteResponse(w)
    \/ WriteUpdate(w)
    \/ WriteDate(w)
    \/ WriteResolution(w)
    \/ Delete(w)
    \/ Rearm(w)
    \/ ClaimedIsGone(w)
    \/ EnsureDemand(w)
    \/ saveTaskLink(w)
    \/ MarkRetry(w)
    \/ ApplyPoll(w)
    \/ ApplyReport(w)

Fault ==
    \/ \E w \in Workers : DemandFails(w) \/ Crash(w)
    \/ \E r \in Requests : LoseReport(r)

Step ==
    \/ \E r \in Requests :
        \/ \E state \in {"DISABLED", "PENDING"} : create(r, state)
        \/ Reclaim(r)
        \/ \E to \in Moves : TaskMoves(r, to)
    \/ \E w \in Workers :
        \/ \E r \in Requests : Begin(w, r)
        \/ Proceed(w)

Next == Step \/ Fault

Spec == Init /\ [][Next]_vars

\* An operation under way goes on; the queue's timer, which does not wait for
\* requests, takes back what is stuck and claims what is due.
Fairness ==
    /\ \A w \in Workers : WF_vars(Proceed(w))
    /\ \A r \in Requests :
        /\ SF_vars(Reclaim(r))
        /\ SF_vars(\E w \in Workers : Claim(w, r))

FairSpec == Spec /\ Fairness

(***************************************************************************)
(* Properties                                                              *)
(***************************************************************************)

Without(faults) == weather \cap faults = {}

\* Whatever overlaps and fails, a request that the panel shows as synced is
\* linked, a linked one has its demand, and one that stays in the panel has
\* none: no worker writes on what it did not make sure of.
RequestMatchesTask ==
    \A r \in Requests :
        Exists(r) =>
            /\ sync[r] = "SYNCED" => r \in linked
            /\ r \in linked => demand[r] # "NONE"
            /\ sync[r] = "DISABLED" => demand[r] = "NONE"

\* When operations on a request do not overlap and reports arrive once and in
\* order, a request nobody works on has the status of its demand: reports, polls,
\* failed syncs and changes made in the panel before the link included.  It has a
\* completion date exactly if the demand is concluded.
StatusFollowsTask ==
    Without({"overlap", "unordered", "crash"})
    => \A r \in Requests :
        /\ Exists(r)
        /\ demand[r] \notin {"NONE", "em_aberto"}
        /\ reports[r] = <<>>
        /\ ~Busy(r)
        => /\ status[r] = mapTaskStatus(demand[r])
           /\ r \in dated <=> demand[r] = "concluido"

\* A request nobody works on has a completion date only if it is complete,
\* whatever became of the second write of an update before it.
DatedIsComplete ==
    Without({"overlap", "crash"})
    => \A r \in Requests : ~Busy(r) /\ r \in dated => status[r] = "COMPLETED"

\* No request is deleted that has a demand, as long as operations on it do not
\* overlap and the answer about the demand was not lost.
NoOrphanDemand ==
    Without({"overlap", "crash", "failure"})
    => \A r \in Requests : demand[r] # "NONE" => Exists(r)

\* Once faults stop, a request in the queue gets its demand or is deleted: no
\* claim is lost with its replica, no retry locks a request out.
RequestIsSent ==
    <>[][Step]_vars
    => \A r \in Requests :
        Exists(r) /\ sync[r] # "DISABLED" ~> r \in linked \/ ~Exists(r)

=============================================================================
