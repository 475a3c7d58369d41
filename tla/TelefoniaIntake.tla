--------------------------- MODULE TelefoniaIntake ---------------------------
(***************************************************************************)
(* The queue that sends concluded sales billed by Luxus to telefonia-2.    *)
(* Every replica runs it on a timer, under the lock of Coordination: it    *)
(* takes back stale claims, lists the sales that are due, and for each of  *)
(* them claims, posts and records the outcome.  A conclusion re-arms the   *)
(* sale on its own, from outside of the lock.                              *)
(*                                                                         *)
(* Only the sales with billedByLuxus are modelled.  Time is abstracted: a  *)
(* retry that is due and a claim older than 5 minutes are choices.         *)
(***************************************************************************)
EXTENDS Coordination, Naturals

CONSTANTS
    Sales,
    Posts    \* bound: up to Posts requests are counted for a sale

Faults ==
    {"crash",     \* a replica stops
     "failure",   \* a request to telefonia-2 fails or its answer is lost
     "slow",      \* a run outlives its lock, a request its claim
     "failover"}  \* Redis stops answering, answers again, loses its data

ASSUME TelefoniaAssumption == Posts \in Nat \ {0, 1}

VARIABLES
    concluded,  \* the sales that are ACTIVATED and COMPLETED
    arming,     \* the sales whose call to enqueue has not ended
    send,       \* send[s]: telefoniaSyncStatus
    posted,     \* posted[s]: requests about s that telefonia-2 accepted
    op          \* op[r]: what the queue's run of replica r is doing

vars == <<entry, weather, concluded, arming, send, posted, op>>

Claimable == {"NOT_READY", "PENDING", "RETRY"}

SendStatus == Claimable \cup {"PROCESSING", "SYNCED"}

Idle == [at |-> "idle"]

Runs ==
    {Idle}
    \cup [at : {"locked", "listing"}]
    \cup [at : {"sending"}, left : SUBSET Sales]
    \cup [at : {"posting", "accepted", "refused"}, sale : Sales, left : SUBSET Sales]

At(r, point) == op[r].at = point

Continue(r, run) == op' = [op EXCEPT ![r] = run]

\* r holds a claim of s, in its own eyes.
Sending(r, s) ==
    /\ op[r].at \in {"posting", "accepted", "refused"}
    /\ op[r].sale = s

SetSend(s, state) == send' = [send EXCEPT ![s] = state]

TypeOK ==
    /\ entry \in EntryType
    /\ \A store \in Stores : entry[store] \in Replicas => op[entry[store]] # Idle
    /\ weather \in SUBSET Faults
    /\ concluded \in SUBSET Sales
    /\ arming \in SUBSET Sales
    /\ send \in [Sales -> SendStatus]
    /\ posted \in [Sales -> 0 .. Posts]
    /\ op \in [Replicas -> Runs]

Init ==
    /\ entry = [store \in Stores |-> "FREE"]
    /\ weather \in SUBSET Faults
    /\ concluded = {}
    /\ arming = {}
    /\ send = [s \in Sales |-> "NOT_READY"]
    /\ posted = [s \in Sales |-> 0]
    /\ op = [r \in Replicas |-> Idle]

(***************************************************************************)
(* The sale: Settlement has how it is concluded and reopened               *)
(***************************************************************************)

\* The concluding callback goes on without waiting for enqueue.
Conclude(s) ==
    /\ s \notin concluded
    /\ concluded' = concluded \cup {s}
    /\ arming' = arming \cup {s}
    /\ UNCHANGED <<entry, weather, send, posted, op>>

\* Any way out of ACTIVATED: none of them touches telefoniaSyncStatus.
Leave(s) ==
    /\ s \in concluded
    /\ concluded' = concluded \ {s}
    /\ UNCHANGED <<entry, weather, arming, send, posted, op>>

\* Mutant: whatever was sent is sent again.
Rearmed_Always(s) == TRUE

Rearmed(s) == send[s] # "SYNCED"

enqueue(s) ==
    /\ s \in arming
    /\ arming' = arming \ {s}
    /\ IF Rearmed(s) THEN SetSend(s, "PENDING") ELSE UNCHANGED send
    /\ UNCHANGED <<entry, weather, concluded, posted, op>>

LoseEnqueue(s) ==
    /\ "crash" \in weather
    /\ s \in arming
    /\ arming' = arming \ {s}
    /\ UNCHANGED <<entry, weather, concluded, send, posted, op>>

(***************************************************************************)
(* runQueue and processQueue                                               *)
(***************************************************************************)

\* A replica whose run goes on (running) does not start another.
runQueue(r) ==
    /\ op[r] = Idle
    /\ acquireLock(r)
    /\ Continue(r, [at |-> "locked"])
    /\ UNCHANGED <<weather, concluded, arming, send, posted>>

InFlight(s) == \E r \in Replicas : Sending(r, s)

\* Claimed for 5 minutes, by a run that stopped unless runs are slow.
MayBeStale(s) ==
    /\ send[s] = "PROCESSING"
    /\ InFlight(s) => "slow" \in weather

Reclaim(r, stale) ==
    /\ At(r, "locked")
    /\ \A s \in stale : MayBeStale(s)
    /\ send' = [s \in Sales |-> IF s \in stale THEN "RETRY" ELSE send[s]]
    /\ Continue(r, [at |-> "listing"])
    /\ UNCHANGED <<entry, weather, concluded, arming, posted>>

\* Mutant: a failed request is final.
Sendable_Once(s) == s \in concluded /\ send[s] \in {"NOT_READY", "PENDING"}

Sendable(s) == s \in concluded /\ send[s] \in Claimable

\* Some of the sales that can be sent: those due, at most three.
List(r, due) ==
    /\ At(r, "listing")
    /\ \A s \in due : Sendable(s)
    /\ Continue(r, [at |-> "sending", left |-> due])
    /\ UNCHANGED <<entry, weather, concluded, arming, send, posted>>

\* sendSale: the conditional update that claims the sale, or gives it up.
Claim(r) ==
    /\ At(r, "sending")
    /\ \E s \in op[r].left :
        IF Sendable(s)
        THEN /\ SetSend(s, "PROCESSING")
             /\ Continue(r, [at |-> "posting", sale |-> s, left |-> op[r].left \ {s}])
        ELSE /\ Continue(r, [at |-> "sending", left |-> op[r].left \ {s}])
             /\ UNCHANGED send
    /\ UNCHANGED <<entry, weather, concluded, arming, posted>>

CountPost(s) == posted' = [posted EXCEPT ![s] = IF @ < Posts THEN @ + 1 ELSE @]

Post(r) ==
    /\ At(r, "posting")
    /\ CountPost(op[r].sale)
    /\ Continue(r, [op[r] EXCEPT !.at = "accepted"])
    /\ UNCHANGED <<entry, weather, concluded, arming, send>>

\* An error, a refusal or a timeout, with or without the sale registered, or
\* an answer that could not be recorded.
PostFails(r) ==
    /\ "failure" \in weather
    /\ At(r, "posting")
    /\ CountPost(op[r].sale) \/ UNCHANGED posted
    /\ Continue(r, [op[r] EXCEPT !.at = "refused"])
    /\ UNCHANGED <<entry, weather, concluded, arming, send>>

NextSale(r) == Continue(r, [at |-> "sending", left |-> op[r].left])

MarkSynced(r) ==
    /\ At(r, "accepted")
    /\ SetSend(op[r].sale, "SYNCED")
    /\ NextSale(r)
    /\ UNCHANGED <<entry, weather, concluded, arming, posted>>

markRetry(r) ==
    /\ At(r, "refused")
    /\ SetSend(op[r].sale, "RETRY")
    /\ NextSale(r)
    /\ UNCHANGED <<entry, weather, concluded, arming, posted>>

\* withLock releases the lock whatever became of the work.
EndRun(r) ==
    /\ At(r, "sending")
    /\ op[r].left = {}
    /\ releaseLock(r)
    /\ Continue(r, Idle)
    /\ UNCHANGED <<weather, concluded, arming, send, posted>>

\* The database fails: the run ends there, with its claim, but releases.
RunFails(r) ==
    /\ "failure" \in weather
    /\ op[r] # Idle
    /\ releaseLock(r)
    /\ Continue(r, Idle)
    /\ UNCHANGED <<weather, concluded, arming, send, posted>>

Crash(r) ==
    /\ "crash" \in weather
    /\ op[r] # Idle
    /\ abandonLock(r)
    /\ Continue(r, Idle)
    /\ UNCHANGED <<weather, concluded, arming, send, posted>>

\* What happens to the entries of the lock on its own.
EntryExpires(store) ==
    /\ Expire(store)
    /\ UNCHANGED <<weather, concluded, arming, send, posted, op>>

EntryLapses(store) ==
    /\ Lapse(store)
    /\ UNCHANGED <<weather, concluded, arming, send, posted, op>>

EntryStrays(store) ==
    /\ Stray(store)
    /\ UNCHANGED <<weather, concluded, arming, send, posted, op>>

(***************************************************************************)
(* Specification                                                           *)
(***************************************************************************)

Proceed(r) ==
    \/ \E stale \in SUBSET Sales : Reclaim(r, stale)
    \/ \E due \in SUBSET Sales : List(r, due)
    \/ Claim(r)
    \/ Post(r)
    \/ MarkSynced(r)
    \/ markRetry(r)
    \/ EndRun(r)

Fault ==
    \/ \E r \in Replicas : PostFails(r) \/ RunFails(r) \/ Crash(r)
    \/ \E s \in Sales : LoseEnqueue(s)
    \/ \E store \in Stores : EntryLapses(store) \/ EntryStrays(store)

Step ==
    \/ \E s \in Sales : Conclude(s) \/ Leave(s) \/ enqueue(s)
    \/ \E r \in Replicas : runQueue(r) \/ Proceed(r)
    \/ \E store \in Stores : EntryExpires(store)

Next == Step \/ Fault

Spec == Init /\ [][Next]_vars

ReclaimOf(s) == \E r \in Replicas, stale \in SUBSET Sales : s \in stale /\ Reclaim(r, stale)

ListOf(s) == \E r \in Replicas, due \in SUBSET Sales : s \in due /\ List(r, due)

\* Runs go on and entries expire; the timers keep trying the lock; what is
\* stale or due and stays so comes up in some run.
Fairness ==
    /\ \A r \in Replicas : WF_vars(Proceed(r))
    /\ \A store \in Stores : WF_vars(EntryExpires(store))
    /\ SF_vars(\E r \in Replicas : runQueue(r))
    /\ \A s \in Sales : SF_vars(ReclaimOf(s)) /\ SF_vars(ListOf(s))

FairSpec == Spec /\ Fairness

(***************************************************************************)
(* Properties                                                              *)
(***************************************************************************)

Steady == weather \cap {"slow", "failover"} = {}

\* One replica at a time runs the queue, whatever crashes, as long as Redis
\* answers always or never and no run outlives the lock.
OneRunAtATime ==
    Steady => \A r, q \in Replicas : op[r] # Idle /\ op[q] # Idle => r = q

\* Without faults a sale is sent once, though enqueue undoes the claim of a
\* sale that is being sent, and however often the sale is concluded.
SentOnce == weather = {} => \A s \in Sales : posted[s] <= 1

\* Once faults stop, a concluded sale is sent or stops being concluded: no
\* crash leaves the lock held or the sale claimed for ever.
ConcludedIsSent ==
    <>[][Step]_vars
    => \A s \in Sales : s \in concluded ~> (send[s] = "SYNCED" \/ s \notin concluded)

=============================================================================
