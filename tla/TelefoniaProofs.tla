--------------------------- MODULE TelefoniaProofs ---------------------------
(***************************************************************************)
(* Theorems of TelefoniaIntake for any replicas, sales and faults.         *)
(***************************************************************************)
EXTENDS TelefoniaIntake, TLAPS

\* The fields of a run, by the point it has reached.
LEMMA RunFields ==
    ASSUME TypeOK, NEW r \in Replicas
    PROVE  /\ op[r] = Idle <=> At(r, "idle")
           /\ op[r].at = "sending" => op[r].left \in SUBSET Sales
           /\ op[r].at \in {"posting", "accepted", "refused"}
                => op[r].sale \in Sales /\ op[r].left \in SUBSET Sales
<1>1. op[r] \in Runs
  BY DEF TypeOK
<1> QED
  BY <1>1 DEF Runs, Idle, At

\* Every run the actions build is one.
LEMMA RunBuilt ==
    /\ Idle \in Runs
    /\ \A p \in {"locked", "listing"} : [at |-> p] \in Runs
    /\ \A l \in SUBSET Sales : [at |-> "sending", left |-> l] \in Runs
    /\ \A p \in {"posting", "accepted", "refused"}, s \in Sales, l \in SUBSET Sales :
        [at |-> p, sale |-> s, left |-> l] \in Runs
  BY DEF Runs

\* A run whose request was answered keeps its sale.
LEMMA RunAnswered ==
    ASSUME TypeOK, NEW r \in Replicas, At(r, "posting"), NEW p \in {"accepted", "refused"}
    PROVE  /\ [op[r] EXCEPT !.at = p] \in Runs
           /\ [op[r] EXCEPT !.at = p].at = p
           /\ [op[r] EXCEPT !.at = p].sale = op[r].sale
<1>1. op[r] \in [at : {"posting", "accepted", "refused"}, sale : Sales, left : SUBSET Sales]
  BY DEF TypeOK, Runs, Idle, At
<1> QED
  BY <1>1 DEF Runs

\* What the steps of a replica leave to prove of the types.
LEMMA RunTyped ==
    ASSUME TypeOK, NEW r \in Replicas, NEW o \in Runs, Continue(r, o)
    PROVE  /\ op' \in [Replicas -> Runs]
           /\ op'[r] = o
           /\ \A q \in Replicas \ {r} : op'[q] = op[q]
  BY DEF TypeOK, Continue

\* Every entry after r took the lock is an old one or the one of r.
LEMMA LockTaken ==
    ASSUME TypeOK, NEW r \in Replicas, acquireLock(r)
    PROVE  /\ entry' \in EntryType
           /\ \A store \in Stores : entry'[store] = entry[store] \/ entry'[store] = r
  BY DEF TypeOK, acquireLock, IsFree, EntryType, Stores

\* Once r let the lock go no entry is its own, and those of others stay.
LEMMA LockDropped ==
    ASSUME TypeOK, NEW r \in Replicas, releaseLock(r) \/ abandonLock(r)
    PROVE  /\ entry' \in EntryType
           /\ \A store \in Stores :
                /\ entry'[store] # r
                /\ entry'[store] \in Replicas => entry'[store] = entry[store]
                /\ entry[store] # r => entry'[store] = entry[store]
  BY CoordinationAssumption DEF TypeOK, releaseLock, abandonLock, EntryType, Unheld

(***************************************************************************)
(* The inductive invariant                                                 *)
(***************************************************************************)

\* While Redis and the lock are steady, a run under way holds Redis's entry.
RunHoldsLock ==
    Steady => \A r \in Replicas : op[r] # Idle => entry["redis"] = r

\* While nothing fails, what telefonia-2 accepted is recorded or about to be,
\* and what is about to be posted was not accepted yet.
SentIsKnown ==
    weather = {} =>
        /\ \A s \in Sales : posted[s] >= 1 =>
            \/ send[s] = "SYNCED"
            \/ \E r \in Replicas : At(r, "accepted") /\ op[r].sale = s
        /\ \A r \in Replicas :
            /\ ~At(r, "refused")
            /\ At(r, "posting") => posted[op[r].sale] = 0

IntakeInv == TypeOK /\ RunHoldsLock /\ SentOnce /\ SentIsKnown

LEMMA IntakeInit == Init => IntakeInv
<1> SUFFICES ASSUME Init
             PROVE  IntakeInv
  OBVIOUS
<1>1. Idle.at = "idle" /\ Idle \in Runs
  BY RunBuilt DEF Idle
<1>2. TypeOK
  BY <1>1, TelefoniaAssumption, CoordinationAssumption
     DEF Init, TypeOK, EntryType, Unheld, SendStatus, Claimable
<1>3. RunHoldsLock
  BY DEF Init, RunHoldsLock
<1>4. SentOnce /\ SentIsKnown
  BY <1>1 DEF Init, SentOnce, SentIsKnown, At
<1> QED
  BY <1>2, <1>3, <1>4 DEF IntakeInv

LEMMA OneRun == ASSUME TypeOK, RunHoldsLock PROVE OneRunAtATime
  BY DEF RunHoldsLock, OneRunAtATime

\* The steps of the sale, which concern no run.
LEMMA IntakeSale ==
    ASSUME IntakeInv, NEW s \in Sales,
           Conclude(s) \/ Leave(s) \/ enqueue(s) \/ LoseEnqueue(s)
    PROVE  IntakeInv'
<1> USE DEF IntakeInv
<1>1. UNCHANGED <<entry, weather, posted, op>>
  BY DEF Conclude, Leave, enqueue, LoseEnqueue
<1>2. /\ send' \in [Sales -> SendStatus]
      /\ \A t \in Sales : send[t] = "SYNCED" => send'[t] = "SYNCED"
  BY DEF Conclude, Leave, enqueue, LoseEnqueue, TypeOK, SetSend, Rearmed, SendStatus, Claimable
<1>3. concluded' \in SUBSET Sales /\ arming' \in SUBSET Sales
  BY DEF Conclude, Leave, enqueue, LoseEnqueue, TypeOK
<1>4. TypeOK'
  BY <1>1, <1>2, <1>3 DEF TypeOK
<1>5. RunHoldsLock'
  BY <1>1 DEF RunHoldsLock, Steady
<1>6. SentOnce' /\ SentIsKnown'
  BY <1>1, <1>2 DEF SentOnce, SentIsKnown, At
<1> QED
  BY <1>4, <1>5, <1>6

\* The steps of the lock's entries on their own.
LEMMA IntakeEntry ==
    ASSUME IntakeInv, NEW store \in Stores,
           EntryExpires(store) \/ EntryLapses(store) \/ EntryStrays(store)
    PROVE  IntakeInv'
<1> USE DEF IntakeInv
<1>1. UNCHANGED <<weather, concluded, arming, send, posted, op>>
  BY DEF EntryExpires, EntryLapses, EntryStrays
<1>2. /\ entry' \in EntryType
      /\ \A other \in Stores : entry'[other] \in Replicas => entry'[other] = entry[other]
  BY CoordinationAssumption
     DEF EntryExpires, EntryLapses, EntryStrays, Expire, Lapse, Stray, TypeOK, EntryType, Unheld
<1>3. TypeOK'
  BY <1>1, <1>2 DEF TypeOK
<1>4. Steady => \A r \in Replicas : entry["redis"] = r => entry'["redis"] = r
  BY CoordinationAssumption
     DEF EntryExpires, EntryLapses, EntryStrays, Expire, Lapse, Stray, TypeOK, EntryType,
         Unheld, Steady, IsFree, Stores
<1>5. RunHoldsLock'
  BY <1>1, <1>4 DEF RunHoldsLock, Steady
<1>6. SentOnce' /\ SentIsKnown'
  BY <1>1 DEF SentOnce, SentIsKnown, At
<1> QED
  BY <1>3, <1>5, <1>6

\* The steps that write the lock: a run begins or ends.
LEMMA IntakeLock ==
    ASSUME IntakeInv, NEW r \in Replicas,
           runQueue(r) \/ EndRun(r) \/ RunFails(r) \/ Crash(r)
    PROVE  IntakeInv'
<1> USE DEF IntakeInv
<1>1. UNCHANGED <<weather, concluded, arming, send, posted>>
  BY DEF runQueue, EndRun, RunFails, Crash
<1>2. Idle \in Runs /\ Idle.at = "idle"
  BY RunBuilt DEF Idle
<1>3. CASE runQueue(r)
  <2> DEFINE o == [at |-> "locked"]
  <2>1. o \in Runs /\ o # Idle /\ o.at = "locked"
    BY RunBuilt DEF Idle
  <2>2. op' \in [Replicas -> Runs] /\ op'[r] = o /\ \A q \in Replicas \ {r} : op'[q] = op[q]
    BY <1>3, <2>1, RunTyped DEF runQueue
  <2>3. TypeOK'
    BY <1>1, <1>3, <2>1, <2>2, LockTaken DEF TypeOK, runQueue
  <2>4. RunHoldsLock'
    <3> SUFFICES ASSUME Steady
                 PROVE  \A q \in Replicas : op'[q] # Idle => entry'["redis"] = q
      BY <1>1 DEF RunHoldsLock, Steady
    <3>1. IsFree("redis") /\ entry' = [entry EXCEPT !["redis"] = r]
      BY <1>3 DEF runQueue, acquireLock, Steady
    <3>2. \A q \in Replicas : op[q] = Idle
      BY <3>1, CoordinationAssumption DEF RunHoldsLock, IsFree, Unheld
    <3> QED
      BY <2>2, <3>1, <3>2 DEF TypeOK, EntryType, Stores
  <2>5. op[r] = Idle
    BY <1>3 DEF runQueue
  <2>6. SentOnce' /\ SentIsKnown'
    BY <1>1, <1>2, <2>1, <2>2, <2>5 DEF SentOnce, SentIsKnown, At
  <2> QED
    BY <2>3, <2>4, <2>6
<1>4. CASE EndRun(r) \/ RunFails(r) \/ Crash(r)
  <2>1. Continue(r, Idle) /\ (releaseLock(r) \/ abandonLock(r))
    BY <1>4 DEF EndRun, RunFails, Crash
  <2>2. op' \in [Replicas -> Runs] /\ op'[r] = Idle /\ \A q \in Replicas \ {r} : op'[q] = op[q]
    BY <1>2, <2>1, RunTyped
  <2>3. TypeOK'
    <3>1. \A store \in Stores : entry'[store] \in Replicas => op'[entry'[store]] # Idle
      BY <2>1, <2>2, LockDropped DEF TypeOK
    <3> QED
      BY <1>1, <2>1, <2>2, <3>1, LockDropped DEF TypeOK
  <2>4. RunHoldsLock'
    BY <1>1, <2>1, <2>2, LockDropped DEF RunHoldsLock, Steady, Stores
  <2>5. weather = {} => ~At(r, "accepted")
    BY <1>4 DEF EndRun, RunFails, Crash, At
  <2>6. SentOnce' /\ SentIsKnown'
    BY <1>1, <1>2, <2>2, <2>5 DEF SentOnce, SentIsKnown, At
  <2> QED
    BY <2>3, <2>4, <2>6
<1> QED
  BY <1>3, <1>4

\* While Redis and the lock are steady there is no other run than that of r.
LEMMA OnlyRun ==
    ASSUME IntakeInv, Steady, NEW r \in Replicas, op[r] # Idle,
           NEW q \in Replicas, op[q] # Idle
    PROVE  q = r
  BY OneRun DEF IntakeInv, OneRunAtATime

\* What the steps inside a run leave to prove: its new record is a run's, is
\* not idle and the entries of the lock stay.
LEMMA IntakeWork ==
    ASSUME IntakeInv, NEW r \in Replicas, op[r] # Idle,
           NEW o \in Runs, o # Idle, Continue(r, o),
           send' \in [Sales -> SendStatus],
           posted' \in [Sales -> 0 .. Posts],
           UNCHANGED <<entry, weather, concluded, arming>>
    PROVE  TypeOK' /\ RunHoldsLock'
<1> USE DEF IntakeInv
<1>1. op' \in [Replicas -> Runs] /\ op'[r] = o /\ \A q \in Replicas \ {r} : op'[q] = op[q]
  BY RunTyped
<1>2. TypeOK'
  BY <1>1 DEF TypeOK
<1>3. RunHoldsLock'
  BY <1>1 DEF RunHoldsLock, Steady
<1> QED
  BY <1>2, <1>3

LEMMA IntakeReclaim ==
    ASSUME IntakeInv, NEW r \in Replicas, NEW stale \in SUBSET Sales, Reclaim(r, stale)
    PROVE  IntakeInv'
<1> USE DEF IntakeInv
<1> DEFINE o == [at |-> "listing"]
<1>1. o \in Runs /\ o # Idle /\ o.at = "listing"
  BY RunBuilt DEF Idle
<1>2. op[r] # Idle
  BY RunFields DEF Reclaim, At, Idle
<1>3. send' \in [Sales -> SendStatus]
  BY DEF Reclaim, TypeOK, SendStatus, Claimable
<1>4. TypeOK' /\ RunHoldsLock'
  BY <1>1, <1>2, <1>3, IntakeWork DEF Reclaim, TypeOK
<1>5. op' \in [Replicas -> Runs] /\ op'[r] = o /\ \A q \in Replicas \ {r} : op'[q] = op[q]
  BY <1>1, RunTyped DEF Reclaim
<1>6. SentOnce'
  BY DEF Reclaim, SentOnce
<1>7. SentIsKnown'
  <2>1. weather = {} => \A s \in stale : posted[s] = 0
    BY DEF Reclaim, MayBeStale, InFlight, Sending, SentIsKnown, At, TypeOK
  <2> QED
    BY <1>1, <1>5, <2>1 DEF Reclaim, SentIsKnown, At
<1> QED
  BY <1>4, <1>6, <1>7

LEMMA IntakeList ==
    ASSUME IntakeInv, NEW r \in Replicas, NEW due \in SUBSET Sales, List(r, due)
    PROVE  IntakeInv'
<1> USE DEF IntakeInv
<1> DEFINE o == [at |-> "sending", left |-> due]
<1>1. o \in Runs /\ o # Idle /\ o.at = "sending"
  BY RunBuilt DEF Idle
<1>2. op[r] # Idle
  BY RunFields DEF List, At, Idle
<1>3. TypeOK' /\ RunHoldsLock'
  BY <1>1, <1>2, IntakeWork DEF List, TypeOK
<1>4. op' \in [Replicas -> Runs] /\ op'[r] = o /\ \A q \in Replicas \ {r} : op'[q] = op[q]
  BY <1>1, RunTyped DEF List
<1>5. SentOnce' /\ SentIsKnown'
  BY <1>1, <1>4 DEF List, SentOnce, SentIsKnown, At
<1> QED
  BY <1>3, <1>5

LEMMA IntakeClaim ==
    ASSUME IntakeInv, NEW r \in Replicas, Claim(r)
    PROVE  IntakeInv'
<1> USE DEF IntakeInv
<1>1. op[r] # Idle /\ op[r].left \in SUBSET Sales
  BY RunFields DEF Claim, At, Idle
<1>2. PICK s \in op[r].left :
        IF Sendable(s)
        THEN /\ SetSend(s, "PROCESSING")
             /\ Continue(r, [at |-> "posting", sale |-> s, left |-> op[r].left \ {s}])
        ELSE /\ Continue(r, [at |-> "sending", left |-> op[r].left \ {s}])
             /\ UNCHANGED send
  BY DEF Claim
<1>3. CASE Sendable(s)
  <2> DEFINE o == [at |-> "posting", sale |-> s, left |-> op[r].left \ {s}]
  <2>1. o \in Runs /\ o # Idle /\ o.at = "posting" /\ o.sale = s
    BY <1>1, RunBuilt DEF Idle
  <2>2. Continue(r, o) /\ SetSend(s, "PROCESSING")
    BY <1>2, <1>3
  <2>3. send' \in [Sales -> SendStatus]
    BY <2>2 DEF TypeOK, SetSend, SendStatus
  <2>4. TypeOK' /\ RunHoldsLock'
    BY <1>1, <2>1, <2>2, <2>3, IntakeWork DEF Claim, TypeOK
  <2>5. op' \in [Replicas -> Runs] /\ op'[r] = o /\ \A q \in Replicas \ {r} : op'[q] = op[q]
    BY <2>1, <2>2, RunTyped
  \* nobody else runs, and a sale that can be sent is not marked as sent
  <2>6. weather = {} => posted[s] = 0
    <3> SUFFICES ASSUME weather = {}, posted[s] # 0
                 PROVE  FALSE
      OBVIOUS
    <3>1. s \in Sales /\ posted[s] >= 1 /\ send[s] # "SYNCED"
      BY <1>1, <1>3, TelefoniaAssumption DEF TypeOK, Sendable, Claimable
    <3>2. PICK q \in Replicas : At(q, "accepted")
      BY <3>1 DEF SentIsKnown
    <3>3. q = r
      BY <1>1, <3>2, RunFields, OnlyRun DEF Steady, At, Idle
    <3> QED
      BY <3>2, <3>3 DEF Claim, At
  <2>7. SentOnce'
    BY DEF Claim, SentOnce
  <2>8. SentIsKnown'
    BY <1>1, <2>1, <2>2, <2>5, <2>6, TelefoniaAssumption
       DEF Claim, SentIsKnown, At, SetSend, TypeOK
  <2> QED
    BY <2>4, <2>7, <2>8
<1>4. CASE ~Sendable(s)
  <2> DEFINE o == [at |-> "sending", left |-> op[r].left \ {s}]
  <2>1. o \in Runs /\ o # Idle /\ o.at = "sending"
    BY <1>1, RunBuilt DEF Idle
  <2>2. Continue(r, o) /\ UNCHANGED send
    BY <1>2, <1>4
  <2>3. TypeOK' /\ RunHoldsLock'
    BY <1>1, <2>1, <2>2, IntakeWork DEF Claim, TypeOK
  <2>4. op' \in [Replicas -> Runs] /\ op'[r] = o /\ \A q \in Replicas \ {r} : op'[q] = op[q]
    BY <2>1, <2>2, RunTyped
  <2>5. SentOnce' /\ SentIsKnown'
    BY <2>1, <2>2, <2>4 DEF Claim, SentOnce, SentIsKnown, At
  <2> QED
    BY <2>3, <2>5
<1> QED
  BY <1>3, <1>4

\* A request counted, up to the bound.
LEMMA Counted ==
    ASSUME TypeOK, NEW s \in Sales, CountPost(s)
    PROVE  /\ posted' \in [Sales -> 0 .. Posts]
           /\ posted[s] = 0 => posted'[s] = 1
           /\ \A t \in Sales \ {s} : posted'[t] = posted[t]
<1>1. posted[s] \in 0 .. Posts /\ Posts \in Nat /\ Posts >= 2
  BY TelefoniaAssumption DEF TypeOK
<1>2. posted' = [posted EXCEPT ![s] = IF posted[s] < Posts THEN posted[s] + 1 ELSE posted[s]]
  BY DEF CountPost
<1> QED
  BY <1>1, <1>2 DEF TypeOK

LEMMA IntakePost ==
    ASSUME IntakeInv, NEW r \in Replicas, Post(r) \/ PostFails(r)
    PROVE  IntakeInv'
<1> USE DEF IntakeInv
<1>1. PICK p \in {"accepted", "refused"} :
        /\ Continue(r, [op[r] EXCEPT !.at = p])
        /\ p = "refused" => weather # {}
        /\ p = "accepted" => CountPost(op[r].sale)
  BY DEF Post, PostFails
<1> DEFINE o == [op[r] EXCEPT !.at = p]
           s == op[r].sale
<1>2. At(r, "posting") /\ op[r] # Idle /\ s \in Sales
  BY RunFields DEF Post, PostFails, At, Idle
<1>3. o \in Runs /\ o.at = p /\ o.sale = s /\ o # Idle
  BY <1>2, RunAnswered DEF Idle
<1>4. posted' \in [Sales -> 0 .. Posts]
  BY <1>2, Counted DEF Post, PostFails, TypeOK
<1>5. TypeOK' /\ RunHoldsLock'
  BY <1>1, <1>2, <1>3, <1>4, IntakeWork DEF Post, PostFails, TypeOK
<1>6. op' \in [Replicas -> Runs] /\ op'[r] = o /\ \A q \in Replicas \ {r} : op'[q] = op[q]
  BY <1>1, <1>3, RunTyped
<1>7. UNCHANGED <<weather, send>>
  BY DEF Post, PostFails
<1>8. weather = {} =>
        /\ posted'[s] = 1 /\ p = "accepted"
        /\ \A t \in Sales \ {s} : posted'[t] = posted[t]
  BY <1>1, <1>2, Counted DEF SentIsKnown
<1>9. SentOnce'
  BY <1>7, <1>8 DEF SentOnce
<1>10. weather = {} => \A q \in Replicas \ {r} : ~At(q, "posting")
  BY <1>2, RunFields, OnlyRun DEF Steady, At, Idle
<1>11. SentIsKnown'
  <2> SUFFICES ASSUME weather = {}
               PROVE  /\ \A t \in Sales : posted'[t] >= 1 =>
                        \/ send[t] = "SYNCED"
                        \/ \E q \in Replicas : op'[q].at = "accepted" /\ op'[q].sale = t
                      /\ \A q \in Replicas :
                        op'[q].at # "refused" /\ op'[q].at # "posting"
    BY <1>7 DEF SentIsKnown, At
  <2>1. op'[r].at = "accepted" /\ op'[r].sale = s
    BY <1>3, <1>6, <1>8
  <2>2. \A q \in Replicas \ {r} : op[q].at # "refused" /\ op[q].at # "posting"
    BY <1>10 DEF SentIsKnown, At
  <2>3. ASSUME NEW t \in Sales \ {s}, posted'[t] >= 1
        PROVE  \/ send[t] = "SYNCED"
               \/ \E q \in Replicas : op'[q].at = "accepted" /\ op'[q].sale = t
    BY <1>2, <1>6, <1>8, <2>3 DEF SentIsKnown, At
  <2> QED
    BY <1>6, <2>1, <2>2, <2>3
<1> QED
  BY <1>5, <1>9, <1>11

LEMMA IntakeRecord ==
    ASSUME IntakeInv, NEW r \in Replicas, MarkSynced(r) \/ markRetry(r)
    PROVE  IntakeInv'
<1> USE DEF IntakeInv
<1> DEFINE o == [at |-> "sending", left |-> op[r].left]
           s == op[r].sale
<1>1. op[r] # Idle /\ s \in Sales /\ op[r].left \in SUBSET Sales
  BY RunFields DEF MarkSynced, markRetry, At, Idle
<1>2. o \in Runs /\ o # Idle /\ o.at = "sending" /\ Continue(r, o)
  BY <1>1, RunBuilt DEF MarkSynced, markRetry, NextSale, Idle
<1>3. PICK state \in {"SYNCED", "RETRY"} :
        /\ SetSend(s, state)
        /\ state = "RETRY" => At(r, "refused")
  BY DEF MarkSynced, markRetry
<1>4. send' \in [Sales -> SendStatus]
  BY <1>3 DEF TypeOK, SetSend, SendStatus, Claimable
<1>5. TypeOK' /\ RunHoldsLock'
  BY <1>1, <1>2, <1>4, IntakeWork DEF MarkSynced, markRetry, TypeOK
<1>6. op' \in [Replicas -> Runs] /\ op'[r] = o /\ \A q \in Replicas \ {r} : op'[q] = op[q]
  BY <1>2, RunTyped
<1>7. UNCHANGED <<weather, posted>>
  BY DEF MarkSynced, markRetry
<1>8. weather = {} => send' = [send EXCEPT ![s] = "SYNCED"]
  BY <1>3 DEF SentIsKnown, SetSend
<1>9. SentOnce'
  BY <1>7 DEF SentOnce
<1>10. SentIsKnown'
  BY <1>1, <1>2, <1>6, <1>7, <1>8 DEF SentIsKnown, At, TypeOK
<1> QED
  BY <1>5, <1>9, <1>10

LEMMA IntakeStep == IntakeInv /\ [Next]_vars => IntakeInv'
<1> SUFFICES ASSUME IntakeInv, [Next]_vars
             PROVE  IntakeInv'
  OBVIOUS
<1>1. CASE \E s \in Sales : Conclude(s) \/ Leave(s) \/ enqueue(s) \/ LoseEnqueue(s)
  BY <1>1, IntakeSale
<1>2. CASE \E r \in Replicas : runQueue(r) \/ EndRun(r) \/ RunFails(r) \/ Crash(r)
  BY <1>2, IntakeLock
<1>3. CASE \E r \in Replicas : \/ \E stale \in SUBSET Sales : Reclaim(r, stale)
                              \/ \E due \in SUBSET Sales : List(r, due)
  BY <1>3, IntakeReclaim, IntakeList
<1>4. CASE \E r \in Replicas : Claim(r)
  BY <1>4, IntakeClaim
<1>5. CASE \E r \in Replicas : Post(r) \/ PostFails(r)
  BY <1>5, IntakePost
<1>6. CASE \E r \in Replicas : MarkSynced(r) \/ markRetry(r)
  BY <1>6, IntakeRecord
<1>7. CASE \E store \in Stores :
             EntryExpires(store) \/ EntryLapses(store) \/ EntryStrays(store)
  BY <1>7, IntakeEntry
<1>8. CASE UNCHANGED vars
  BY <1>8 DEF IntakeInv, TypeOK, RunHoldsLock, SentOnce, SentIsKnown, Steady, At, vars
<1> QED
  BY <1>1, <1>2, <1>3, <1>4, <1>5, <1>6, <1>7, <1>8 DEF Next, Step, Proceed, Fault

LEMMA IntakeInvariant == Spec => []IntakeInv
  BY IntakeInit, IntakeStep, PTL DEF Spec

(***************************************************************************)
(* The theorems                                                            *)
(***************************************************************************)

\* The queue of telefonia-2 only reaches well-typed states, and an entry of
\* the lock that a replica owns belongs to a run of it under way.
THEOREM IntakeTypeCorrect == Spec => []TypeOK
<1>1. IntakeInv => TypeOK
  BY DEF IntakeInv
<1> QED
  BY <1>1, IntakeInvariant, PTL

\* The lock does what it is for: with any number of replicas, crashes and
\* errors, no two of them run the queue at once unless Redis fails over or a
\* run outlives the lock.
THEOREM QueueIsExclusive == Spec => []OneRunAtATime
<1>1. IntakeInv => OneRunAtATime
  BY OneRun DEF IntakeInv
<1> QED
  BY <1>1, IntakeInvariant, PTL

\* Without faults no sale is sent twice to telefonia-2, although enqueue
\* puts a sale that is being sent back in the queue: the lock makes up for it.
THEOREM NoSecondSend == Spec => []SentOnce
<1>1. IntakeInv => SentOnce
  BY DEF IntakeInv
<1> QED
  BY <1>1, IntakeInvariant, PTL

=============================================================================
