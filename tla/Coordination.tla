---------------------------- MODULE Coordination ----------------------------
(***************************************************************************)
(* The lock that keeps two replicas of the API from running the same queue *)
(* at once: CoordinationService.  An entry with an expiry is written in    *)
(* Redis or, when Redis does not answer, in the table coordination_entries *)
(* of the database, so that there are two places to look and no order      *)
(* between them.  Every acquisition has a token of its own; a replica has  *)
(* at most one that it still means to release, so its name stands for it.  *)
(*                                                                         *)
(* Without REDIS_URL only the table is used: the same lock, under the name *)
(* of the other store, and no failover.                                    *)
(***************************************************************************)
CONSTANT Replicas

Stores == {"redis", "table"}

VARIABLES
    entry,     \* entry[store]: whose token the lock's entry holds
    weather    \* the faults that may happen, chosen once and for all

\* No entry, or one past its expiry; the token of a replica that stopped or
\* that released another entry than this one.
Unheld == {"FREE", "LOST"}

ASSUME CoordinationAssumption == Replicas \cap Unheld = {}

EntryType == [Stores -> Replicas \cup Unheld]

IsFree(store) == entry[store] = "FREE"

\* Mutant: set without NX.
acquireLock_Overwrites(r) ==
    entry' = [entry EXCEPT !["redis"] = r]

\* Redis answers, or does not and the table decides; Redis may have stored
\* the token all the same.
acquireLock(r) ==
    \/ /\ IsFree("redis")
       /\ entry' = [entry EXCEPT !["redis"] = r]
    \/ /\ "failover" \in weather
       /\ IsFree("table")
       /\ \/ entry' = [entry EXCEPT !["table"] = r]
          \/ IsFree("redis") /\ entry' = [store \in Stores |-> r]

\* A release removes its own token only, and only where it arrives.
Reached ==
    IF "failover" \in weather THEN SUBSET Stores ELSE {{"redis"}}

\* Mutant: a run that ends without releasing.
releaseLock_Skipped(r) == UNCHANGED entry

releaseLock(r) ==
    \E reached \in Reached :
        entry' = [store \in Stores |->
                    IF entry[store] # r THEN entry[store]
                    ELSE IF store \in reached THEN "FREE" ELSE "LOST"]

\* The process of r stops: nobody will release its token.
abandonLock(r) ==
    entry' = [store \in Stores |-> IF entry[store] = r THEN "LOST" ELSE entry[store]]

\* A refused call whose write to Redis arrived though its answer did not, or
\* a run that found the queue busy and released the other store's entry.
Stray(store) ==
    /\ "failover" \in weather
    /\ IsFree(store)
    /\ entry' = [entry EXCEPT ![store] = "LOST"]

\* The time to live of an entry nobody will release ends.
Expire(store) ==
    /\ entry[store] = "LOST"
    /\ entry' = [entry EXCEPT ![store] = "FREE"]

\* The entry of a replica that still works disappears: its time to live ends
\* first, or Redis restarts without its data.
Lapse(store) ==
    /\ entry[store] \in Replicas
    /\ "slow" \in weather \/ ("failover" \in weather /\ store = "redis")
    /\ entry' = [entry EXCEPT ![store] = "FREE"]

=============================================================================
