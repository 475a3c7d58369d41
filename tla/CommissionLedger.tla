-------------------------- MODULE CommissionLedger --------------------------
(***************************************************************************)
(* What the ledger of commissions promises, whatever the requests, the     *)
(* callbacks and the outbox interleave: a commission is created as a       *)
(* forecast and advances one step at a time, only while its sale is        *)
(* activated; a payment is final unless an operation that read the         *)
(* commission before it was paid is still about to write.                  *)
(***************************************************************************)
CONSTANT Sales

VARIABLES
    commission,  \* commission[s]: the state of the commission of s
    active,      \* the sales that are activated
    stale        \* the sales some open operation has an earlier reading of

ledger == <<commission, active, stale>>

Init ==
    /\ commission = [s \in Sales |-> "NONE"]
    /\ active = {}
    /\ stale = {}

Set(s, state) == commission' = [commission EXCEPT ![s] = state]

\* A sale is activated, ended or reopened; a reading is taken or dropped.
Around ==
    /\ active' \in SUBSET Sales
    /\ stale' \in SUBSET Sales

Forecast(s) ==
    /\ commission[s] \in {"NONE", "CANCELLED"}
    /\ Set(s, "FORECAST")

Approve(s) ==
    /\ commission[s] = "FORECAST"
    /\ s \in active
    /\ Set(s, "APPROVED")

Pay(s) ==
    /\ commission[s] = "APPROVED"
    /\ s \in active
    /\ Set(s, "PAID")

Cancel(s) ==
    /\ commission[s] \in {"FORECAST", "APPROVED"}
    /\ Set(s, "CANCELLED")

\* The write of an operation that read the commission earlier.
Overwrite(s) ==
    /\ s \in stale
    /\ commission[s] # "NONE"
    /\ \/ Set(s, "FORECAST")
       \/ Set(s, "CANCELLED")

Change ==
    \/ \E s \in Sales :
        Forecast(s) \/ Approve(s) \/ Pay(s) \/ Cancel(s) \/ Overwrite(s)
    \/ UNCHANGED commission

Next == Change /\ Around

Spec == Init /\ [][Next]_ledger

=============================================================================
