----------------------------- MODULE MCTaskSync -----------------------------
(***************************************************************************)
(* Instances of TaskSync for TLC.                                          *)
(***************************************************************************)
EXTENDS TaskSync, TLC

CONSTANTS s1, d1, d2, w1, w2, w3

OneSale == {s1}
OneDocument == {d1}
TwoDocuments == {d1, d2}
OneRequired == {d1}
TwoWorkers == {w1, w2}
ThreeWorkers == {w1, w2, w3}

\* What may happen in each run.
Everything == Disturbances
Delivery == {"failure", "slow", "retry", "edit", "disk", "end"}

\* Workers only hold operations, so they can be exchanged.
WorkerSymmetry == Permutations(ThreeWorkers)

=============================================================================
