---------------------------- MODULE MCSettlement ----------------------------
(***************************************************************************)
(* Instances of Settlement for TLC.                                        *)
(***************************************************************************)
EXTENDS Settlement, TLC

CONSTANTS s1, s2, w1, w2

OneSale == {s1}
TwoSales == {s1, s2}
TwoWorkers == {w1, w2}

\* Workers only hold operations, so they can be exchanged.
WorkerSymmetry == Permutations(TwoWorkers)

NoRows == {}
SecondIsRow == {s2}

\* A rejection and a cancellation; requestDocuments changes open statuses.
EndTargets == {"REJECTED", "CANCELLED"}
NoTargets == {}

=============================================================================
