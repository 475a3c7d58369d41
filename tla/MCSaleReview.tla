---------------------------- MODULE MCSaleReview ----------------------------
(***************************************************************************)
(* Instances of SaleReview for TLC.                                        *)
(***************************************************************************)
EXTENDS SaleReview, TLC

CONSTANTS photo, contract, d1, d2, f1, f2, f3, w1, w2

\* A photo is required, a contract may be requested and never comes.
OneType == {photo}
TwoTypes == {photo, contract}
TwoDocuments == {d1, d2}
SameType == [d \in TwoDocuments |-> photo]
ThreeFiles == {f1, f2, f3}
TwoWorkers == {w1, w2}

\* Everything but failures with overlap; failures and redelivery without; nothing.
SomeWeathers == {{"overlap", "crash", "redelivery"}, {"crash", "failure", "redelivery"}, {"redelivery"}, {}}

Alike == Permutations({d1, d2}) \cup Permutations(ThreeFiles) \cup Permutations(TwoWorkers)

=============================================================================
