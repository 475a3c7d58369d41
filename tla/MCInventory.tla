---------------------------- MODULE MCInventory ----------------------------
(***************************************************************************)
(* Instances of Inventory for TLC.                                         *)
(***************************************************************************)
EXTENDS Inventory, TLC

CONSTANTS p1, p2, l1, s1, s2, w1, w2

TwoPartners == {p1, p2}
OneLine == {l1}
TwoSales == {s1, s2}
TwoWorkers == {w1, w2}

\* Requests that overlap; everything else; and what the properties allow.
SomeWeathers == {{"overlap", "failure"}, Circumstances \ {"overlap"}, {"sheet"}, {}}

\* Concluded sales are imported, one request at a time.
Sheet == {{"sheet"}}

\* Partners, sales and workers can be exchanged.
Alike == Permutations(TwoPartners) \cup Permutations(TwoSales) \cup Permutations(TwoWorkers)

=============================================================================
