----------------------------- MODULE MCSessions -----------------------------
(***************************************************************************)
(* Instances of Sessions for TLC.                                          *)
(***************************************************************************)
EXTENDS Sessions, TLC

CONSTANTS b1, l1, w1, w2

OneLink == {l1}

\* Two tabs of one browser.
OneBrowser == {b1}
TwoTabs == {w1, w2}
OfOneBrowser == w1 :> b1 @@ w2 :> b1

\* Every fault, and what the properties allow.
SomeWeathers == {Faults, Faults \ {"overlap"}, {"lost"}, {}}

\* Tabs of one browser can be exchanged.
Alike == Permutations(TwoTabs)

=============================================================================
