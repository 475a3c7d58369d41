-------------------------- MODULE MCSignedContract --------------------------
(***************************************************************************)
(* Instances of SignedContract for TLC.                                    *)
(***************************************************************************)
EXTENDS SignedContract

CONSTANTS w1, p1, p2

OneWorker == {w1}
TwoReplicas == {p1, p2}

\* All of them, the most without overlap, and the most without crashes either.
SomeWeathers == {Faults, {"crash", "failure"}, {"failure"}}

=============================================================================
