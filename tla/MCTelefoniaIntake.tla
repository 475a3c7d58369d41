------------------------- MODULE MCTelefoniaIntake -------------------------
(***************************************************************************)
(* Instances of TelefoniaIntake for TLC.                                   *)
(***************************************************************************)
EXTENDS TelefoniaIntake

CONSTANTS s1, r1, r2

OneSale == {s1}
TwoReplicas == {r1, r2}

=============================================================================
