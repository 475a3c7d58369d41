--------------------------- MODULE MCRequestSync ---------------------------
(***************************************************************************)
(* Instances of RequestSync for TLC.                                       *)
(***************************************************************************)
EXTENDS RequestSync

CONSTANTS r1, w1, w2

OneRequest == {r1}
TwoWorkers == {w1, w2}

\* A status with a date, and one that the map does not know.
SomeMoves == {"concluido", "other"}

\* All of them; the most of them for each property that excludes some; and the
\* crashes and failures without which RequestIsSent would be simpler.
SomeWeathers ==
    {Faults, Faults \ {"overlap", "crash"}, Faults \ {"overlap", "crash", "unordered"},
     Faults \ {"overlap", "crash", "failure"}, {"crash", "failure"}}

=============================================================================
