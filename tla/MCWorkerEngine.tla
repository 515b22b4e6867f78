--------------------------- MODULE MCWorkerEngine ---------------------------
(* Small instances of WorkerEngine for TLC. *)
EXTENDS WorkerEngine

CONSTANTS p, c1, c2, c3

OneWarmTwoCalls == {p, c1, c2}
ThreeCalls == {c1, c2, c3}
TwoCalls == {c1, c2}
WarmAndOne == {p, c1}
OnlyPrewarm == {p}
None == {}
OnlyFirst == {c1}
=============================================================================
