-------------------------- MODULE MCDecoderSession ---------------------------
(* Small instances of DecoderSession for TLC. *)
EXTENDS DecoderSession, TLC

CONSTANTS c1, c2, m1, m2, a

TwoCallers == {c1, c2}
TwoModels == {m1, m2}
OneToken == {a}
Symmetry == Permutations(Callers) \cup Permutations(Models)
=============================================================================
