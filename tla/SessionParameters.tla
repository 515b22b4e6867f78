-------------------------- MODULE SessionParameters --------------------------
(* The constants of ModelSession, which DecoderSession shares. *)
EXTENDS Naturals

CONSTANTS
    Callers,
    Models,
    NoOne,     \* Python's None
    MaxLoads   \* bound: decoders constructed

ASSUME SessionAssumption == NoOne \notin Callers \cup Models /\ MaxLoads \in Nat
=============================================================================
