------------------------ MODULE AdmissionParameters -------------------------
(* The parameters of Admission, shared with the server that composes it. *)
EXTENDS Naturals, FiniteSets

CONSTANTS
    Handlers,   \* completion requests, one daemon thread each
    Capacity    \* queue_capacity: requests that may wait beside the active one

ASSUME AdmissionAssumption ==
    /\ IsFiniteSet(Handlers)
    /\ Capacity \in Nat
=============================================================================
