-------------------------- MODULE EngineParameters --------------------------
(* The parameters of WorkerEngine, shared with the server that composes it. *)
EXTENDS Naturals, Sequences, FiniteSets

CONSTANTS
    Calls,        \* the generate() and prewarm_default() calls
    Prewarms,     \* those that are prewarm_default()
    LargeCalls,   \* those whose command does not fit in the pipe's buffer
    Closer,       \* the main thread, which ends the engine
    NoOne,        \* Python's None
    MaxChunks     \* bound: chunks the worker sends for one request

ASSUME EngineAssumption ==
    /\ Prewarms \subseteq Calls
    /\ LargeCalls \subseteq Calls
    /\ Closer \notin Calls
    /\ NoOne \notin Calls \cup {Closer}
    /\ MaxChunks \in Nat
=============================================================================
