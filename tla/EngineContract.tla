--------------------------- MODULE EngineContract ---------------------------
(***************************************************************************)
(* What the completion engine of npu_llm/api_server.py promises the HTTP   *)
(* layer, without processes, pipes or locks: calls are served one at a     *)
(* time, each consumes its own reply from its first chunk on, and a call   *)
(* that ends as "done" has consumed the whole of it.                       *)
(***************************************************************************)
EXTENDS Naturals, Sequences

CONSTANTS Calls, Prewarms, MaxChunks

VARIABLES
    phase,    \* [Calls -> where the call stands]
    stream,   \* [Calls -> the replies it has consumed]
    outcome   \* [Calls -> how it ended]

contractVars == <<phase, stream, outcome>>

Phases == {"outside", "queued", "served", "over"}

Reply(c, kind, n) == [for |-> c, kind |-> kind, n |-> n]

Init ==
    /\ phase = [c \in Calls |-> "outside"]
    /\ stream = [c \in Calls |-> <<>>]
    /\ outcome = [c \in Calls |-> "none"]

Queue(c) ==
    /\ phase[c] = "outside"
    /\ phase' = [phase EXCEPT ![c] = "queued"]
    /\ UNCHANGED <<stream, outcome>>

\* Only one call is served at a time.
Serve(c) ==
    /\ phase[c] = "queued"
    /\ \A d \in Calls : phase[d] # "served"
    /\ phase' = [phase EXCEPT ![c] = "served"]
    /\ UNCHANGED stream
    /\ \/ UNCHANGED outcome
       \/ c \notin Prewarms /\ outcome' = [outcome EXCEPT ![c] = "timeout"]

DeliverChunk(c) ==
    /\ phase[c] = "served"
    /\ outcome[c] = "none"
    /\ c \notin Prewarms
    /\ Len(stream[c]) < MaxChunks
    /\ stream' = [stream EXCEPT ![c] =
                    Append(@, Reply(c, "chunk", Len(@) + 1))]
    /\ UNCHANGED <<phase, outcome>>

DeliverEnd(c) ==
    /\ phase[c] = "served"
    /\ outcome[c] = "none"
    /\ \/ /\ stream' = [stream EXCEPT ![c] = Append(@, Reply(c, "done", 0))]
          /\ outcome' = [outcome EXCEPT ![c] = "done"]
       \/ /\ stream' = [stream EXCEPT ![c] = Append(@, Reply(c, "error", 0))]
          /\ outcome' = [outcome EXCEPT ![c] = "error"]
    /\ UNCHANGED phase

\* A failure ends the call's stream; a failed disposal turns a timeout into
\* an error.
Fail(c) ==
    /\ phase[c] = "served"
    /\ \/ /\ outcome[c] = "none"
          /\ \/ outcome' = [outcome EXCEPT ![c] = "error"]
             \/ outcome' = [outcome EXCEPT ![c] = "timeout"]
             \/ outcome' = [outcome EXCEPT ![c] = "cancelled"]
       \/ /\ outcome[c] = "timeout"
          /\ outcome' = [outcome EXCEPT ![c] = "error"]
    /\ UNCHANGED <<phase, stream>>

GiveUp(c) ==
    /\ phase[c] = "queued"
    /\ c \notin Prewarms
    /\ phase' = [phase EXCEPT ![c] = "over"]
    /\ outcome' = [outcome EXCEPT ![c] = "timeout"]
    /\ UNCHANGED stream

Leave(c) ==
    /\ phase[c] = "served"
    /\ outcome[c] # "none"
    /\ phase' = [phase EXCEPT ![c] = "over"]
    /\ UNCHANGED <<stream, outcome>>

Next ==
    \E c \in Calls :
        \/ Queue(c) \/ Serve(c) \/ GiveUp(c) \/ Leave(c)
        \/ DeliverChunk(c) \/ DeliverEnd(c) \/ Fail(c)

Spec == Init /\ [][Next]_contractVars
=============================================================================
