---------------------------- MODULE ModelSession ----------------------------
(***************************************************************************)
(* CompletionEngine (npu_llm/api_server.py): the engine inside the worker  *)
(* process, which keeps at most one decoder on the NPU and switches models *)
(* between requests.  One element of Callers is a caller that generates    *)
(* again and again; each construction of a decoder is given the next       *)
(* number.                                                                 *)
(***************************************************************************)
EXTENDS SessionParameters

VARIABLES
    lock,          \* CompletionEngine.lock: its holder, or NoOne
    activeModel,   \* _active_model_id
    activeDecoder, \* _active_decoder: a decoder's number, or 0
    loads,         \* decoders constructed so far
    modelOf,       \* [1..MaxLoads -> the model a decoder was built from]
    open,          \* decoders whose NPU resources are not released
    warm,          \* decoders whose warmup() returned
    cpc,           \* [Callers -> label]
    want,          \* [Callers -> the model of the request]
    using          \* [Callers -> the decoder generating for it, or 0]

vars == <<lock, activeModel, activeDecoder, loads, modelOf, open, warm,
          cpc, want, using>>

Decoders == 1..MaxLoads
Labels == {"idle", "queued", "load", "build", "warmup", "generate"}

Init ==
    /\ lock = NoOne
    /\ activeModel = NoOne /\ activeDecoder = 0
    /\ loads = 0
    /\ modelOf = [d \in Decoders |-> NoOne]
    /\ open = {} /\ warm = {}
    /\ cpc = [c \in Callers |-> "idle"]
    /\ want = [c \in Callers |-> NoOne]
    /\ using = [c \in Callers |-> 0]

-----------------------------------------------------------------------------
Goto(c, label) == cpc' = [cpc EXCEPT ![c] = label]

\* generate() ends, normally, with an exception or closed by its consumer:
\* the generator is gone and the lock is free.
End(c) ==
    /\ Goto(c, "idle")
    /\ lock' = NoOne
    /\ want' = [want EXCEPT ![c] = NoOne]
    /\ using' = [using EXCEPT ![c] = 0]

\* Slip: a decoder without a model id is not looked for.
CloseNamed ==
    /\ activeDecoder' = 0
    /\ activeModel' = NoOne
    /\ open' = IF activeModel = NoOne THEN open ELSE open \ {activeDecoder}

\* _close_active: what it finds is forgotten first, then closed.
CloseActive ==
    /\ activeDecoder' = 0
    /\ activeModel' = NoOne
    /\ open' = open \ {activeDecoder}

\* generate(), or prewarm_default(), which ends once its model is loaded.
Request(c) ==
    /\ cpc[c] = "idle"
    /\ \E model \in Models : want' = [want EXCEPT ![c] = model]
    /\ Goto(c, "queued")
    /\ UNCHANGED <<lock, activeModel, activeDecoder, loads, modelOf, open, warm,
                   using>>

\* Slip: the lock is not waited for.
AcquireAnyway(c) ==
    /\ cpc[c] = "queued"
    /\ lock' = c
    /\ Goto(c, "load")
    /\ UNCHANGED <<activeModel, activeDecoder, loads, modelOf, open, warm,
                   want, using>>

Acquire(c) ==
    /\ cpc[c] = "queued"
    /\ lock = NoOne
    /\ lock' = c
    /\ Goto(c, "load")
    /\ UNCHANGED <<activeModel, activeDecoder, loads, modelOf, open, warm,
                   want, using>>

Reuse(c) ==
    /\ cpc[c] = "load"
    /\ activeModel = want[c]
    /\ using' = [using EXCEPT ![c] = activeDecoder]
    /\ Goto(c, "generate")
    /\ UNCHANGED <<lock, activeModel, activeDecoder, loads, modelOf, open, warm,
                   want>>

\* The old decoder goes before the new one is built.
Release(c) ==
    /\ cpc[c] = "load"
    /\ activeModel # want[c]
    /\ CloseActive
    /\ Goto(c, "build")
    /\ UNCHANGED <<lock, loads, modelOf, warm, want, using>>

Build(c) ==
    /\ cpc[c] = "build"
    /\ loads < MaxLoads
    /\ loads' = loads + 1
    /\ modelOf' = [modelOf EXCEPT ![loads + 1] = want[c]]
    /\ open' = open \cup {loads + 1}
    /\ activeDecoder' = loads + 1
    /\ Goto(c, "warmup")
    /\ UNCHANGED <<lock, activeModel, warm, want, using>>

\* decoder_factory raises
BuildFails(c) ==
    /\ cpc[c] = "build"
    /\ End(c)
    /\ UNCHANGED <<activeModel, activeDecoder, loads, modelOf, open, warm>>

Warmup(c) ==
    /\ cpc[c] = "warmup"
    /\ warm' = warm \cup {activeDecoder}
    /\ activeModel' = want[c]
    /\ using' = [using EXCEPT ![c] = activeDecoder]
    /\ Goto(c, "generate")
    /\ UNCHANGED <<lock, activeDecoder, loads, modelOf, open, want>>

\* Slip: the model is named before it is warm.
WarmupFailsNamed(c) ==
    /\ cpc[c] = "warmup"
    /\ activeModel' = want[c]
    /\ End(c)
    /\ UNCHANGED <<activeDecoder, loads, modelOf, open, warm>>

\* warmup() raises: the decoder stays active without a model id.
WarmupFails(c) ==
    /\ cpc[c] = "warmup"
    /\ End(c)
    /\ UNCHANGED <<activeModel, activeDecoder, loads, modelOf, open, warm>>

\* The generation is exhausted, raises, or is closed at one of its yields.
Finish(c) ==
    /\ cpc[c] = "generate"
    /\ End(c)
    /\ UNCHANGED <<activeModel, activeDecoder, loads, modelOf, open, warm>>

\* close(), which takes no lock: _worker_loop calls it when its command loop
\* has ended, serve() when every request has left.
Close ==
    /\ \A c \in Callers : cpc[c] = "idle"
    /\ CloseActive
    /\ UNCHANGED <<lock, loads, modelOf, warm, cpc, want, using>>

CallerStep(c) ==
    \/ Request(c) \/ Acquire(c) \/ Reuse(c) \/ Release(c)
    \/ Build(c) \/ BuildFails(c) \/ Warmup(c) \/ WarmupFails(c) \/ Finish(c)

Next == (\E c \in Callers : CallerStep(c)) \/ Close

Spec == Init /\ [][Next]_vars

-----------------------------------------------------------------------------
TypeOK ==
    /\ lock \in Callers \cup {NoOne}
    /\ activeModel \in Models \cup {NoOne}
    /\ activeDecoder \in 0..loads
    /\ loads \in 0..MaxLoads
    /\ modelOf \in [Decoders -> Models \cup {NoOne}]
    /\ open \subseteq 1..loads /\ warm \subseteq 1..loads
    /\ cpc \in [Callers -> Labels]
    /\ want \in [Callers -> Models \cup {NoOne}]
    /\ using \in [Callers -> 0..loads]

\* The NPU is never asked to hold two models: whatever loads and warm-ups
\* failed before, the only decoder open is the one _close_active would close.
OneOpenDecoder == open \subseteq {activeDecoder}

\* A request is generated by an open, warmed decoder of the model it named,
\* from its first token to its last.
RightDecoder ==
    \A c \in Callers : cpc[c] = "generate" =>
        /\ using[c] \in open /\ using[c] \in warm
        /\ modelOf[using[c]] = want[c]
=============================================================================
