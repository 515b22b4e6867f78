--------------------------- MODULE DecoderSession ----------------------------
(***************************************************************************)
(* Who uses a decoder (npu_llm/runtime/generate.py), and for how long.  In *)
(* the worker process it is CompletionEngine (npu_llm/api_server.py), which*)
(* builds, warms and closes decoders under its lock and runs one generation*)
(* at a time, each on the cache the one before it left.  The chat client   *)
(* and the tools own their decoder and do as they like: several generators *)
(* at once, decode_token, warm-ups and resets.                             *)
(***************************************************************************)
EXTENDS SessionParameters, CacheParameters, Sequences

\* A caller that generates is a frame of the generator.
ASSUME DecoderAssumption == Gens = Callers /\ Nobody = NoOne

VARIABLES
    lock, activeModel, activeDecoder, loads, modelOf, open, warm,
    cpc, want, using,                                       \* ModelSession
    rows, cached, enabled, running, phase, text, made, pos, next,
    basis, sole,                                            \* PrefixCache
    served    \* the decoder is CompletionEngine's

sessionVars == <<lock, activeModel, activeDecoder, loads, modelOf, open, warm,
                 cpc, want, using>>
cacheVars == <<rows, cached, enabled, running, phase, text, made, pos, next,
               basis, sole>>
vars == <<sessionVars, cacheVars, served>>

Session == INSTANCE ModelSession
Cache == INSTANCE PrefixCache

Init == Session!Init /\ Cache!Init /\ served \in BOOLEAN

-----------------------------------------------------------------------------
\* What comes before the generation, and a request that fails there.
Prepare(c) ==
    /\ \/ Session!Request(c) \/ Session!Acquire(c) \/ Session!Reuse(c)
       \/ Session!Release(c) \/ Session!BuildFails(c) \/ Session!WarmupFails(c)
    /\ UNCHANGED cacheVars

\* A new decoder has its own cache and prefix, like a warmed one.
Build(c) == Session!Build(c) /\ Cache!Warmup

Warmup(c) == Session!Warmup(c) /\ Cache!Warmup

\* for ... in decoder.generate_messages(...): yield, with the lock held; the
\* request ends with its generator.
Generate(c) ==
    /\ cpc[c] = "generate"
    /\ Cache!GenStep(c)
    /\ IF phase'[c] = "idle" THEN Session!Finish(c) ELSE UNCHANGED sessionVars

Close == Session!Close /\ UNCHANGED cacheVars

Serve ==
    \/ \E c \in Callers : Prepare(c) \/ Build(c) \/ Warmup(c) \/ Generate(c)
    \/ Close

\* A program that has imported NPUDecoder.
Direct == Cache!Next /\ UNCHANGED sessionVars

Next == (IF served THEN Serve ELSE Direct) /\ UNCHANGED served

Spec == Init /\ [][Next]_vars

-----------------------------------------------------------------------------
\* The driver has few hardware contexts: whatever loads and warm-ups fail, one
\* decoder at most is open (ModelSession).
OneOpenDecoder == Session!OneOpenDecoder

\* Every request generates on an open, warm decoder of its own model.
RightDecoder == Session!RightDecoder

\* _cached_prefix lists only rows the cache holds, from one run (PrefixCache).
PrefixExact == Cache!PrefixExact

\* A generation nobody else wrote into continues exactly its own text, also
\* when other generators were advanced in between.
FreshLogits == Cache!FreshLogits

\* The room encode_chat_window keeps for the answer is enough: whatever prefix
\* a prompt resumes from and however long the answer gets, no generation
\* decodes at a position outside the window (PrefixCache).
InsideWindow == Cache!InsideWindow

\* Every token of every answer of the server comes from the logits of exactly
\* the text before it, whatever earlier requests left in the cache: abandoned
\* and failed ones, other models, failed loads and warm-ups.
ServedFresh ==
    served => \A c \in Callers : phase[c] = "choose" => basis[c] = text[c]
=============================================================================
