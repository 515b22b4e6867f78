---------------------------- MODULE PrefixCache -----------------------------
(***************************************************************************)
(* NPUDecoder (npu_llm/runtime/generate.py): the key/value cache on the    *)
(* device and _cached_prefix, the tokens it is believed to hold, which let *)
(* a prompt resume behind the tokens it shares with an earlier sequence.   *)
(*                                                                         *)
(* A row of the cache is represented by the tokens it was computed from:   *)
(* the row at position p of a fresh run on s is SubSeq(s, 1, p + 1).  A row*)
(* that attended to rows of different runs, or was left half written, is   *)
(* Mixed.  An element of Gens is a frame of generate_messages() or         *)
(* generate_text(), a Python generator that runs up to its next yield; one *)
(* that ended is free for the next call.                                   *)
(***************************************************************************)
EXTENDS CacheParameters, Sequences, FiniteSetsExt

VARIABLES
    rows,      \* [0..Context-1 -> Seq(token)]: the KV cache, by origin
    cached,    \* _cached_prefix
    enabled,   \* _prefix_cache_enabled, from HAWKPOINT_PREFIX_CACHE
    running,   \* the generator whose frame is executing, or Nobody
    phase,     \* [Gens -> label]
    text,      \* [Gens -> Seq(token)]: the prompt and what was generated
    made,      \* [Gens -> number of generated tokens]
    pos,       \* [Gens -> the next position to decode]
    next,      \* [Gens -> next_token]
    basis,     \* [Gens -> what the logits next_token is from were computed from]
    sole       \* history variable: the generations under way since whose start
               \* nobody else wrote a row

genVars == <<running, phase, text, made, pos, next, basis>>
devVars == <<rows, cached, enabled>>
vars == <<devVars, genVars, sole>>

Vocabulary == Tokens \cup {Eos}
Positions == 0..(Context - 1)
Mixed == <<>>
Phases == {"idle", "prefill", "choose", "step", "yielded"}

\* A slip: the prompt may fill the window, no room is kept for the answer.
PromptsUnreserved == UNION {[1..n -> Vocabulary] : n \in 1..Context}

\* encode_chat_window(messages, context_length - max_new_tokens)
Prompts == UNION {[1..n -> Vocabulary] : n \in 1..(Context - MaxNew)}

Init ==
    /\ rows = [p \in Positions |-> Mixed]
    /\ cached = <<>>
    /\ enabled \in BOOLEAN
    /\ running = Nobody
    /\ phase = [g \in Gens |-> "idle"]
    /\ text = [g \in Gens |-> <<>>]
    /\ made = [g \in Gens |-> 0]
    /\ pos = [g \in Gens |-> 0]
    /\ next = [g \in Gens |-> Eos]
    /\ basis = [g \in Gens |-> <<>>]
    /\ sole = {}

-----------------------------------------------------------------------------
Prefix(s, n) == SubSeq(s, 1, n)

\* Rows 0..p-1 are those of one run.
Coherent(p) ==
    /\ Len(rows[p - 1]) = p
    /\ \A i \in 0..(p - 1) : rows[i] = Prefix(rows[p - 1], i + 1)

\* The row a decode step computes at p: attention reads the rows below p.
NewRow(token, p) ==
    IF p = 0 THEN <<token>>
    ELSE IF Coherent(p) THEN Append(rows[p - 1], token) ELSE Mixed

\* What a step that raised may have left at p.
Leavings(token, p) == {rows[p], Mixed, NewRow(token, p)}

\* Slip: what follows the overwritten position is still believed valid.
KeptAll(p) == cached

\* del self._cached_prefix[position:]
Kept(p) == IF p < Len(cached) THEN Prefix(cached, p) ELSE cached

\* if len(self._cached_prefix) == position: append(token)
Recorded(token, p) ==
    IF Len(Kept(p)) = p THEN Append(Kept(p), token) ELSE Kept(p)

Shares(prompt, n) == Prefix(cached, n) = Prefix(prompt, n)

\* Slip: any position both have is taken for shared.
ReusableByLength(prompt) ==
    IF Len(cached) < Len(prompt) THEN Len(cached) ELSE Len(prompt) - 1

\* _reusable_prefix: the shared leading tokens, but never the whole prompt
Reusable(prompt) ==
    IF ~enabled THEN 0
    ELSE Max({n \in 0..(Len(prompt) - 1) :
                n <= Len(cached) /\ Shares(prompt, n)})

-----------------------------------------------------------------------------
\* The first next(): the prompt fits the window, and the prefill starts behind the reusable prefix.
Start(g) ==
    /\ phase[g] = "idle"
    /\ running = Nobody
    /\ \E prompt \in Prompts :
          /\ text' = [text EXCEPT ![g] = prompt]
          /\ pos' = [pos EXCEPT ![g] = Reusable(prompt)]
    /\ running' = g
    /\ phase' = [phase EXCEPT ![g] = "prefill"]
    /\ sole' = sole \cup {g}
    /\ UNCHANGED <<rows, cached, enabled, made, next, basis>>

Decode(token, p) ==
    /\ rows' = [rows EXCEPT ![p] = NewRow(token, p)]
    /\ cached' = Recorded(token, p)

\* One prompt position; the logits of the last one select the first token.
Prefill(g) ==
    /\ running = g
    /\ phase[g] = "prefill"
    /\ Decode(text[g][pos[g] + 1], pos[g])
    /\ pos' = [pos EXCEPT ![g] = @ + 1]
    /\ IF pos[g] + 1 = Len(text[g])
       THEN /\ \E t \in Vocabulary : next' = [next EXCEPT ![g] = t]
            /\ basis' = [basis EXCEPT ![g] = NewRow(text[g][pos[g] + 1], pos[g])]
            /\ phase' = [phase EXCEPT ![g] = "choose"]
       ELSE UNCHANGED <<next, basis, phase>>
    /\ sole' = sole \cap {g}
    /\ UNCHANGED <<enabled, running, text, made>>

\* The frame ends, its locals with it.
Finish(g) ==
    /\ running' = Nobody
    /\ phase' = [phase EXCEPT ![g] = "idle"]
    /\ text' = [text EXCEPT ![g] = <<>>]
    /\ made' = [made EXCEPT ![g] = 0]
    /\ pos' = [pos EXCEPT ![g] = 0]
    /\ next' = [next EXCEPT ![g] = Eos]
    /\ basis' = [basis EXCEPT ![g] = <<>>]

\* The head of the loop: the end-of-turn token is not emitted.
ChooseEos(g) ==
    /\ running = g
    /\ phase[g] = "choose"
    /\ next[g] = Eos
    /\ Finish(g)
    /\ sole' = sole \ {g}
    /\ UNCHANGED devVars

\* A stop sequence matched, or the last token's text is held back.
ChooseLast(g) ==
    /\ running = g
    /\ phase[g] = "choose"
    /\ next[g] # Eos
    /\ Finish(g)
    /\ sole' = sole \ {g}
    /\ UNCHANGED devVars

\* The token is taken, its logits are done with; its text is yielded or held
\* back.
ChooseToken(g) ==
    /\ running = g
    /\ phase[g] = "choose"
    /\ next[g] # Eos
    /\ text' = [text EXCEPT ![g] = Append(@, next[g])]
    /\ made' = [made EXCEPT ![g] = @ + 1]
    /\ \/ /\ running' = Nobody
          /\ phase' = [phase EXCEPT ![g] = "yielded"]
       \/ /\ made[g] + 1 < MaxNew
          /\ phase' = [phase EXCEPT ![g] = "step"]
          /\ UNCHANGED running
    /\ basis' = [basis EXCEPT ![g] = <<>>]
    /\ UNCHANGED <<devVars, pos, next, sole>>

Resume(g) ==
    /\ phase[g] = "yielded"
    /\ running = Nobody
    /\ IF made[g] < MaxNew
       THEN /\ running' = g
            /\ phase' = [phase EXCEPT ![g] = "step"]
            /\ UNCHANGED <<text, made, pos, next, basis, sole>>
       ELSE Finish(g) /\ sole' = sole \ {g}
    /\ UNCHANGED devVars

\* GeneratorExit at the yield
Abandon(g) ==
    /\ phase[g] = "yielded"
    /\ running = Nobody
    /\ Finish(g)
    /\ sole' = sole \ {g}
    /\ UNCHANGED devVars

\* Decode the token just emitted and select its successor.
Step(g) ==
    /\ running = g
    /\ phase[g] = "step"
    /\ Decode(next[g], pos[g])
    /\ basis' = [basis EXCEPT ![g] = NewRow(next[g], pos[g])]
    /\ \E t \in Vocabulary : next' = [next EXCEPT ![g] = t]
    /\ pos' = [pos EXCEPT ![g] = @ + 1]
    /\ phase' = [phase EXCEPT ![g] = "choose"]
    /\ sole' = sole \cap {g}
    /\ UNCHANGED <<enabled, running, text, made>>

\* decode_token raises, before, while or after the row is written.
StepFails(g) ==
    /\ running = g
    /\ phase[g] \in {"prefill", "step"}
    /\ cached' = Kept(pos[g])
    /\ \E row \in Leavings(text[g][pos[g] + 1], pos[g]) :
          rows' = [rows EXCEPT ![pos[g]] = row]
    /\ Finish(g)
    /\ sole' = {}
    /\ UNCHANGED enabled

\* decode_token called by the benchmark and validation tools; it may raise.
DecodeToken(token, p) ==
    /\ running = Nobody
    /\ cached' = Kept(p)
    /\ \E row \in Leavings(token, p) : rows' = [rows EXCEPT ![p] = row]
    /\ sole' = {}
    /\ UNCHANGED <<enabled, genVars>>

\* warmup() of a decoder with NPU layers: a step, then fresh caches
Warmup ==
    /\ running = Nobody
    /\ rows' = [p \in Positions |-> Mixed]
    /\ cached' = <<>>
    /\ sole' = {}
    /\ UNCHANGED <<enabled, genVars>>

ResetPrefix ==
    /\ running = Nobody
    /\ cached' = <<>>
    /\ UNCHANGED <<rows, enabled, genVars, sole>>

GenStep(g) ==
    \/ Start(g) \/ Prefill(g) \/ ChooseEos(g) \/ ChooseLast(g)
    \/ ChooseToken(g)
    \/ Resume(g) \/ Abandon(g) \/ Step(g) \/ StepFails(g)

Next ==
    \/ \E g \in Gens : GenStep(g)
    \/ \E token \in Vocabulary, p \in Positions : DecodeToken(token, p)
    \/ Warmup \/ ResetPrefix

Spec == Init /\ [][Next]_vars

-----------------------------------------------------------------------------
TypeOK ==
    /\ rows \in [Positions -> Seq(Vocabulary)]
    /\ cached \in Seq(Vocabulary)
    /\ enabled \in BOOLEAN
    /\ running \in Gens \cup {Nobody}
    /\ phase \in [Gens -> Phases]
    /\ text \in [Gens -> Seq(Vocabulary)]
    /\ made \in [Gens -> 0..MaxNew]
    /\ pos \in [Gens -> 0..Context]
    /\ next \in [Gens -> Vocabulary]
    /\ basis \in [Gens -> Seq(Vocabulary)]
    /\ sole \in SUBSET Gens

\* The prefix never claims more than the device holds: for every token it
\* lists, the row at its position is the row of a fresh run on the tokens up
\* to there, whatever was abandoned, failed, or interleaved before.
PrefixExact ==
    /\ Len(cached) <= Context
    /\ \A i \in 1..Len(cached) : rows[i - 1] = Prefix(cached, i)

\* A generation nobody wrote into since its start (CompletionEngine.lock and
\* the worker keep the others out) chooses every token from the logits of
\* exactly the text it continues: reuse of the cache, after whatever went on
\* before the start, cannot change a greedy answer.
FreshLogits ==
    \A g \in sole : phase[g] = "choose" => basis[g] = text[g]

\* No decode step leaves the window: decode_token's position check never fires.
InsideWindow ==
    \A g \in Gens : phase[g] \in {"prefill", "step"} => pos[g] < Context
=============================================================================
