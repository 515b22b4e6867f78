----------------------------- MODULE XdnaBackend ----------------------------
(***************************************************************************)
(* The operations of the Ollama backend: expert products on slots of a     *)
(* buffer object that keep their weights from call to call, and dense      *)
(* products tile by tile, from the cache or streamed through those same    *)
(* slots.  The backend's mutex makes the calls sequential; a call may fail *)
(* at any point and the next one finds what it left.  Which of the two a   *)
(* model gets, the name of its architecture decides: nothing else keeps    *)
(* streamed tiles apart from slots that hold experts.                      *)
(* Buffer "expert" stands for weights_bo with scales_bo, "native_expert"   *)
(* for the native program's weights_bo: they are named by the cache that   *)
(* feeds them.                                                             *)
(***************************************************************************)
EXTENDS WeightCache

CONSTANTS
    Models,    \* the models to load, each [architecture, tensors]: what the
               \* name of its architecture shows, a set of "qwen" (at its
               \* front) and "moe"; [Kinds -> set of its tensors]
    Experts,   \* the experts of a tensor
    Batch,     \* kExpertBatch
    Tiles      \* tiles of a dense tensor

Buffers == Kinds \ Dense
Slots == 1..Batch

\* expert_cache_key and dense_cache_key: the tensor, and the expert or tile
CacheKeys ==
    [k \in Kinds |-> (UNION {m.tensors[k] : m \in Models}) \X
                       (IF k \in Dense THEN 1..Tiles ELSE Experts)]

\* The caches' keys are those of the tensors.
ASSUME BackendAssumption ==
    /\ Keys = CacheKeys
    /\ Batch \in Nat \ {0} /\ Tiles \in Nat \ {0}

\* About model files, outside the repository: a qwen with experts says so in
\* the name of its architecture.
ASSUME ModelAssumption ==
    \A m \in Models, b \in Buffers :
        "qwen" \in m.architecture /\ m.tensors[b] # {} => "moe" \in m.architecture

VARIABLES
    model,   \* the model the process has loaded
    step,    \* "idle", "slots", "run" (experts); "tiles", "stream" (dense)
    call,    \* [kind, tensor, chosen] of the call under way
    at,      \* the slot or tile the call has come to
    dirty,   \* dirty_slots
    up,      \* [Buffers -> [Slots -> ...]]: uploaded_experts: a key stands for
             \* the object the cache holds for it, Orphan for any object no
             \* cache holds, Empty for nullptr
    owner,   \* [Buffers -> tensor]: uploaded_expert_owner
    dev,     \* [Buffers -> [Slots -> content]]: what the device reads; a
             \* transfer takes what its call has just written in the mapping
    added,   \* [tiles -> Nat]: how often `accumulated' got each tile
    doubt    \* history, [Buffers -> SUBSET Slots]: slots a failed call recorded
             \* without a transfer

callVars == <<model, step, call, at, dirty>>
slotVars == <<up, owner, dev, doubt>>
vars == <<cacheVars, callVars, slotVars, added>>

Empty == <<>>
Orphan == <<"no cache">>
Zero == <<"zero">>
Tile == <<"tile">>
NoCall == [kind |-> "none", tensor |-> "none", chosen |-> <<>>]
Same(x) == [b \in Buffers |-> [s \in Slots |-> x]]
Nothing == [t \in 1..Tiles |-> 0]

Init ==
    /\ CacheInit
    /\ model \in Models
    /\ step = "idle" /\ call = NoCall /\ at = 1 /\ dirty = {}
    /\ up = Same(Empty)
    /\ owner = [b \in Buffers |-> "none"]
    /\ dev = Same(Zero)
    /\ added = Nothing
    /\ doubt = [b \in Buffers |-> {}]

-----------------------------------------------------------------------------
\* Expert products

\* reset_uploaded_experts(): another tensor, no record left
StartExperts(b, w, chosen) ==
    /\ step = "idle"
    /\ step' = "slots"
    /\ call' = [kind |-> b, tensor |-> w, chosen |-> chosen]
    /\ at' = 1 /\ dirty' = {}
    /\ IF owner[b] = w
       THEN UNCHANGED <<up, doubt>>
       ELSE /\ up' = [up EXCEPT ![b] = [s \in Slots |-> Empty]]
            /\ doubt' = [doubt EXCEPT ![b] = {}]
    /\ owner' = [owner EXCEPT ![b] = w]
    /\ UNCHANGED <<cacheVars, model, dev, added>>

Buffer == call.kind
Chosen == 1..Len(call.chosen)
Wanted(s) == <<call.tensor, call.chosen[s]>>

InSlots == step = "slots" /\ at <= Batch /\ stage = "idle"

\* Slip: the slot is cleared and its record stays.
EmptySlotRecorded ==
    /\ InSlots
    /\ at > Len(call.chosen)
    /\ at' = at + 1
    /\ dirty' = IF up[Buffer][at] = Empty THEN dirty ELSE dirty \cup {at}
    /\ UNCHANGED <<cacheVars, model, step, call, slotVars, added>>

\* A slot past the chosen experts is cleared, if it is known to hold one.
EmptySlot ==
    /\ InSlots
    /\ at > Len(call.chosen)
    /\ at' = at + 1
    /\ dirty' = IF up[Buffer][at] = Empty THEN dirty ELSE dirty \cup {at}
    /\ up' = [up EXCEPT ![Buffer][at] = Empty]
    /\ UNCHANGED <<cacheVars, model, step, call, owner, dev, doubt, added>>

AskExpert ==
    /\ InSlots
    /\ at <= Len(call.chosen)
    /\ Ask(Buffer, Wanted(at))
    /\ UNCHANGED <<callVars, slotVars, added>>

\* The same object as last time needs no copy.
TakeExpert ==
    /\ step = "slots"
    /\ stage \in {"cached", "uncached"}
    /\ Take
    /\ at' = at + 1
    /\ IF stage = "cached" /\ up[Buffer][at] = Key
       THEN UNCHANGED <<up, dirty>>
       ELSE /\ up' = [up EXCEPT ![Buffer][at] = IF stage = "cached" THEN Key ELSE Orphan]
            /\ dirty' = dirty \cup {at}
    /\ UNCHANGED <<model, step, call, owner, dev, doubt, added>>

\* The dirty slots are transferred in their order.
SyncSlot ==
    /\ step = "slots" /\ at > Batch
    /\ dirty # {}
    /\ LET s == Min(dirty)
       IN  /\ dev' = [dev EXCEPT ![Buffer][s] = IF s \in Chosen THEN Wanted(s) ELSE Zero]
           /\ doubt' = [doubt EXCEPT ![Buffer] = @ \ {s}]
           /\ dirty' = dirty \ {s}
    /\ UNCHANGED <<cacheVars, model, step, call, at, up, owner, added>>

Dispatch ==
    /\ step = "slots" /\ at > Batch
    /\ dirty = {}
    /\ step' = "run"
    /\ UNCHANGED <<cacheVars, model, call, at, dirty, slotVars, added>>

EndCall ==
    /\ step' = "idle" /\ call' = NoCall /\ at' = 1 /\ dirty' = {}
    /\ UNCHANGED model

\* Output copied, or the run did not complete
Return ==
    /\ step = "run"
    /\ EndCall
    /\ UNCHANGED <<cacheVars, slotVars, added>>

\* `return false' for an expert out of range or without a native layout, and
\* an exception in a transfer or in packing: what was recorded stays.  What a
\* half-transferred slot holds is left open by its place in doubt.
ExpertsFail ==
    /\ step = "slots"
    /\ \/ stage = "idle" /\ UNCHANGED cacheVars
       \/ stage = "none" /\ Take
    /\ EndCall
    /\ doubt' = [doubt EXCEPT ![Buffer] = @ \cup dirty]
    /\ UNCHANGED <<up, owner, dev, added>>

-----------------------------------------------------------------------------
\* Dense products

\* Slip: the mixtures of experts among the qwens are let through.
SupportsAnyQwen(m) == "qwen" \in m.architecture

\* GGML_XDNA_MODEL_ARCH begins with "qwen" and does not contain "moe".
SupportsDenseQwen(m) == "qwen" \in m.architecture /\ "moe" \notin m.architecture

StartDense(kind, d) ==
    /\ SupportsDenseQwen(model)
    /\ step = "idle"
    /\ step' = IF limit = 0 THEN "stream" ELSE "tiles"
    /\ call' = [kind |-> kind, tensor |-> d, chosen |-> <<>>]
    /\ at' = 1
    /\ UNCHANGED <<cacheVars, model, dirty, slotVars, added>>

AskTile ==
    /\ step = "tiles" /\ at <= Tiles /\ stage = "idle"
    /\ Ask(call.kind, <<call.tensor, at>>)
    /\ UNCHANGED <<callVars, slotVars, added>>

\* The run on the tile's own buffer, and the sum
TakeTile ==
    /\ step = "tiles"
    /\ stage \in {"cached", "uncached"}
    /\ Take
    /\ added' = [added EXCEPT ![at] = @ + 1]
    /\ at' = at + 1
    /\ UNCHANGED <<model, step, call, dirty, slotVars>>

\* Slip: streaming goes on with the sums of the tiles before it.
FallbackKeepsSums ==
    /\ step = "tiles" /\ stage = "none"
    /\ Take
    /\ step' = "stream"
    /\ at' = 1
    /\ UNCHANGED <<model, call, dirty, slotVars, added>>

\* compute_dense_streaming_locked() starts over, with sums of its own.
Fallback ==
    /\ step = "tiles" /\ stage = "none"
    /\ Take
    /\ step' = "stream"
    /\ at' = 1
    /\ added' = Nothing
    /\ UNCHANGED <<model, call, dirty, slotVars>>

\* A streamed tile fills every slot of weights_bo; uploaded_experts is not told.
Overwrite == dev' = [dev EXCEPT !["expert"] = [s \in Slots |-> Tile]]

StreamTile ==
    /\ step = "stream" /\ at <= Tiles
    /\ Overwrite
    /\ added' = [added EXCEPT ![at] = @ + 1]
    /\ at' = at + 1
    /\ UNCHANGED <<cacheVars, model, step, call, dirty, up, owner, doubt>>

\* Before the transfer, or after it
StreamFails ==
    /\ step = "stream" /\ at <= Tiles
    /\ Overwrite \/ UNCHANGED dev
    /\ EndCall
    /\ added' = Nothing
    /\ UNCHANGED <<cacheVars, up, owner, doubt>>

TileFails ==
    /\ step = "tiles" /\ stage \in {"cached", "uncached"}
    /\ Take
    /\ EndCall
    /\ added' = Nothing
    /\ UNCHANGED slotVars

\* accumulated becomes the result.
Deliver ==
    /\ step \in {"tiles", "stream"} /\ at > Tiles
    /\ EndCall
    /\ added' = Nothing
    /\ UNCHANGED <<cacheVars, slotVars>>

-----------------------------------------------------------------------------
Quiet == UNCHANGED <<callVars, owner, dev, doubt, added>>

\* Records that named the evicted object now name one no cache holds.
EvictUnderCall ==
    /\ Evict
    /\ up' = [b \in Buffers |-> [s \in Slots |->
                IF b = Victim /\ up[b][s] = Head(lru[Victim]) THEN Orphan ELSE up[b][s]]]
    /\ Quiet

CacheWork ==
    \/ EvictUnderCall
    \/ (PackExpert \/ PackTile \/ PackFails \/ InsertExpert \/ MakeTile) /\ Quiet /\ UNCHANGED up

Selections == UNION {[1..n -> Experts] : n \in Slots}

Next ==
    \/ \E b \in Buffers : \E w \in model.tensors[b], chosen \in Selections :
            StartExperts(b, w, chosen)
    \/ EmptySlot \/ AskExpert \/ TakeExpert \/ SyncSlot \/ Dispatch \/ Return \/ ExpertsFail
    \/ \E k \in Dense : \E d \in model.tensors[k] : StartDense(k, d)
    \/ AskTile \/ TakeTile \/ Fallback \/ StreamTile \/ StreamFails \/ TileFails \/ Deliver
    \/ CacheWork

Spec == Init /\ [][Next]_vars

-----------------------------------------------------------------------------
Right(s) == dev[Buffer][s] = Wanted(s)

\* When an expert product runs, each chosen slot of the device holds the
\* weights chosen for it, whatever was evicted, packed again or left in the
\* slot by earlier calls; unless a failed call recorded the slot without
\* transferring it.  Tiles streamed through the same slots are never in the
\* way: they leave the records alone, and only the gate on the architecture
\* keeps them out of a process whose slots hold experts.
OnlyDoubtfulSlotsStale ==
    step = "run" => \A s \in Chosen : Right(s) \/ s \in doubt[Buffer]

\* A dense result is the sum of each tile once, also when the cache gives up
\* between two tiles and the product starts over in the streaming path.
EachTileOnce ==
    step \in {"tiles", "stream"} /\ at > Tiles => added = [t \in 1..Tiles |-> 1]
=============================================================================
