---------------------------- MODULE EngineDesigns ----------------------------
(***************************************************************************)
(* The row-split decoder engines as designs of module Dataflow:            *)
(* designs/engine.py (SmolLM) and designs/qwen_engine.py (Qwen2.5), with   *)
(* the weight layouts of engine_layout.py and qwen_engine_layout.py and    *)
(* the host side of runtime/engine.py and runtime/qwen_engine.py.          *)
(*                                                                         *)
(* Tiles are numbered from 0, layers, tokens and heads from 1.  A shape e  *)
(* gives tiles, layers, heads, the blocks of each projection a tile owns   *)
(* (qkv, o, groups, down) and steps, the sequence of dispatches: each is   *)
(* TRUE when it computes logits (Qwen).                                    *)
(***************************************************************************)
EXTENDS IronPrograms

RowBlocks(name, layer, first, n) == [b \in 1..n |-> <<name, layer, first + b - 1>>]
Weights(i) == Part("weights", i)
Slice(i) == Part("slice", i)

-----------------------------------------------------------------------------
\* What both engines share: the hub tile, the cache and the host's step.

\* The six slices of one round, as the MemTile joins them.
Joined(e, name, t, layer) == [i \in 1..e.tiles |-> <<name, t, layer, i - 1>>]
Forwarded(e, name, t, layer) == <<"forwarded", Joined(e, name, t, layer)>>

\* Attention reads the rows of the tokens before this one.
CachedRows(layer, t) == [j \in 1..t |-> <<"kv_new", j, layer>>]

HubTile(e, t) ==
    <<Apply({<<"cache", <<"header", t>>>>}, {<<"broadcast", <<"header", t>>>>})>>
    \o FlattenSeq([l \in 1..e.layers |->
        Gather("cache", [h \in 1..e.heads |-> CachedRows(l, t - 1)],
               {<<"joined", Joined(e, "qkv", t, l)>>},
               {<<"broadcast", <<"attended", t, l>>>>, <<"kv_new", <<"kv_new", t, l>>>>})
        \o [r \in 1..3 |->
            LET name == <<"o_proj", "mlp", "down">>[r]
            IN  Apply({<<"joined", Joined(e, name, t, l)>>},
                      {<<"broadcast", Forwarded(e, name, t, l)>>})]])

Receive(object) == <<Apply({<<"broadcast", object>>}, {})>>
Emit(e, name, t, layer, i, blocks) ==
    Gather(Weights(i), blocks, {}, {<<Slice(i), <<name, t, layer, i>>>>})

CacheStream(e) ==
    <<<<"header">>>> \o FlattenSeq([l \in 1..e.layers |-> [h \in 1..e.heads |-> <<"kv", l, h>>]])

EngineMem(e, t) ==
    (<<"header">> :> <<"header", t>>)
    @@ [place \in {<<"kv", l, h>> : l \in 1..e.layers, h \in 1..e.heads} |->
            CachedRows(place[2], t)]
    @@ [place \in {<<"kv_new", l>> : l \in 1..e.layers} |->
            IF t = 0 THEN <<"unset">> ELSE <<"kv_new", t, place[2]>>]

\* Slip: the new rows are not appended to the cache.
StepSlip(e, t, streams, drains) ==
    WriteOp(<<"header">> :> <<"header", t>>)
    \o FlattenSeq([i \in 1..e.tiles |-> FillOp(Weights(i - 1), streams[i])])
    \o FillOp("cache", CacheStream(e))
    \o DrainOp("kv_new", [l \in 1..e.layers |-> <<"kv_new", l>>])
    \o FlattenSeq([i \in DOMAIN drains |-> DrainOp(drains[i][1], drains[i][2])])
    \o AwaitOp("kv_new")
    \o FlattenSeq([i \in DOMAIN drains |-> AwaitOp(drains[i][1])])
    \o ReturnOp
\* step: the header, the dispatch, then the new rows into the cache.
Step(e, t, streams, drains) ==
    WriteOp(<<"header">> :> <<"header", t>>)
    \o FlattenSeq([i \in 1..e.tiles |-> FillOp(Weights(i - 1), streams[i])])
    \o FillOp("cache", CacheStream(e))
    \o DrainOp("kv_new", [l \in 1..e.layers |-> <<"kv_new", l>>])
    \o FlattenSeq([i \in DOMAIN drains |-> DrainOp(drains[i][1], drains[i][2])])
    \o AwaitOp("kv_new")
    \o FlattenSeq([i \in DOMAIN drains |-> AwaitOp(drains[i][1])])
    \o ReturnOp
    \o AppendOp([place \in {<<"kv", l, h>> : l \in 1..e.layers, h \in 1..e.heads} |->
                    <<"kv_new", place[2]>>])

\* What feeds the hub has hubDepth buffers on its side.
EngineDepth(e, outputs, hubDepth) ==
    Depth({Weights(i) : i \in 0..(e.tiles - 1)} \cup {Slice(i) : i \in 0..(e.tiles - 1)}
          \cup {"broadcast"}, 2)
    @@ [cache |-> hubDepth, joined |-> hubDepth, kv_new |-> 1] @@ outputs
EngineJoin(e) == [joined |-> PartNames("slice", e.tiles)]

\* One program per tile and the hub, for every dispatch.
EnginePrograms(e, tiles) ==
    [w \in {Part("gemv_tile", i) : i \in 0..(e.tiles - 1)} |->
        tiles[CHOOSE i \in 1..e.tiles : Part("gemv_tile", i - 1) = w]]
    @@ [hub_tile |-> [t \in DOMAIN e.steps |-> HubTile(e, t)]]

-----------------------------------------------------------------------------
\* designs/engine.py

BlocksPerLayer(e) == 1 + e.qkv + e.o + 4 * e.groups + e.down
TileBlocks(e) == e.layers * BlocksPerLayer(e) + 1

\* A tile's weights of one layer: groups of gate rows and the matching up rows.
TileLayerBlocks(e, layer, tile) ==
    <<<<"gammas", layer>>>>
    \o RowBlocks("qkv", layer, tile * e.qkv, e.qkv)
    \o RowBlocks("o_proj", layer, tile * e.o, e.o)
    \o FlattenSeq([g \in 1..e.groups |->
            LET first == 2 * (tile * e.groups + g - 1)
            IN  RowBlocks("gate", layer, first, 2) \o RowBlocks("up", layer, first, 2)])
    \o RowBlocks("down", layer, tile * e.down, e.down)
PackWeights(e) ==
    FlattenSeq([i \in 1..e.tiles |->
        FlattenSeq([l \in 1..e.layers |-> TileLayerBlocks(e, l, i - 1)]) \o <<<<"final_norm">>>>])

\* Group k of four blocks of a tile: two of gate rows, two of up rows.
SwigluBlocks(e, layer, i) ==
    [k \in 1..(4 * e.groups) |->
        LET group == i * e.groups + (k - 1) \div 4
            part == (k - 1) % 4
        IN  IF part < 2 THEN <<"gate", layer, 2 * group + part>>
                        ELSE <<"up", layer, 2 * group + part - 2>>]

\* Vectors of the broadcast are copied out and released at once.
TileLayer(e, t, l, i) ==
    <<Apply({<<Weights(i), <<"gammas", l>>>>}, {})>>
    \o Emit(e, "qkv", t, l, i, RowBlocks("qkv", l, i * e.qkv, e.qkv))
    \o Receive(<<"attended", t, l>>)
    \o Emit(e, "o_proj", t, l, i, RowBlocks("o_proj", l, i * e.o, e.o))
    \o Receive(Forwarded(e, "o_proj", t, l))
    \o Emit(e, "mlp", t, l, i, SwigluBlocks(e, l, i))
    \o Receive(Forwarded(e, "mlp", t, l))
    \o Emit(e, "down", t, l, i, RowBlocks("down", l, i * e.down, e.down))
    \o Receive(Forwarded(e, "down", t, l))
GemvTile(e, t, i) ==
    Receive(<<"header", t>>)
    \o FlattenSeq([l \in 1..e.layers |-> TileLayer(e, t, l, i)])
    \o <<Apply({<<Weights(i), <<"final_norm">>>>}, When(i = 0, {<<"hidden_out", <<"hidden", t>>>>}))>>

EngineDispatches(e) ==
    LET packed == PackWeights(e)
        streams == [i \in 1..e.tiles |->
            Tap(packed, (i - 1) * TileBlocks(e), <<1, TileBlocks(e)>>, <<0, 1>>)]
    IN  FlattenSeq([t \in DOMAIN e.steps |->
            Step(e, t, streams, <<<<"hidden_out", <<<<"hidden">>>>>>>>)])
DecoderEngine(e) ==
    LET hidden(t) == <<"hidden">> :> (IF t = 0 THEN <<"unset">> ELSE <<"hidden", t>>) IN
    Compile(EngineDepth(e, [hidden_out |-> 1], 2), NoLinks, EngineJoin(e),
            EnginePrograms(e, [i \in 1..e.tiles |-> [t \in DOMAIN e.steps |->
                GemvTile(e, t, i - 1)]]),
            EngineDispatches(e),
            EngineMem(e, 0) @@ hidden(0), EngineMem(e, Len(e.steps)) @@ hidden(Len(e.steps)))

-----------------------------------------------------------------------------
\* designs/qwen_engine.py: tiles own uneven rows, and o, groups and lm are
\* sequences; parts is the blocks of a group, lmParts of a group of logits.

QwenTileLayerBlocks(e, layer, tile) ==
    LET out == e.o[tile + 1]
        outStart == StartOf(e.o, tile)
        mlpStart == StartOf(e.groups, tile)
    IN  <<<<"params", layer, tile>>>>
        \o RowBlocks("qkv", layer, tile * e.qkv, e.qkv)
        \o RowBlocks("o_proj", layer, outStart, out)
        \o FlattenSeq([g \in 1..e.groups[tile + 1] |->
                LET first == e.parts * (mlpStart + g - 1)
                IN  RowBlocks("gate", layer, first, e.parts)
                    \o RowBlocks("up", layer, first, e.parts)])
        \o FlattenSeq([r \in 1..out |->
                [c \in 1..e.tiles |-> <<"down", layer, outStart + r - 1, c - 1>>]])
TileHeadBlocks(e, tile) ==
    <<<<"final_norm">>>>
    \o RowBlocks("lm_head", 0, e.lmParts * StartOf(e.lm, tile), e.lmParts * e.lm[tile + 1])
PackQwenWeights(e) ==
    FlattenSeq([i \in 1..e.tiles |->
        FlattenSeq([l \in 1..e.layers |-> QwenTileLayerBlocks(e, l, i - 1)])
        \o TileHeadBlocks(e, i - 1)])

LayerBlocks(e, tile) ==
    1 + e.qkv + e.o[tile + 1] + 2 * e.parts * e.groups[tile + 1] + e.o[tile + 1] * e.tiles
HeadBlocks(e, tile) == 1 + e.lm[tile + 1] * e.lmParts
QwenTileBlocks(e, tile, logits) ==
    e.layers * LayerBlocks(e, tile) + (IF logits THEN HeadBlocks(e, tile) ELSE 0)
\* Every stream holds the LM head, whether the dispatch reads it or not.
TileOffset(e, tile) ==
    StartOf([i \in 1..e.tiles |-> QwenTileBlocks(e, i - 1, TRUE)], tile)

QwenTileLayer(e, t, l, i) ==
    LET out == e.o[i + 1]
        rows(first, n) == [b \in 1..n |-> first + b - 1]
        group(name, g) == RowBlocks(name, l, e.parts * (StartOf(e.groups, i) + g - 1), e.parts)
    IN  <<Apply({<<Weights(i), <<"params", l, i>>>>}, {})>>
        \o Emit(e, "qkv", t, l, i, RowBlocks("qkv", l, i * e.qkv, e.qkv))
        \o Receive(<<"attended", t, l>>)
        \o Emit(e, "o_proj", t, l, i, RowBlocks("o_proj", l, StartOf(e.o, i), out))
        \o Receive(Forwarded(e, "o_proj", t, l))
        \o Emit(e, "mlp", t, l, i,
                FlattenSeq([g \in 1..e.groups[i + 1] |-> group("gate", g) \o group("up", g)]))
        \o Gather(Weights(i),
                  [k \in 1..(out * e.tiles) |->
                      <<"down", l, StartOf(e.o, i) + (k - 1) \div e.tiles, (k - 1) % e.tiles>>],
                  {<<"broadcast", Forwarded(e, "mlp", t, l)>>},
                  {<<Slice(i), <<"down", t, l, i>>>>})
        \o Receive(Forwarded(e, "down", t, l))
LmHead(e, t, i) ==
    <<Apply({<<Weights(i), <<"final_norm">>>>}, {})>>
    \o FlattenSeq([g \in 1..e.lm[i + 1] |->
        LET group == StartOf(e.lm, i) + g - 1
        IN  Gather(Weights(i), RowBlocks("lm_head", 0, e.lmParts * group, e.lmParts), {},
                   {<<Part("logits", i), <<"logits", t, group>>>>})])
\* Without the LM head, tile 0 signals the end of its last layer.
Signal(t, i) == IF i = 0 THEN <<Apply({}, {<<"logits_0", <<"signal", t>>>>})>> ELSE <<>>
QwenGemvTile(e, t, i) ==
    Receive(<<"header", t>>)
    \o FlattenSeq([l \in 1..e.layers |-> QwenTileLayer(e, t, l, i)])
    \o (IF e.steps[t] THEN LmHead(e, t, i) ELSE Signal(t, i))

\* Slip: nothing is drained but the keys and values.
LogitDrainsSlip(e, logits) ==
    IF logits
    THEN [i \in 1..e.tiles |->
            <<Part("logits", i - 1),
              [g \in 1..e.lm[i] |-> <<"logits", StartOf(e.lm, i - 1) + g - 1>>]>>]
    ELSE <<>>
\* The drains of a dispatch: all logits, or tile 0's signal.
LogitDrains(e, logits) ==
    IF logits
    THEN [i \in 1..e.tiles |->
            <<Part("logits", i - 1),
              [g \in 1..e.lm[i] |-> <<"logits", StartOf(e.lm, i - 1) + g - 1>>]>>]
    ELSE <<<<"logits_0", <<<<"logits", 0>>>>>>>>

QwenDispatches(e) ==
    LET packed == PackQwenWeights(e) IN
    FlattenSeq([t \in DOMAIN e.steps |->
        Step(e, t,
             [i \in 1..e.tiles |-> Tap(packed, TileOffset(e, i - 1),
                                       <<1, QwenTileBlocks(e, i - 1, e.steps[t])>>, <<0, 1>>)],
             LogitDrains(e, e.steps[t]))])
\* The last dispatch computes logits.
QwenMem(e, t) ==
    EngineMem(e, t)
    @@ [place \in {<<"logits", g>> : g \in 0..(StartOf(e.lm, e.tiles) - 1)} |->
            IF t = 0 THEN <<"unset">> ELSE <<"logits", t, place[2]>>]
QwenEngine(e) ==
    Compile(EngineDepth(e, Depth({Part("logits", i) : i \in 0..(e.tiles - 1)}, 2), 1),
            NoLinks, EngineJoin(e),
            EnginePrograms(e, [i \in 1..e.tiles |-> [t \in DOMAIN e.steps |->
                QwenGemvTile(e, t, i - 1)]]),
            QwenDispatches(e), QwenMem(e, 0), QwenMem(e, Len(e.steps)))
=============================================================================
