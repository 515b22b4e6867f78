--------------------------- MODULE DecoderDesigns ---------------------------
(***************************************************************************)
(* The layer-pipelined decoders as designs of module Dataflow:             *)
(* designs/decoder_layer.py (SmolLM2, BF16 or W8 weights) and              *)
(* designs/qwen_decoder.py (Qwen2.5), with the weight packing and the      *)
(* chunk loop of runtime/generate.py.                                      *)
(*                                                                         *)
(* A shape s gives the sizes: tokens, chunks of layers layers each (one    *)
(* dispatch per token and chunk), heads, parallel gate workers, per weight *)
(* blocks in an output block, and the output blocks of each projection.    *)
(* Layers are numbered over the whole model, blocks from 0.                *)
(***************************************************************************)
EXTENDS IronPrograms

Blocks(name, layer, n) == [b \in 1..n |-> <<name, layer, b - 1>>]
Rows(name, t, layer, n) == [b \in 1..n |-> <<name, t, layer, b - 1>>]
Heads(name, t, layer, n) == [h \in 1..n |-> <<name, t, layer, h - 1>>]

-----------------------------------------------------------------------------
\* Dispatch d decodes one chunk of layers of one token.
TokenOf(s, d) == (d - 1) \div s.chunks + 1
FirstOf(s, d) == ((d - 1) % s.chunks) * s.layers
CacheIn(s, layer) == [h \in 1..s.heads |-> <<"kv", layer, h - 1>>]
CacheOf(layer, h, t) == <<"cache", layer, h, t>>

\* What the decoders change in DDR.
DecoderMem(s, t) ==
    (<<"hidden">> :> <<"hidden", t, IF t = 0 THEN 0 ELSE s.chunks * s.layers>>)
    @@ (<<"lut">> :> <<"lut", t>>)
    @@ [place \in {<<"kv", l, h - 1>> : l \in 1..(s.chunks * s.layers), h \in 1..s.heads} |->
            CacheOf(place[2], place[3], t)]

-----------------------------------------------------------------------------
\* designs/decoder_layer.py

\* Slip: the blocks keep the order of the model.
GateOrderSlip(s, k) == k
\* The order of the gate blocks in the packed weights: worker by worker.
GateOrder(s, k) ==
    LET group == 2 * s.parallel
        i == k % group
    IN  IF s.per = 2 THEN (k - i) + (i % s.parallel) * 2 + (i \div s.parallel) ELSE k

PackedDecoder(s, first) ==
    LET all(name, n) == FlattenSeq([l \in 1..s.layers |-> Blocks(name, first + l, n)])
    IN  all("qkv", s.per * s.qkv) \o all("o_proj", s.per * s.o)
        \o FlattenSeq([l \in 1..s.layers |-> [b \in 1..(s.per * s.gate) |->
                <<"gate_up", first + l, GateOrder(s, b - 1)>>]])
        \o all("down_proj", s.per * s.down)

LayerDepth(s) ==
    Depth({"w_qkv", "w_o", "w_gate_group", "w_down", "hidden_initial", "hidden_final",
           "gammas", "gamma_q", "gamma_post", "lut", "cache_in", "cache_out", "norm_q",
           "qkv_rows", "packed_qkv", "attended", "o_rows", "after_attention",
           "norm_post", "gate_rows", "mlp", "down_rows"}
          \cup {Part(name, h) : name \in {"cache_in", "cache_out", "packed", "attended"},
                                h \in 0..(s.heads - 1)}
          \cup {Part(name, i) : name \in {"w_gate", "gate_rows"}, i \in 0..(s.parallel - 1)},
          1)

LayerSplit(s) ==
    [w_gate_group |-> PartNames("w_gate", s.parallel),
     gammas |-> <<"gamma_q", "gamma_post">>,
     cache_in |-> PartNames("cache_in", s.heads),
     packed_qkv |-> PartNames("packed", s.heads)]
LayerJoin(s) ==
    [cache_out |-> PartNames("cache_out", s.heads),
     attended |-> PartNames("attended", s.heads)]

HiddenIn(t, layer) == {<<"hidden_initial", <<"hidden", t, layer - 1>>>>}
NormalizeInput(t, layer) ==
    <<Apply(HiddenIn(t, layer) \cup {<<"gamma_q", <<"gamma_q", layer>>>>},
            {<<"norm_q", <<"norm_q", t, layer>>>>})>>
ProjectQkv(s, t, layer) ==
    Project("norm_q", <<"norm_q", t, layer>>, "w_qkv",
            Blocks("qkv", layer, s.per * s.qkv), s.per,
            "qkv_rows", Rows("qkv_rows", t, layer, s.qkv))
PackRope(s, t, layer) ==
    Gather("qkv_rows", Rows("qkv_rows", t, layer, s.qkv), {<<"lut", <<"lut", t>>>>},
           {<<"packed_qkv", Heads("packed", t, layer, s.heads)>>})
Attention(t, layer, h) ==
    <<Apply({<<Part("packed", h), <<"packed", t, layer, h>>>>,
             <<Part("cache_in", h), CacheOf(layer, h, t - 1)>>},
            {<<Part("cache_out", h), CacheOf(layer, h, t)>>,
             <<Part("attended", h), <<"attended", t, layer, h>>>>})>>
ProjectO(s, t, layer) ==
    Project("attended", Heads("attended", t, layer, s.heads), "w_o",
            Blocks("o_proj", layer, s.per * s.o), s.per,
            "o_rows", Rows("o_rows", t, layer, s.o))
ResidualAttention(s, t, layer) ==
    Gather("o_rows", Rows("o_rows", t, layer, s.o), HiddenIn(t, layer),
           {<<"after_attention", <<"after", t, layer>>>>})
NormalizePost(t, layer) ==
    <<Apply({<<"after_attention", <<"after", t, layer>>>>,
             <<"gamma_post", <<"gamma_post", layer>>>>},
            {<<"norm_post", <<"norm_post", t, layer>>>>})>>
\* Gate worker i makes every s.parallel-th row of the gate and up projections.
ProjectGate(s, t, layer, i) ==
    LET row(o) == (o - 1) * s.parallel + i
        mine == s.gate \div s.parallel
    IN  Project("norm_post", <<"norm_post", t, layer>>, Part("w_gate", i),
                [k \in 1..(mine * s.per) |->
                    <<"gate_up", layer, row((k - 1) \div s.per + 1) * s.per + ((k - 1) % s.per)>>],
                s.per, Part("gate_rows", i),
                [o \in 1..mine |-> <<"gate_rows", t, layer, row(o)>>])
MergeGateRows(s, t, layer) ==
    [k \in 1..s.gate |-> Apply(
        {<<Part("gate_rows", (k - 1) % s.parallel), <<"gate_rows", t, layer, k - 1>>>>},
        {<<"gate_rows", <<"gate_rows", t, layer, k - 1>>>>})]
Activate(s, t, layer) ==
    Gather("gate_rows", Rows("gate_rows", t, layer, s.gate), {},
           {<<"mlp", <<"mlp", t, layer>>>>})
ProjectDown(s, t, layer) ==
    Project("mlp", <<"mlp", t, layer>>, "w_down",
            Blocks("down_proj", layer, s.per * s.down), s.per,
            "down_rows", Rows("down_rows", t, layer, s.down))
ResidualMlp(s, t, layer) ==
    Gather("down_rows", Rows("down_rows", t, layer, s.down),
           {<<"after_attention", <<"after", t, layer>>>>},
           {<<"hidden_final", <<"hidden", t, layer>>>>})

\* What the workers of both decoders do for a layer.
CommonCalls(s, t, layer) ==
    [norm_q |-> NormalizeInput(t, layer),
     project_qkv |-> ProjectQkv(s, t, layer),
     project_o |-> ProjectO(s, t, layer),
     residual_attention |-> ResidualAttention(s, t, layer),
     norm_post |-> NormalizePost(t, layer),
     activate |-> Activate(s, t, layer),
     residual_mlp |-> ResidualMlp(s, t, layer)]
    @@ [w \in {Part("attention", h) : h \in 0..(s.heads - 1)} |->
            Attention(t, layer, CHOOSE h \in 0..(s.heads - 1) : Part("attention", h) = w)]

LayerCalls(s, t, layer) ==
    CommonCalls(s, t, layer)
    @@ [pack_rope |-> PackRope(s, t, layer),
        merge_gate_rows |-> MergeGateRows(s, t, layer),
        project_down |-> ProjectDown(s, t, layer)]
    @@ [w \in {Part("project_gate", i) : i \in 0..(s.parallel - 1)} |->
            ProjectGate(s, t, layer, CHOOSE i \in 0..(s.parallel - 1) : Part("project_gate", i) = w)]

\* calls[d][l] for every dispatch and layer, joined for each worker.
Programs(calls) ==
    [w \in DOMAIN calls[1][1] |-> [d \in DOMAIN calls |->
        FlattenSeq([l \in DOMAIN calls[d] |-> calls[d][l][w]])]]
LayerWorkers(s) ==
    Programs([d \in 1..(s.tokens * s.chunks) |-> [l \in 1..s.layers |->
        LayerCalls(s, TokenOf(s, d), FirstOf(s, d) + l)]])

\* The weight streams: one DMA for all layers of the chunk.
LayerStreams(s, first) ==
    LET packed == PackedDecoder(s, first)
        oBase == s.layers * s.per * s.qkv
        gateBase == oBase + s.layers * s.per * s.o
        downBase == gateBase + s.layers * s.per * s.gate
        stream(fifo, base, n) == FillOp(fifo, Tap(packed, base, <<s.layers, n>>, <<n, 1>>))
        gate == Tap(packed, gateBase, <<s.layers, s.per * s.gate>>, <<s.per * s.gate, 1>>)
    IN  stream("w_qkv", 0, s.per * s.qkv)
        \o stream("w_o", oBase, s.per * s.o)
        \o FillOp("w_gate_group", [g \in 1..(Len(gate) \div s.parallel) |->
                [i \in 1..s.parallel |-> gate[(g - 1) * s.parallel + i]]])
        \o stream("w_down", downBase, s.per * s.down)

\* Gammas, the RoPE table once per layer, and the cache of the chunk.
SideStreams(s, first, params) ==
    FillOp(params[1], [l \in 1..s.layers |->
               [i \in DOMAIN params[2] |-> <<params[2][i], first + l>>]])
    \o FillOp("lut", [l \in 1..s.layers |-> <<"lut">>])
    \o FillOp("cache_in", [l \in 1..s.layers |-> CacheIn(s, first + l)])

\* Slip: the next layer is filled before this one is drained.
LayerLoopSlip(s, first) ==
    FlattenSeq([l \in 1..s.layers |-> FillOp("hidden_initial", <<<<"hidden">>>>)
                                      \o DrainOp("hidden_final", <<<<"hidden">>>>)])
    \o DrainOp("cache_out", [l \in 1..s.layers |-> CacheIn(s, first + l)])
    \o AwaitOp("cache_out")
    \o ReturnOp
\* Layer after layer reads and writes the hidden buffer; the new cache is
\* drained when the last layer is out.
LayerLoop(s, first) ==
    FlattenSeq([l \in 1..s.layers |-> FillOp("hidden_initial", <<<<"hidden">>>>)
                                      \o DrainOp("hidden_final", <<<<"hidden">>>>)
                                      \o AwaitOp("hidden_final")])
    \o DrainOp("cache_out", [l \in 1..s.layers |-> CacheIn(s, first + l)])
    \o AwaitOp("cache_out")
    \o ReturnOp

\* decode_token: a new embedding and RoPE table, then chunk after chunk.
DecodeTokens(s, streams, params) ==
    FlattenSeq([d \in 1..(s.tokens * s.chunks) |->
        LET t == TokenOf(s, d)
            first == FirstOf(s, d)
        IN  (IF first = 0
             THEN WriteOp((<<"hidden">> :> <<"hidden", t, 0>>) @@ (<<"lut">> :> <<"lut", t>>))
             ELSE <<>>)
            \o streams[d] \o SideStreams(s, first, params) \o LayerLoop(s, first)])

DecoderLayer(s) ==
    Compile(LayerDepth(s), LayerSplit(s), LayerJoin(s), LayerWorkers(s),
            DecodeTokens(s, [d \in 1..(s.tokens * s.chunks) |-> LayerStreams(s, FirstOf(s, d))],
                         <<"gammas", <<"gamma_q", "gamma_post">>>>),
            DecoderMem(s, 0), DecoderMem(s, s.tokens))

-----------------------------------------------------------------------------
\* designs/qwen_decoder.py: one gate worker, a bias, and weights interleaved
\* layer by layer.  A down block spans several rows of the packed matrix.

\* _packed_qwen_chunk: block b of every layer, then block b + 1; down row by row.
PackedQwen(s, first) ==
    LET layersOf(name, n) ==
            FlattenSeq([b \in 1..n |-> [l \in 1..s.layers |-> <<name, first + l, b - 1>>]])
    IN  layersOf("qkv", s.per * s.qkv) \o layersOf("o_proj", s.per * s.o)
        \o layersOf("gate_up", s.per * s.gate)
        \o layersOf("down_proj", s.per * s.down * s.downRows)

DownBlock(s, layer, b) == [r \in 1..s.downRows |-> <<"down_proj", layer, b * s.downRows + r - 1>>]

QwenStreams(s, first) ==
    LET packed == PackedQwen(s, first)
        oBase == s.layers * s.per * s.qkv
        gateBase == oBase + s.layers * s.per * s.o
        downBase == gateBase + s.layers * s.per * s.gate
        stream(fifo, base, n) == FillOp(fifo, Tap(packed, base, <<s.layers, n>>, <<1, s.layers>>))
        rows == s.per * s.down * s.downRows
        down == Tap(packed, downBase, <<s.layers, rows>>, <<1, s.layers>>)
    IN  stream("w_qkv", 0, s.per * s.qkv)
        \o stream("w_o", oBase, s.per * s.o)
        \o stream("w_gate", gateBase, s.per * s.gate)
        \o FillOp("w_down", [b \in 1..(Len(down) \div s.downRows) |->
                [r \in 1..s.downRows |-> down[(b - 1) * s.downRows + r]]])

PackBias(s, t, layer) ==
    Gather("qkv_rows", Rows("qkv_rows", t, layer, s.qkv),
           {<<"lut", <<"lut", t>>>>, <<"qkv_bias", <<"qkv_bias", layer>>>>},
           {<<"packed_qkv", Heads("packed", t, layer, s.heads)>>})
ProjectGateUp(s, t, layer) ==
    Project("norm_post", <<"norm_post", t, layer>>, "w_gate",
            Blocks("gate_up", layer, s.per * s.gate), s.per,
            "gate_rows", Rows("gate_rows", t, layer, s.gate))
ProjectDownRows(s, t, layer) ==
    Project("mlp", <<"mlp", t, layer>>, "w_down",
            [b \in 1..(s.per * s.down) |-> DownBlock(s, layer, b - 1)], s.per,
            "down_rows", Rows("down_rows", t, layer, s.down))

QwenWorkers(s) ==
    Programs([d \in 1..(s.tokens * s.chunks) |-> [l \in 1..s.layers |->
        LET t == TokenOf(s, d)
            layer == FirstOf(s, d) + l
        IN  CommonCalls(s, t, layer)
            @@ [pack |-> PackBias(s, t, layer),
                project_gate |-> ProjectGateUp(s, t, layer),
                project_down |-> ProjectDownRows(s, t, layer)]]])

QwenDepth(s) ==
    Depth({"w_qkv", "w_o", "w_gate", "w_down", "hidden_initial", "hidden_final",
           "params", "gamma_q", "gamma_post", "qkv_bias", "lut", "cache_in", "cache_out",
           "norm_q", "qkv_rows", "packed_qkv", "attended", "o_rows", "after_attention",
           "norm_post", "gate_rows", "mlp", "down_rows"}
          \cup {Part(name, h) : name \in {"cache_in", "cache_out", "packed", "attended"},
                                h \in 0..(s.heads - 1)}, 1)

QwenSplit(s) ==
    [params |-> <<"gamma_q", "gamma_post", "qkv_bias">>,
     cache_in |-> PartNames("cache_in", s.heads),
     packed_qkv |-> PartNames("packed", s.heads)]

QwenDecoder(s) ==
    Compile(QwenDepth(s), QwenSplit(s), LayerJoin(s), QwenWorkers(s),
            DecodeTokens(s, [d \in 1..(s.tokens * s.chunks) |-> QwenStreams(s, FirstOf(s, d))],
                         <<"params", <<"gamma_q", "gamma_post", "qkv_bias">>>>),
            DecoderMem(s, 0), DecoderMem(s, s.tokens))
=============================================================================
