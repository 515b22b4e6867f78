--------------------------- MODULE ProjectDesigns ---------------------------
(***************************************************************************)
(* The designs that run one operation of a layer, as designs of module     *)
(* Dataflow: projections (project.py, project_bf16.py, gemv_w8a16.py,      *)
(* examples/matrix_vector_multicore.py and _chunked.py), attention         *)
(* (attention.py, attention_block.py), rope.py, qkv_rope.py, rmsnorm.py,   *)
(* elementwise.py and tensor_copy.py.                                      *)
(*                                                                         *)
(* The content of a buffer is named after the FIFO it is streamed through: *)
(* block b of w is <<"w", b>>.  The output buffer C is the places that     *)
(* change: place <<"C", b>> ends up with <<"c", b>>.                       *)
(***************************************************************************)
EXTENDS IronPrograms

Numbered(name, n) == [b \in 1..n |-> <<name, b - 1>>]
Outputs(buffer, object, n) ==
    [place \in {<<buffer, b>> : b \in 0..(n - 1)} |-> <<object, place[2]>>]
Unset(buffer, n) == [place \in {<<buffer, b>> : b \in 0..(n - 1)} |-> <<"unset">>]

\* One kernel call per block, an object of every input and of the output.
BlockByBlock(inputs, out, n) ==
    [k \in 1..n |-> Apply({<<f, <<f, k - 1>>>> : f \in inputs}, {<<out, <<out, k - 1>>>>})]

\* A design of one dispatch that fills C.
SingleDispatch(names, depth, programs, host, n) ==
    Compile(Depth(names, depth), NoLinks, NoLinks,
            [w \in DOMAIN programs |-> <<programs[w]>>], host \o ReturnOp,
            Unset("C", n), Outputs("C", "c", n))

-----------------------------------------------------------------------------
\* project.py, project_bf16.py: the rows in groups of at most 64 blocks, one
\* task group each.  A shape p gives blocks and the size of a group.

Chunk(p, name, g) ==
    LET start == (g - 1) * p.group
        blocks == IF p.blocks - start < p.group THEN p.blocks - start ELSE p.group
    IN  Tap(Numbered(name, p.blocks), start, <<1, blocks>>, <<0, 1>>)
Groups(p) == (p.blocks + p.group - 1) \div p.group

\* The task groups: fills of a chunk, first those of the whole dispatch, and
\* the drain the host waits for.
TaskGroups(p, whole, streams) ==
    FlattenSeq([g \in 1..Groups(p) |->
        (IF g = 1 THEN whole ELSE <<>>)
        \o FlattenSeq([i \in DOMAIN streams |-> FillOp(streams[i], Chunk(p, streams[i], g))])
        \o DrainOp("c", Chunk(p, "C", g)) \o AwaitOp("c")])

Accumulate(p, operand, out) ==
    Project(operand, <<operand>>, "w", Numbered("w", p.blocks), 1,
            out, Numbered(out, p.blocks))
FillWhole(name) == FillOp(name, <<<<name>>>>)

ProjectW8(p) ==
    SingleDispatch({"w", "s", "x", "acc", "c"}, 1,
        [accumulate |-> Accumulate(p, "x", "acc"),
         dequant |-> BlockByBlock({"acc", "s"}, "c", p.blocks)],
        TaskGroups(p, FillWhole("x"), <<"w", "s">>), p.blocks)

NormProject(p) ==
    SingleDispatch({"w", "s", "hidden", "gamma", "norm", "acc", "c"}, 1,
        [normalize |-> <<Apply({<<"hidden", <<"hidden">>>>, <<"gamma", <<"gamma">>>>},
                               {<<"norm", <<"norm">>>>})>>,
         accumulate |-> Accumulate(p, "norm", "acc"),
         dequant |-> BlockByBlock({"acc", "s"}, "c", p.blocks)],
        TaskGroups(p, FillWhole("hidden") \o FillWhole("gamma"), <<"w", "s">>), p.blocks)

\* The residual is filled whole with the first group.
ProjectResidual(p) ==
    SingleDispatch({"w", "s", "x", "r", "acc", "p", "c"}, 1,
        [accumulate |-> Accumulate(p, "x", "acc"),
         dequant |-> BlockByBlock({"acc", "s"}, "p", p.blocks),
         add |-> BlockByBlock({"p", "r"}, "c", p.blocks)],
        TaskGroups(p, FillWhole("x") \o FillOp("r", Numbered("r", p.blocks)), <<"w", "s">>),
        p.blocks)

ProjectBF16(p) ==
    SingleDispatch({"w", "x", "c"}, 1, [core |-> Accumulate(p, "x", "c")],
        TaskGroups(p, FillWhole("x"), <<"w">>), p.blocks)

ProjectBF16Residual(p) ==
    SingleDispatch({"w", "x", "r", "p", "c"}, 1,
        [project_core |-> Accumulate(p, "x", "p"),
         add_core |-> BlockByBlock({"p", "r"}, "c", p.blocks)],
        TaskGroups(p, FillWhole("x"), <<"w", "r">>), p.blocks)

-----------------------------------------------------------------------------
\* Products in tiles of rows and columns: gemv_w8a16.py on one core, and
\* matrix_vector_multicore.py and _chunked.py on several.  A shape p gives
\* cores, blocks (row tiles of a core), group, and columns (tiles of a row).

MatVecCore(p, core) ==
    [k \in 1..(p.blocks * p.columns) |->
        LET row == (k - 1) \div p.columns
            part == (k - 1) % p.columns
        IN  Call({<<Part("coreA", core), <<"a", core * p.blocks + row, part>>>>,
                  <<"b", <<"b", part>>>>},
                 {Part("outC", core)}, {Part("coreA", core), "b"},
                 When(part = p.columns - 1, {<<Part("outC", core), <<"c", core * p.blocks + row>>>>}))]

\* The taps of a group: tiles of A row by row, all of B for every row of tiles.
ATap(p, core, g) ==
    LET rows == Chunk(p, "row", g)
    IN  FlattenSeq([i \in DOMAIN rows |-> [k \in 1..p.columns |->
            <<"a", core * p.blocks + rows[i][2], k - 1>>]])
\* Slip: B is filled once for the group.
BTapSlip(p, g) == Tap(Numbered("b", p.columns), 0, <<1, p.columns>>, <<0, 1>>)
BTap(p, g) == Tap(Numbered("b", p.columns), 0, <<Len(Chunk(p, "row", g)), p.columns>>, <<0, 1>>)
CTap(p, core, g) ==
    [i \in DOMAIN Chunk(p, "row", g) |-> <<"C", core * p.blocks + Chunk(p, "row", g)[i][2]>>]

\* A core is fed directly, or through a MemTile that forwards its A.
Feed(p, core, g, forwarded) ==
    IF forwarded
    THEN FillOp(Part("memA", core), [k \in DOMAIN ATap(p, core, g) |-> <<ATap(p, core, g)[k]>>])
    ELSE FillOp(Part("coreA", core), ATap(p, core, g))

\* All cores are started before the host waits for any.
MatVecGroups(p, forwarded) ==
    FlattenSeq([g \in 1..Groups(p) |->
        FillOp("b", BTap(p, g))
        \o FlattenSeq([i \in 1..p.cores |->
            Feed(p, i - 1, g, forwarded) \o DrainOp(Part("outC", i - 1), CTap(p, i - 1, g))])
        \o FlattenSeq([i \in 1..p.cores |-> AwaitOp(Part("outC", i - 1))])])

MatVecFifos(p, names) ==
    {Part(name, i) : name \in names, i \in 0..(p.cores - 1)} \cup {"b"}
MatVecPrograms(p) ==
    [w \in {Part("core", i) : i \in 0..(p.cores - 1)} |->
        <<MatVecCore(p, CHOOSE i \in 0..(p.cores - 1) : Part("core", i) = w)>>]

GemvW8A16(p) ==
    Compile(Depth(MatVecFifos(p, {"coreA", "outC"}), 2), NoLinks, NoLinks,
            MatVecPrograms(p), MatVecGroups(p, FALSE) \o ReturnOp,
            Unset("C", p.cores * p.blocks), Outputs("C", "c", p.cores * p.blocks))

\* Each core's A comes through a MemTile of its own; b is broadcast to all.
MatrixVector(p) ==
    Compile(Depth(MatVecFifos(p, {"memA", "coreA", "outC"}), 2),
            [f \in {Part("memA", i) : i \in 0..(p.cores - 1)} |->
                <<Part("coreA", CHOOSE i \in 0..(p.cores - 1) : Part("memA", i) = f)>>],
            NoLinks, MatVecPrograms(p),
            MatVecGroups(p, TRUE) \o ReturnOp,
            Unset("C", p.cores * p.blocks), Outputs("C", "c", p.cores * p.blocks))

-----------------------------------------------------------------------------
\* attention.py and attention_block.py: one worker per KV head.

PerHead(heads, programs) ==
    [w \in {Part("core", h) : h \in 0..(heads - 1)} |->
        <<programs[CHOOSE h \in 1..heads : Part("core", h - 1) = w]>>]
HeadFifos(heads, names) == {Part(name, h) : name \in names, h \in 0..(heads - 1)}

\* Fill both inputs of a head, drain its output and wait, then the next head.
HeadByHead(heads, inputs, out, buffer) ==
    FlattenSeq([h \in 1..heads |->
        FlattenSeq([i \in DOMAIN inputs |->
            FillOp(Part(inputs[i][1], h - 1), <<<<inputs[i][2], h - 1>>>>)])
        \o DrainOp(Part(out, h - 1), <<<<buffer, h - 1>>>>) \o AwaitOp(Part(out, h - 1))])

\* The cache is read and written in place.
KvAppend(heads) ==
    Compile(Depth(HeadFifos(heads, {"cache_in", "value", "cache_out"}), 1), NoLinks, NoLinks,
        PerHead(heads, [h \in 1..heads |->
            <<Apply({<<Part("cache_in", h - 1), <<"old", h - 1>>>>,
                     <<Part("value", h - 1), <<"value", h - 1>>>>},
                    {<<Part("cache_out", h - 1), <<"new", h - 1>>>>})>>]),
        HeadByHead(heads, <<<<"cache_in", "cache">>, <<"value", "value">>>>,
                   "cache_out", "cache") \o ReturnOp,
        Outputs("cache", "old", heads), Outputs("cache", "new", heads))

AttentionDesign(heads) ==
    Compile(Depth(HeadFifos(heads, {"a", "cache", "out"}), 1), NoLinks, NoLinks,
        PerHead(heads, [h \in 1..heads |->
            <<Apply({<<Part("a", h - 1), <<"q", h - 1>>>>,
                     <<Part("cache", h - 1), <<"cache", h - 1>>>>},
                    {<<Part("out", h - 1), <<"c", h - 1>>>>})>>]),
        HeadByHead(heads, <<<<"a", "q">>, <<"cache", "cache">>>>, "out", "C") \o ReturnOp,
        Unset("C", heads), Outputs("C", "c", heads))

\* Split parents and join parents move whole tensors; the new cache is awaited
\* before the output is drained.
AttentionBlock(heads) ==
    Compile(Depth(HeadFifos(heads, {"packed", "cache_in", "cache_out", "o"})
                  \cup {"packed_parent", "cache_in_parent", "cache_out_parent", "o_parent"}, 1),
        [packed_parent |-> PartNames("packed", heads),
         cache_in_parent |-> PartNames("cache_in", heads)],
        [cache_out_parent |-> PartNames("cache_out", heads), o_parent |-> PartNames("o", heads)],
        PerHead(heads, [h \in 1..heads |->
            <<Apply({<<Part("packed", h - 1), <<"packed", h - 1>>>>,
                     <<Part("cache_in", h - 1), <<"old", h - 1>>>>},
                    {<<Part("cache_out", h - 1), <<"new", h - 1>>>>,
                     <<Part("o", h - 1), <<"c", h - 1>>>>})>>]),
        FillOp("packed_parent", <<Numbered("packed", heads)>>)
        \o FillOp("cache_in_parent", <<Numbered("cache", heads)>>)
        \o DrainOp("cache_out_parent", <<Numbered("cache", heads)>>)
        \o AwaitOp("cache_out_parent")
        \o DrainOp("o_parent", <<Numbered("C", heads)>>)
        \o AwaitOp("o_parent") \o ReturnOp,
        Outputs("cache", "old", heads) @@ Unset("C", heads),
        Outputs("cache", "new", heads) @@ Outputs("C", "c", heads))

-----------------------------------------------------------------------------
\* qkv_rope.py: rows of q, k and v in the order [group of query heads, key,
\* value] for each KV head.  A shape p gives kv heads and per, queries per head.

Rotate(x, lut, y, rows) ==
    [k \in DOMAIN rows |->
        Apply({<<x, <<"row", rows[k]>>>>, <<lut, <<"lut">>>>}, {<<y, <<"rotated", rows[k]>>>>})]
Repeat(n) == [i \in 1..n |-> <<"lut">>]
PackedRow(p, row) ==
    IF row < p.kv * p.per
    THEN (row \div p.per) * (p.per + 2) + (row % p.per)
    ELSE LET head == (row - p.kv * p.per) % p.kv
         IN  head * (p.per + 2) + p.per + (IF row < p.kv * (p.per + 1) THEN 0 ELSE 1)
QkvRope(p) ==
    LET queries == p.kv * p.per
        rows(offset, n) == [i \in 1..n |-> offset + i - 1]
        source(offset, n) == Tap(Numbered("row", queries + 2 * p.kv), offset, <<1, n>>, <<0, 1>>)
        packed == Numbered("C", queries + 2 * p.kv)
        width == p.per + 2
        qPack == Tap(packed, 0, <<p.kv, p.per>>, <<width, 1>>)
        kPack == Tap(packed, p.per, <<p.kv, 1>>, <<width, 0>>)
        vPack == Tap(packed, p.per + 1, <<p.kv, 1>>, <<width, 0>>)
    IN  Compile(Depth({"q", "k", "v", "lut_q", "lut_k", "out_q", "out_k", "out_v"}, 2),
            NoLinks, NoLinks,
            [rotate_q |-> <<Rotate("q", "lut_q", "out_q", rows(0, queries))>>,
             rotate_k |-> <<Rotate("k", "lut_k", "out_k", rows(queries, p.kv))>>,
             copy_v |-> <<[i \in 1..p.kv |->
                 LET row == queries + p.kv + i - 1
                 IN  Apply({<<"v", <<"row", row>>>>}, {<<"out_v", <<"row", row>>>>})]>>],
            FillOp("q", source(0, queries)) \o FillOp("lut_q", Repeat(queries))
            \o DrainOp("out_q", qPack) \o AwaitOp("out_q")
            \o FillOp("k", source(queries, p.kv)) \o FillOp("lut_k", Repeat(p.kv))
            \o DrainOp("out_k", kPack) \o AwaitOp("out_k")
            \o FillOp("v", source(queries + p.kv, p.kv))
            \o DrainOp("out_v", vPack) \o AwaitOp("out_v") \o ReturnOp,
            Unset("C", queries + 2 * p.kv),
            [place \in {<<"C", b>> : b \in 0..(queries + 2 * p.kv - 1)} |->
                LET row == CHOOSE r \in 0..(queries + 2 * p.kv - 1) : PackedRow(p, r) = place[2]
                IN  <<IF row < queries + p.kv THEN "rotated" ELSE "row", row>>])

-----------------------------------------------------------------------------
\* rope.py, rmsnorm.py, elementwise.py, tensor_copy.py: one worker, a stream of
\* objects from each input, and one to the output.

Rope(heads) ==
    SingleDispatch({"row", "lut", "c"}, 2,
        [core |-> [k \in 1..heads |->
            Apply({<<"row", <<"row", k - 1>>>>, <<"lut", <<"lut">>>>}, {<<"c", <<"c", k - 1>>>>})]],
        FillOp("row", Numbered("row", heads)) \o FillOp("lut", Repeat(heads))
        \o DrainOp("c", Numbered("C", heads)) \o AwaitOp("c"), heads)

\* Elementwise over n tiles of some inputs; n = 1 is rmsnorm.
Elementwise(inputs, n) ==
    SingleDispatch({"c"} \cup {inputs[i] : i \in DOMAIN inputs}, 2,
        [core |-> BlockByBlock({inputs[i] : i \in DOMAIN inputs}, "c", n)],
        FlattenSeq([i \in DOMAIN inputs |-> FillOp(inputs[i], Numbered(inputs[i], n))])
        \o DrainOp("c", Numbered("C", n)) \o AwaitOp("c"), n)

\* swiglu reads the first and the second half of one buffer.
Swiglu(n) ==
    LET half(offset) == Tap(Numbered("gate_up", 2 * n), offset, <<1, n>>, <<0, 1>>) IN
    SingleDispatch({"gate", "up", "c"}, 2,
        [core |-> [k \in 1..n |->
            Apply({<<"gate", <<"gate_up", k - 1>>>>, <<"up", <<"gate_up", n + k - 1>>>>},
                  {<<"c", <<"c", k - 1>>>>})]],
        FillOp("gate", half(0)) \o FillOp("up", half(n))
        \o DrainOp("c", Numbered("C", n)) \o AwaitOp("c"), n)

\* slice_bf16 copies n tiles from an offset of total.
SliceBF16(total, offset, n) ==
    Compile(Depth({"in", "c"}, 2), NoLinks, NoLinks,
        [core |-> <<[k \in 1..n |->
            Apply({<<"in", <<"in", offset + k - 1>>>>}, {<<"c", <<"in", offset + k - 1>>>>})]>>],
        FillOp("in", Tap(Numbered("in", total), offset, <<1, n>>, <<0, 1>>))
        \o DrainOp("c", Numbered("C", n)) \o AwaitOp("c") \o ReturnOp,
        Unset("C", n),
        [place \in {<<"C", b>> : b \in 0..(n - 1)} |-> <<"in", offset + place[2]>>])
=============================================================================
