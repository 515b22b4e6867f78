----------------------------- MODULE MCDataflow -----------------------------
(***************************************************************************)
(* Small shapes of every design for TLC, and the schedules it explores.    *)
(*                                                                         *)
(* Each of these designs has a plan (Planned), so that Dataflow_proofs     *)
(* answers for all of its schedules.  TLC explores, for every actor, the   *)
(* schedule in which that actor moves only when nothing else can: every    *)
(* order of two moves in DDR, and the longest lag of every reader and      *)
(* writer.  Designs that are not Large run in every order, too.            *)
(***************************************************************************)
EXTENDS DesignPlans, DecoderDesigns, EngineDesigns, ProjectDesigns

VARIABLE lagging

AllActors == LET designs == Designs IN [name \in DOMAIN designs |-> ActorsOf(designs[name])]
Actors == AllActors[design]

CanMove(a) ==
    CASE a[1] = "kernel" -> CanRun(a[2])
      [] a[1] = "split" -> CanSplit(a[2])
      [] a[1] = "join" -> CanJoin(a[2])
      [] a[1] = "fill" -> CanFill(a[2])
      [] a[1] = "drain" -> CanDrain(a[2])
      [] a[1] = "host" -> CanGoOn

Nobody == <<"any", "order">>
Large == {"decoder_bf16", "decoder_w8", "qwen_bf16", "qwen_w8", "engine", "qwen_engine"}

Turns ==
    LET others == Actors \ {lagging}
    IN  CASE lagging = Nobody -> {a \in Actors : CanMove(a)}
          [] lagging # Nobody /\ (\E a \in others : CanMove(a)) ->
                {CHOOSE a \in others : CanMove(a)}
          [] OTHER -> {a \in {lagging} : CanMove(a)}

ScheduleInit ==
    /\ Init
    /\ lagging \in Actors \cup {Nobody}
    /\ lagging = Nobody => design \notin Large

ScheduleNext ==
    /\ \E a \in Turns :
        \/ a[1] = "kernel" /\ Kernel(a[2])
        \/ a[1] = "split" /\ SplitMove(a[2])
        \/ a[1] = "join" /\ JoinMove(a[2])
        \/ a[1] = "fill" /\ FillMove(a[2])
        \/ a[1] = "drain" /\ DrainMove(a[2])
        \/ a[1] = "host" /\ Host
    /\ UNCHANGED lagging

Schedules ==
    /\ ScheduleInit
    /\ [][ScheduleNext]_<<vars, lagging>>
    /\ WF_<<vars, lagging>>(ScheduleNext)

-----------------------------------------------------------------------------
\* Two parallel gate workers, two heads, and two blocks of most projections.
Shape(per, layers, tokens, chunks) ==
    [layers |-> layers, tokens |-> tokens, chunks |-> chunks, heads |-> 2,
     parallel |-> 2, per |-> per, qkv |-> 2, o |-> 1, gate |-> 4, down |-> 1,
     downRows |-> 2]

\* Two tiles with rows of their own, two heads, two groups.
Engine(layers, steps) ==
    [tiles |-> 2, layers |-> layers, steps |-> steps, heads |-> 2,
     qkv |-> 1, o |-> 1, groups |-> 1, down |-> 2]
\* The first tile owns more rows than the second.
UnevenEngine(layers, steps) ==
    [tiles |-> 2, layers |-> layers, steps |-> steps, heads |-> 2,
     qkv |-> 1, o |-> <<2, 1>>, groups |-> <<2, 1>>, parts |-> 1,
     lm |-> <<2, 1>>, lmParts |-> 2]

\* Three blocks in groups of two: a full group and a rest.
Rows3 == [blocks |-> 3, group |-> 2]
Tiles(cores) == [cores |-> cores, blocks |-> 3, group |-> 2, columns |-> 2]

TableOfDesigns ==
    [decoder_bf16 |-> DecoderLayer(Shape(2, 2, 1, 1)),
     decoder_w8 |-> DecoderLayer(Shape(1, 1, 2, 2)),
     qwen_bf16 |-> QwenDecoder(Shape(2, 2, 1, 1)),
     qwen_w8 |-> QwenDecoder(Shape(1, 1, 2, 2)),
     engine |-> DecoderEngine(Engine(2, <<TRUE, TRUE>>)),
     qwen_engine |-> QwenEngine(UnevenEngine(2, <<FALSE, TRUE>>)),
     engine_layer |-> DecoderEngine(Engine(1, <<TRUE>>)),
     project |-> ProjectW8(Rows3),
     norm_project |-> NormProject(Rows3),
     project_residual |-> ProjectResidual(Rows3),
     project_bf16 |-> ProjectBF16(Rows3),
     project_bf16_residual |-> ProjectBF16Residual(Rows3),
     gemv_w8a16 |-> GemvW8A16(Tiles(1)),
     matrix_vector |-> MatrixVector(Tiles(2)),
     kv_append |-> KvAppend(2),
     attention |-> AttentionDesign(2),
     attention_block |-> AttentionBlock(2),
     qkv_rope |-> QkvRope([kv |-> 2, per |-> 2]),
     rope |-> Rope(2),
     rmsnorm |-> Elementwise(<<"input", "gamma">>, 1),
     residual_add |-> Elementwise(<<"a", "b">>, 3),
     quantize |-> Elementwise(<<"a">>, 3),
     swiglu |-> Swiglu(2),
     slice |-> SliceBF16(4, 1, 2)]
\* (TLC evaluates a definition once, a replacement at every use.)
AllDesigns == LET designs == TableOfDesigns IN designs

\* The plan that is computed for a design is one: programs, links, access
\* patterns, awaits and packing agree, before anything runs.
AllPlanned ==
    LET designs == AllDesigns
    IN  {name \in DOMAIN designs : IsPlan(designs[name], PlanOf(designs[name]))}
Planned == design \in AllPlanned
=============================================================================
