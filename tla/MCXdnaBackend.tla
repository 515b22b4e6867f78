---------------------------- MODULE MCXdnaBackend ---------------------------
EXTENDS XdnaBackend

MCKinds(e, d, n, q) == [expert |-> e, dense |-> d, native_expert |-> n, native_dense |-> q]

\* The three answers of the gate: a mixture of experts among the qwens and one
\* of another family, whose dense products stay off the NPU, and a dense qwen.
MCModels == {
    [architecture |-> {"qwen", "moe"}, tensors |-> MCKinds({"w1", "w2"}, {"d1"}, {}, {"q1"})],
    [architecture |-> {}, tensors |-> MCKinds({"w1"}, {"d1"}, {"n1"}, {"q1"})],
    [architecture |-> {"qwen"}, tensors |-> MCKinds({}, {"d1", "d2"}, {}, {"q1"})]}
MCSize == MCKinds(1, 2, 1, 1)
=============================================================================
