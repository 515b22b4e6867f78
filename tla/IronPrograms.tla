--------------------------- MODULE IronPrograms ----------------------------
(***************************************************************************)
(* What the files of npu_llm/designs write a design with: kernel calls     *)
(* between acquires and releases, the loops around them, and the runtime   *)
(* sequence of fills, drains and awaits.                                   *)
(***************************************************************************)
EXTENDS Naturals, SequencesExt

\* One kernel call: the objects it needs (in, with what they should hold), the
\* outputs it holds (room), and what it releases afterwards (free, out).
Call(in, room, free, out) == [in |-> in, room |-> room, free |-> free, out |-> out]

When(condition, set) == IF condition THEN set ELSE {}

\* A call that acquires all it uses and releases it again.
Apply(in, out) == Call(in, {p[1] : p \in out}, {p[1] : p \in in}, out)

\* A worker that holds others and its outputs while it takes block after block.
Gather(fifo, blocks, others, outputs) ==
    [k \in DOMAIN blocks |->
        Call({<<fifo, blocks[k]>>} \cup others, {p[1] : p \in outputs},
             {fifo} \cup When(k = Len(blocks), {p[1] : p \in others}),
             When(k = Len(blocks), outputs))]

\* A worker that holds an operand and makes a row of each per weight blocks.
Project(operand, held, fifo, blocks, per, out, rows) ==
    [k \in DOMAIN blocks |->
        Call({<<operand, held>>, <<fifo, blocks[k]>>}, {out},
             {fifo} \cup When(k = Len(blocks), {operand}),
             When(k % per = 0, {<<out, rows[k \div per]>>}))]

\* The operations of a runtime sequence and of the host around it.
FillOp(fifo, places) == <<[op |-> "fill", fifo |-> fifo, places |-> places]>>
DrainOp(fifo, places) == <<[op |-> "drain", fifo |-> fifo, places |-> places]>>
AwaitOp(fifo) == <<[op |-> "await", fifo |-> fifo]>>
WriteOp(values) == <<[op |-> "write", values |-> values]>>
AppendOp(from) == <<[op |-> "append", from |-> from]>>
ReturnOp == <<[op |-> "return"]>>

\* TensorAccessPattern: the places a DMA visits, outer dimension first.
Tap(buffer, offset, sizes, strides) ==
    [i \in 1..(sizes[1] * sizes[2]) |->
        buffer[1 + offset + ((i - 1) \div sizes[2]) * strides[1]
                          + ((i - 1) % sizes[2]) * strides[2]]]

Part(name, i) == name \o "_" \o ToString(i)
PartNames(name, n) == [i \in 1..n |-> Part(name, i - 1)]
Depth(names, n) == [f \in names |-> n]

\* Where the i-th of parts that follow each other starts, from 0.
StartOf(sizes, i) ==
    LET at[j \in 0..i] == IF j = 0 THEN 0 ELSE at[j - 1] + sizes[j] IN at[i]

\* A design with programs[worker][dispatch], as module Dataflow runs it.
Compile(depth, split, join, programs, host, before, after) ==
    [depth |-> depth, split |-> split, join |-> join, host |-> host,
     mem |-> before, result |-> after,
     prog |-> [w \in DOMAIN programs |-> FlattenSeq(programs[w])],
     ends |-> [w \in DOMAIN programs |-> [d \in DOMAIN programs[w] |->
                  StartOf([i \in DOMAIN programs[w] |-> Len(programs[w][i])], d)]]]
NoLinks == <<>>
=============================================================================
