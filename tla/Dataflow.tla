------------------------------ MODULE Dataflow ------------------------------
(***************************************************************************)
(* How a design of npu_llm/designs runs on the NPU: workers that acquire   *)
(* and release ObjectFifos around every kernel call, MemTile links that    *)
(* split and join objects, shim DMAs that fill FIFOs from buffers in DDR   *)
(* and drain FIFOs to them, and the runtime sequence that starts the DMAs  *)
(* and awaits the drains.  The designs are constants: DecoderDesigns,      *)
(* EngineDesigns and ProjectDesigns translate the source files into        *)
(* records of the fields below.  What IRON and the array do with a design  *)
(* is external to the repository; this module is how src/ relies on it.    *)
(*                                                                         *)
(*   depth   [FIFO -> objects it holds]                                    *)
(*   split   [FIFO -> Seq(FIFO)], join [FIFO -> Seq(FIFO)]: MemTile links  *)
(*   prog    [worker -> Seq(call)], all dispatches one after the other     *)
(*   ends    [worker -> Seq(Nat)], its calls up to the end of each dispatch *)
(*   host    Seq(operation of the runtime sequence or of the host)         *)
(*   mem     [place in DDR that changes -> object], before the first call  *)
(*   result  the same, after the last                                      *)
(*                                                                         *)
(* An object is represented by what it holds, such as <<"norm_q", token,   *)
(* layer>>; a place in DDR that never changes by the name of its content.  *)
(***************************************************************************)
EXTENDS Integers, Sequences, FiniteSets

CONSTANT Designs

Fields == {"depth", "split", "join", "prog", "ends", "host", "mem", "result"}

-----------------------------------------------------------------------------
\* What IRON checks when it builds a design.

Parts(links, parent) == {links[parent][i] : i \in DOMAIN links[parent]}
Children(links) == UNION {Parts(links, parent) : parent \in DOMAIN links}
Names(ports) == {p[1] : p \in ports}

Calls(d, w) == {d.prog[w][i] : i \in DOMAIN d.prog[w]}
Filled(d) == {d.host[i].fifo : i \in {j \in DOMAIN d.host : d.host[j].op = "fill"}}
DrainedBy(d) == {d.host[i].fifo : i \in {j \in DOMAIN d.host : d.host[j].op = "drain"}}

\* Who writes into a FIFO.
Producers(d, f) ==
    {<<"kernel", w>> : w \in {v \in DOMAIN d.prog :
                                \E call \in Calls(d, v) : f \in Names(call.out)}}
    \cup (IF f \in Children(d.split) THEN {<<"split", f>>} ELSE {})
    \cup (IF f \in DOMAIN d.join THEN {<<"join", f>>} ELSE {})
    \cup (IF f \in Filled(d) THEN {<<"fill", f>>} ELSE {})

\* A FIFO has one producer; a worker holds what it releases and writes; the
\* readers of a FIFO have different names; the host awaits what it drains.
WellFormed(d) ==
    /\ DOMAIN d = Fields
    /\ d.depth \in [DOMAIN d.depth -> Nat]
    /\ DOMAIN d.split \cup Children(d.split) \subseteq DOMAIN d.depth
    /\ DOMAIN d.join \cup Children(d.join) \subseteq DOMAIN d.depth
    /\ {"ddr", "link"} \cap Children(d.split) = {}
    /\ \A f \in DOMAIN d.depth : \A p, q \in Producers(d, f) : p = q
    /\ \A w \in DOMAIN d.prog :
        /\ w \notin {"host", "ddr", "link"} \cup Children(d.split)
        /\ UNION {call.room : call \in Calls(d, w)}
               \subseteq UNION {Names(call.out) : call \in Calls(d, w)}
        /\ \A call \in Calls(d, w) :
            /\ call.free \subseteq Names(call.in)
            /\ Names(call.in) \cup Names(call.out) \subseteq DOMAIN d.depth
            /\ Names(call.out) \subseteq call.room
    /\ Filled(d) \cup DrainedBy(d) \subseteq DOMAIN d.depth
    /\ Filled(d) \cap DrainedBy(d) = {}
    /\ \A i \in DOMAIN d.host :
        /\ d.host[i].op = "await" => d.host[i].fifo \in DrainedBy(d)
        /\ d.host[i].op \in {"fill", "drain"} =>
               LET p == d.host[i].places IN p \in Seq({p[k] : k \in DOMAIN p})

ASSUME DataflowAssumption ==
    LET designs == Designs IN \A d \in DOMAIN designs : WellFormed(designs[d])

VARIABLES
    design,   \* the design that was compiled and loaded
    pc,       \* [worker or "host" -> its next step]
    sent,     \* [FIFO -> Seq(object)]: every object ever released into it
    got,      \* [FIFO -> [reader -> number of objects it has released]]
    issued,   \* [FIFO -> Seq(place)]: what its shim DMA was told to move
    mem       \* [place -> object]

vars == <<design, pc, sent, got, issued, mem>>

-----------------------------------------------------------------------------
D == Designs[design]
Fifos == DOMAIN D.depth
Workers == DOMAIN D.prog

ParentOf(links, child) ==
    CHOOSE parent \in DOMAIN links : child \in Parts(links, parent)
IndexOf(links, child) ==
    LET parts == links[ParentOf(links, child)]
    IN  CHOOSE i \in DOMAIN parts : parts[i] = child

\* Who reads a FIFO: workers, the links to its parts or its parent, the host.
ReadersOf(d, f) ==
    {w \in DOMAIN d.prog : \E call \in Calls(d, w) : f \in Names(call.in)}
    \cup (IF f \in DOMAIN d.split THEN Parts(d.split, f) ELSE {})
    \cup (IF f \in Children(d.join) THEN {"link"} ELSE {})
    \cup (IF f \in DrainedBy(d) THEN {"ddr"} ELSE {})
AllReaders ==
    LET designs == Designs
    IN  [d \in DOMAIN designs |->
            LET one == designs[d] IN [f \in DOMAIN one.depth |-> ReadersOf(one, f)]]
Readers(f) == AllReaders[design][f]

Init ==
    /\ design \in DOMAIN Designs
    /\ pc = [a \in Workers \cup {"host"} |-> 1]
    /\ sent = [f \in Fifos |-> <<>>]
    /\ got = [f \in Fifos |-> [r \in Readers(f) |-> 0]]
    /\ issued = [f \in Fifos |-> <<>>]
    /\ mem = D.mem

-----------------------------------------------------------------------------
\* A buffer is free again when every reader has released the object in it.
RoomFor(f, n) == \A r \in Readers(f) : n <= got[f][r] + D.depth[f]

HasRoom(f) == RoomFor(f, Len(sent[f]) + 1)
HasObject(f, r) == got[f][r] < Len(sent[f])
NextObject(f, r) == sent[f][got[f][r] + 1]

Release(fifos, r) ==
    got' = [f \in Fifos |-> IF f \in fifos THEN [got[f] EXCEPT ![r] = @ + 1] ELSE got[f]]
Produce(out) ==
    sent' = [f \in Fifos |-> IF f \in Names(out)
                             THEN Append(sent[f], (CHOOSE p \in out : p[1] = f)[2])
                             ELSE sent[f]]

NextCall(w) == D.prog[w][pc[w]]

\* acquire, kernel, release.  An acquire takes nothing from the others, so
\* waiting for all the objects of a call at once is waiting one by one.
CanRun(w) ==
    /\ pc[w] \in DOMAIN D.prog[w]
    /\ \A f \in Names(NextCall(w).in) : HasObject(f, w)
    /\ \A f \in NextCall(w).room : HasRoom(f)
Kernel(w) ==
    /\ CanRun(w)
    /\ Release(NextCall(w).free, w)
    /\ Produce(NextCall(w).out)
    /\ pc' = [pc EXCEPT ![w] = @ + 1]
    /\ UNCHANGED <<design, issued, mem>>

\* A MemTile sends one part of an object to the FIFO of that part.
CanSplit(child) == HasObject(ParentOf(D.split, child), child) /\ HasRoom(child)
SplitMove(child) ==
    LET parent == ParentOf(D.split, child) IN
    /\ CanSplit(child)
    /\ Produce({<<child, NextObject(parent, child)[IndexOf(D.split, child)]>>})
    /\ Release({parent}, child)
    /\ UNCHANGED <<design, pc, issued, mem>>

\* A part arrives at the MemTile; the last one completes the joined object.
CanJoin(child) ==
    HasObject(child, "link") /\ RoomFor(ParentOf(D.join, child), got[child]["link"] + 1)
JoinMove(child) ==
    LET parent == ParentOf(D.join, child)
        parts == D.join[parent]
        n == got[child]["link"] + 1
        complete == \A c \in Parts(D.join, parent) \ {child} : got[c]["link"] >= n
    IN
    /\ CanJoin(child)
    /\ Release({child}, "link")
    /\ Produce(IF complete
               THEN {<<parent, [i \in DOMAIN parts |-> sent[parts[i]][n]]>>} ELSE {})
    /\ UNCHANGED <<design, pc, issued, mem>>

\* What DDR holds at a place; a split object spans one place per part.
Held(place) == IF place \in DOMAIN mem THEN mem[place] ELSE place
Loaded(f, place) ==
    IF f \in DOMAIN D.split THEN [i \in DOMAIN place |-> Held(place[i])] ELSE Held(place)

CanFill(f) ==
    "ddr" \notin Readers(f) /\ Len(sent[f]) < Len(issued[f]) /\ HasRoom(f)
FillMove(f) ==
    /\ CanFill(f)
    /\ Produce({<<f, Loaded(f, issued[f][Len(sent[f]) + 1])>>})
    /\ UNCHANGED <<design, pc, got, issued, mem>>

Stored(f, place, object) ==
    IF f \in DOMAIN D.join
    THEN [p \in DOMAIN mem |-> IF \E i \in DOMAIN place : place[i] = p
                               THEN object[CHOOSE i \in DOMAIN place : place[i] = p]
                               ELSE mem[p]]
    ELSE [mem EXCEPT ![place] = object]

CanDrain(f) ==
    "ddr" \in Readers(f) /\ got[f]["ddr"] < Len(issued[f]) /\ HasObject(f, "ddr")
DrainMove(f) ==
    /\ CanDrain(f)
    /\ mem' = Stored(f, issued[f][got[f]["ddr"] + 1], NextObject(f, "ddr"))
    /\ Release({f}, "ddr")
    /\ UNCHANGED <<design, pc, sent, issued>>

\* Every object a drain was told to move is in DDR.
Drained(f) == got[f]["ddr"] = Len(issued[f])

\* The host stores places, and rows of one buffer in another, between dispatches.
Written(o) ==
    CASE o.op = "write" -> [p \in DOMAIN mem |-> IF p \in DOMAIN o.values
                                                 THEN o.values[p] ELSE mem[p]]
      [] o.op = "append" -> [p \in DOMAIN mem |-> IF p \in DOMAIN o.from
                                                  THEN Append(mem[p], mem[o.from[p]])
                                                  ELSE mem[p]]
      [] OTHER -> mem

\* The runtime sequence starts a DMA, awaits one or returns; the host writes.
CanGoOn ==
    /\ pc["host"] \in DOMAIN D.host
    /\ LET o == D.host[pc["host"]] IN o.op = "await" => Drained(o.fifo)
Host ==
    /\ CanGoOn
    /\ LET o == D.host[pc["host"]] IN
       /\ issued' = IF o.op \in {"fill", "drain"}
                    THEN [issued EXCEPT ![o.fifo] = @ \o o.places] ELSE issued
       /\ mem' = Written(o)
    /\ pc' = [pc EXCEPT !["host"] = @ + 1]
    /\ UNCHANGED <<design, sent, got>>

Next ==
    \/ \E w \in Workers : Kernel(w)
    \/ \E child \in Children(D.split) : SplitMove(child)
    \/ \E child \in Children(D.join) : JoinMove(child)
    \/ \E f \in Fifos : FillMove(f) \/ DrainMove(f)
    \/ Host

Spec == Init /\ [][Next]_vars

\* Nothing on the array stops while it can move.
LiveSpec == Spec /\ WF_vars(Next)

-----------------------------------------------------------------------------
HostDone == pc["host"] > Len(D.host)

\* Dispatches that have returned to the host.
Returned == Cardinality({i \in DOMAIN D.host : i < pc["host"] /\ D.host[i].op = "return"})

\* Each kernel call gets the weight block, the activation and the cache it is
\* written for: packing, access patterns, links, loops and dispatches agree.
OperandsMatch ==
    \A w \in Workers : pc[w] \in DOMAIN D.prog[w] =>
        \A port \in NextCall(w).in :
            HasObject(port[1], w) => NextObject(port[1], w) = port[2]

\* What the host finds in DDR after the last dispatch is what it computed.
ResultsInPlace == HostDone => mem = D.result

\* A dispatch that has returned has computed everything: no worker of it has
\* an output left to produce, so the next dispatch meets an idle array.
ReturnMeansDone ==
    Returned > 0 =>
        \A w \in Workers : \A i \in pc[w]..D.ends[w][Returned] : D.prog[w][i].out = {}

\* Every dispatch returns: no order of acquires, links and drains locks up.
DispatchReturns == <>HostDone
=============================================================================
