--------------------------- MODULE Dataflow_proofs ---------------------------
(***************************************************************************)
(* Theorems about Dataflow for every design that has a plan (DataflowPlan), *)
(* of any size, and every schedule.  The first part is what they rest on:  *)
(* what holds of links and FIFOs in every design that IRON accepts.        *)
(***************************************************************************)
EXTENDS DataflowPlan, SequenceTheorems, WellFoundedInduction, TLAPS

IsSeq(s) == \E S : s \in Seq(S)

LEMMA AppendIs ==
    ASSUME NEW s, IsSeq(s), NEW e
    PROVE  /\ IsSeq(Append(s, e))
           /\ Len(s) \in Nat
           /\ Len(Append(s, e)) = Len(s) + 1
<1>1. PICK S : s \in Seq(S)
  BY DEF IsSeq
<1>2. s \in Seq(S \cup {e})
  BY <1>1, SeqMonotonic
<1>3. Append(s, e) \in Seq(S \cup {e}) /\ Len(Append(s, e)) = Len(s) + 1
  BY <1>2, AppendProperties
<1> QED
  BY <1>1, <1>3, LenProperties DEF IsSeq

LEMMA ConcatIs ==
    ASSUME NEW s, NEW t, IsSeq(s), IsSeq(t)
    PROVE  /\ IsSeq(s \o t)
           /\ Len(s) \in Nat
           /\ Len(s \o t) \in Nat
           /\ Len(s) <= Len(s \o t)
<1>1. PICK S, T : s \in Seq(S) /\ t \in Seq(T)
  BY DEF IsSeq
<1>2. s \in Seq(S \cup T) /\ t \in Seq(S \cup T)
  BY <1>1, SeqMonotonic
<1>3. s \o t \in Seq(S \cup T) /\ Len(s \o t) = Len(s) + Len(t)
  BY <1>2, ConcatProperties
<1>4. Len(s) \in Nat /\ Len(t) \in Nat
  BY <1>2, LenProperties
<1> QED
  BY <1>3, <1>4 DEF IsSeq

\* What every design that IRON accepts keeps: types, and FIFOs that never hold
\* more objects than they have buffers, whoever lags behind.
TypeOK ==
    /\ design \in DOMAIN Designs
    /\ DOMAIN pc = Workers \cup {"host"}
    /\ \A a \in DOMAIN pc : pc[a] \in Nat \ {0}
    /\ DOMAIN sent = Fifos
    /\ DOMAIN issued = Fifos
    /\ DOMAIN got = Fifos
    /\ \A f \in Fifos : got[f] \in [Readers(f) -> Nat]
    /\ DOMAIN mem = DOMAIN D.mem

NoOverrun ==
    \A f \in Fifos : \A r \in Readers(f) :
        /\ got[f][r] <= Len(sent[f])
        /\ Len(sent[f]) <= got[f][r] + D.depth[f]

\* A FIFO is told to move something only by a fill or a drain of its own; no
\* joined object is ahead of any of its parts.
DataflowInv ==
    /\ TypeOK
    /\ NoOverrun
    /\ \A f \in Fifos : IsSeq(sent[f]) /\ IsSeq(issued[f])
    /\ \A f \in Fifos : issued[f] # <<>> => f \in Filled(D) \cup DrainedBy(D)
    /\ \A p \in DOMAIN D.join : \A c \in Parts(D.join, p) : Len(sent[p]) <= got[c]["link"]

\* What a move does to the FIFOs: objects appended to some, others released.
Moved(into, from, r) ==
    /\ UNCHANGED design
    /\ DOMAIN sent' = Fifos
    /\ DOMAIN got' = Fifos
    /\ \A f \in Fifos :
        /\ f \in into => \E e : sent'[f] = Append(sent[f], e)
        /\ f \notin into => sent'[f] = sent[f]
        /\ f \in from => got'[f] = [got[f] EXCEPT ![r] = @ + 1]
        /\ f \notin from => got'[f] = got[f]

Allowed(into, from, r) ==
    /\ \A f \in from : f \in Fifos /\ r \in Readers(f) /\ HasObject(f, r)
    /\ \A f \in into : f \in Fifos /\ HasRoom(f)

-----------------------------------------------------------------------------
LEMMA DesignIs ==
    ASSUME design \in DOMAIN Designs
    PROVE  WellFormed(D)
BY DataflowAssumption DEF D

LEMMA ReadersAre ==
    ASSUME design \in DOMAIN Designs, NEW f \in Fifos
    PROVE  Readers(f) = ReadersOf(D, f)
BY DEF Readers, AllReaders, Fifos, D

LEMMA SameDesign ==
    ASSUME UNCHANGED design
    PROVE  /\ D' = D
           /\ Fifos' = Fifos
           /\ Workers' = Workers
           /\ \A f : Readers(f)' = Readers(f)
BY DEF D, Fifos, Workers, Readers

\* The effect of a move, object by object.
Effect(f, into, from, r) ==
    /\ IsSeq(sent'[f])
    /\ f \in into => Len(sent'[f]) = Len(sent[f]) + 1
    /\ f \notin into => sent'[f] = sent[f]
    /\ got'[f] \in [Readers(f) -> Nat]
    /\ \A q \in Readers(f) :
        /\ f \in from /\ q = r => got'[f][q] = got[f][q] + 1
        /\ f \notin from \/ q # r => got'[f][q] = got[f][q]

LEMMA Lengths ==
    ASSUME DataflowInv, NEW f \in Fifos, NEW q \in Readers(f)
    PROVE  /\ got[f][q] \in Nat
           /\ Len(sent[f]) \in Nat
           /\ D.depth[f] \in Nat
           /\ got[f][q] <= Len(sent[f])
           /\ Len(sent[f]) <= got[f][q] + D.depth[f]
BY AppendIs, DesignIs DEF DataflowInv, TypeOK, NoOverrun, WellFormed, Fifos

LEMMA MoveKeeps ==
    ASSUME DataflowInv, NEW into, NEW from, NEW r,
           Moved(into, from, r), Allowed(into, from, r), NEW f \in Fifos
    PROVE  Effect(f, into, from, r)
<1>1. got[f] \in [Readers(f) -> Nat] /\ IsSeq(sent[f])
  BY DEF DataflowInv, TypeOK
<1>2. IsSeq(sent'[f]) /\ (f \in into => Len(sent'[f]) = Len(sent[f]) + 1)
  <2>1. CASE f \in into
    <3>1. PICK e : sent'[f] = Append(sent[f], e)
      BY <2>1 DEF Moved
    <3> QED
      BY <1>1, <2>1, <3>1, AppendIs
  <2>2. CASE f \notin into
    BY <1>1, <2>2 DEF Moved
  <2> QED
    BY <2>1, <2>2
<1>3. f \notin into => sent'[f] = sent[f]
  BY DEF Moved
<1>4. f \in from => got'[f] = [got[f] EXCEPT ![r] = @ + 1] /\ r \in Readers(f)
  BY DEF Moved, Allowed
<1>5. f \notin from => got'[f] = got[f]
  BY DEF Moved
<1>6. got'[f] \in [Readers(f) -> Nat]
  BY <1>1, <1>4, <1>5
<1>7. ASSUME NEW q \in Readers(f)
      PROVE  /\ f \in from /\ q = r => got'[f][q] = got[f][q] + 1
             /\ f \notin from \/ q # r => got'[f][q] = got[f][q]
  BY <1>1, <1>4, <1>5
<1> QED
  BY <1>2, <1>3, <1>6, <1>7 DEF Effect

LEMMA MoveSafe ==
    ASSUME DataflowInv, NEW into, NEW from, NEW r,
           Moved(into, from, r), Allowed(into, from, r)
    PROVE  NoOverrun'
<1> SUFFICES ASSUME NEW f \in Fifos, NEW q \in Readers(f)
             PROVE  got'[f][q] <= Len(sent'[f]) /\ Len(sent'[f]) <= got'[f][q] + D.depth[f]
  BY SameDesign DEF NoOverrun, Moved
<1>1. /\ got[f][q] \in Nat
      /\ Len(sent[f]) \in Nat
      /\ D.depth[f] \in Nat
      /\ got[f][q] <= Len(sent[f])
      /\ Len(sent[f]) <= got[f][q] + D.depth[f]
  BY Lengths
<1>2. Effect(f, into, from, r)
  BY MoveKeeps
<1>3. f \in into => Len(sent[f]) + 1 <= got[f][q] + D.depth[f]
  BY DEF Allowed, HasRoom, RoomFor
<1>4. f \in from /\ q = r => got[f][q] < Len(sent[f])
  BY DEF Allowed, HasObject
<1> QED
  BY <1>1, <1>2, <1>3, <1>4, SMTT(40) DEF Effect

\* The conjuncts of the invariant that are not about a single move.
LEMMA MoveInv ==
    ASSUME DataflowInv, NEW into, NEW from, NEW r,
           Moved(into, from, r), Allowed(into, from, r),
           \A p \in DOMAIN D.join : p \in into =>
               \A c \in Parts(D.join, p) : Len(sent[p]) + 1 <= got'[c]["link"],
           DOMAIN issued' = Fifos,
           \A f \in Fifos : IsSeq(issued'[f])
                            /\ (issued'[f] # <<>> => f \in Filled(D) \cup DrainedBy(D)),
           DOMAIN pc' = DOMAIN pc, \A a \in DOMAIN pc : pc'[a] \in Nat \ {0},
           DOMAIN mem' = DOMAIN mem
    PROVE  DataflowInv'
<1>1. UNCHANGED design
  BY DEF Moved
<1>2. \A f \in Fifos : Effect(f, into, from, r)
  BY MoveKeeps
<1>3. TypeOK'
  BY <1>1, <1>2, SameDesign DEF TypeOK, DataflowInv, Moved, Effect
<1>4. NoOverrun'
  BY MoveSafe
<1>5. (\A f \in Fifos : IsSeq(sent[f]) /\ IsSeq(issued[f]))'
  BY <1>1, <1>2, SameDesign DEF Effect, IsSeq
<1>6. (\A f \in Fifos : issued[f] # <<>> => f \in Filled(D) \cup DrainedBy(D))'
  BY <1>1, SameDesign
<1>7. ASSUME NEW p \in DOMAIN D.join, NEW c \in Parts(D.join, p)
      PROVE  Len(sent'[p]) <= got'[c]["link"]
  <2>1. p \in Fifos /\ c \in Fifos /\ "link" \in Readers(c)
    BY <1>7, DesignIs, ReadersAre DEF WellFormed, Fifos, Children, ReadersOf, DataflowInv, TypeOK
  <2>2. Len(sent[p]) <= got[c]["link"]
    BY <1>7 DEF DataflowInv
  <2>3. Effect(p, into, from, r) /\ Effect(c, into, from, r)
    BY <1>2, <2>1
  <2>4. got[c]["link"] \in Nat /\ Len(sent[p]) \in Nat
    BY <2>1, AppendIs DEF DataflowInv, TypeOK
  <2>5. CASE p \in into
    BY <1>7, <2>3, <2>4, <2>5 DEF Effect
  <2>6. CASE p \notin into
    BY <2>1, <2>2, <2>3, <2>4, <2>6 DEF Effect
  <2> QED
    BY <2>5, <2>6
<1> QED
  BY <1>1, <1>3, <1>4, <1>5, <1>6, <1>7, SameDesign DEF DataflowInv

LEMMA ProduceRelease ==
    ASSUME TypeOK, UNCHANGED design, NEW out, NEW from, NEW r,
           Produce(out), Release(from, r)
    PROVE  Moved(Names(out), from, r)
BY DEF Produce, Release, Moved, TypeOK

LEMMA NotJoined ==
    ASSUME design \in DOMAIN Designs, NEW f \in Fifos, NEW p,
           p \in Producers(D, f), p[1] # "join"
    PROVE  f \notin DOMAIN D.join
<1>1. f \in DOMAIN D.join => <<"join", f>> \in Producers(D, f)
  BY DEF Producers
<1>2. \A q \in Producers(D, f) : p = q
  BY DesignIs DEF WellFormed, Fifos
<1> QED
  BY <1>1, <1>2

-----------------------------------------------------------------------------
LEMMA KernelIs ==
    ASSUME DataflowInv, NEW w \in Workers, Kernel(w)
    PROVE  /\ Moved(Names(NextCall(w).out), NextCall(w).free, w)
           /\ Allowed(Names(NextCall(w).out), NextCall(w).free, w)
           /\ \A f \in Names(NextCall(w).out) : <<"kernel", w>> \in Producers(D, f)
<1> DEFINE call == NextCall(w)
<1>1. call \in Calls(D, w) /\ w \in DOMAIN D.prog
  BY DEF Kernel, CanRun, Calls, NextCall, Workers
<1>2. /\ call.free \subseteq Names(call.in)
      /\ Names(call.in) \cup Names(call.out) \subseteq Fifos
      /\ Names(call.out) \subseteq call.room
  BY <1>1, DesignIs DEF WellFormed, DataflowInv, TypeOK, Fifos
<1>3. \A f \in Names(call.in) : w \in Readers(f)
  BY <1>1, <1>2, ReadersAre DEF ReadersOf, DataflowInv, TypeOK
<1>4. Allowed(Names(call.out), call.free, w)
  BY <1>2, <1>3 DEF Allowed, Kernel, CanRun
<1>5. Moved(Names(call.out), call.free, w)
  BY ProduceRelease DEF Kernel, DataflowInv
<1>6. \A f \in Names(call.out) : <<"kernel", w>> \in Producers(D, f)
  BY <1>1 DEF Producers
<1> QED
  BY <1>4, <1>5, <1>6

LEMMA ChildIs ==
    ASSUME NEW links, NEW child \in Children(links)
    PROVE  /\ ParentOf(links, child) \in DOMAIN links
           /\ child \in Parts(links, ParentOf(links, child))
BY DEF ParentOf, Children

LEMMA SplitIs ==
    ASSUME DataflowInv, NEW child \in Children(D.split), SplitMove(child)
    PROVE  /\ Moved({child}, {ParentOf(D.split, child)}, child)
           /\ Allowed({child}, {ParentOf(D.split, child)}, child)
           /\ <<"split", child>> \in Producers(D, child)
<1> DEFINE parent == ParentOf(D.split, child)
<1>1. child \in Fifos /\ parent \in Fifos /\ child \in Readers(parent)
  BY ChildIs, DesignIs, ReadersAre DEF WellFormed, Fifos, ReadersOf, DataflowInv, TypeOK
<1>2. Allowed({child}, {parent}, child)
  BY <1>1 DEF Allowed, SplitMove, CanSplit
<1>3. PICK e : Produce({<<child, e>>})
  BY DEF SplitMove
<1>4. Names({<<child, e>>}) = {child}
  BY DEF Names
<1>5. Moved({child}, {parent}, child)
  BY <1>3, <1>4, ProduceRelease DEF SplitMove, DataflowInv
<1>6. <<"split", child>> \in Producers(D, child)
  BY DEF Producers
<1> QED
  BY <1>2, <1>5, <1>6

LEMMA FillIs ==
    ASSUME DataflowInv, NEW f \in Fifos, FillMove(f)
    PROVE  /\ Moved({f}, {}, "ddr")
           /\ Allowed({f}, {}, "ddr")
           /\ <<"fill", f>> \in Producers(D, f)
<1>1. PICK e : Produce({<<f, e>>})
  BY DEF FillMove
<1>2. Names({<<f, e>>}) = {f}
  BY DEF Names
<1>4. Moved({f}, {}, "ddr")
  BY <1>1, <1>2 DEF FillMove, Produce, Moved, DataflowInv, TypeOK
<1>5. Len(sent[f]) \in Nat
  BY AppendIs DEF DataflowInv
<1>6. issued[f] # <<>>
  BY <1>5, EmptySeq DEF FillMove, CanFill
<1>7. f \in Filled(D)
  BY <1>6, ReadersAre DEF DataflowInv, TypeOK, FillMove, CanFill, ReadersOf
<1> QED
  BY <1>4, <1>7 DEF Allowed, FillMove, CanFill, Producers

LEMMA DrainIs ==
    ASSUME DataflowInv, NEW f \in Fifos, DrainMove(f)
    PROVE  Moved({}, {f}, "ddr") /\ Allowed({}, {f}, "ddr")
BY DEF DrainMove, CanDrain, Moved, Allowed, Release, DataflowInv, TypeOK

LEMMA JoinIs ==
    ASSUME DataflowInv, NEW child \in Children(D.join), JoinMove(child)
    PROVE  \E into :
               /\ Moved(into, {child}, "link")
               /\ Allowed(into, {child}, "link")
               /\ \A p \in into : /\ <<"join", p>> \in Producers(D, p)
                                  /\ \A c \in Parts(D.join, p) :
                                        Len(sent[p]) + 1 <= got'[c]["link"]
<1> DEFINE parent == ParentOf(D.join, child)
           n == got[child]["link"] + 1
           complete == \A c \in Parts(D.join, parent) \ {child} : got[c]["link"] >= n
<1>1. /\ parent \in DOMAIN D.join
      /\ child \in Parts(D.join, parent)
      /\ parent \in Fifos
      /\ Parts(D.join, parent) \subseteq Fifos
      /\ \A c \in Parts(D.join, parent) : "link" \in Readers(c)
  BY ChildIs, DesignIs, ReadersAre
     DEF WellFormed, Fifos, Children, ReadersOf, DataflowInv, TypeOK
<1>2. UNCHANGED design /\ HasObject(child, "link") /\ RoomFor(parent, n)
  BY DEF JoinMove, CanJoin
<1>3. CASE ~complete
  <2>1. Produce({})
    BY <1>3 DEF JoinMove
  <2>2. Moved({}, {child}, "link")
    BY <2>1, <1>2, ProduceRelease DEF JoinMove, DataflowInv, Names
  <2> QED
    BY <1>1, <1>2, <2>2 DEF Allowed
<1>4. CASE complete
  <2>1. PICK e : Produce({<<parent, e>>})
    BY <1>4 DEF JoinMove
  <2>2. Names({<<parent, e>>}) = {parent}
    BY DEF Names
  <2>3. Moved({parent}, {child}, "link")
    BY <2>1, <2>2, <1>2, ProduceRelease DEF JoinMove, DataflowInv
  <2>4. Len(sent[parent]) <= got[child]["link"]
    BY <1>1 DEF DataflowInv
  <2>5. Len(sent[parent]) \in Nat /\ got[child]["link"] \in Nat
    BY <1>1, AppendIs DEF DataflowInv, TypeOK
  <2>6. HasRoom(parent)
    <3> SUFFICES ASSUME NEW q \in Readers(parent)
                 PROVE  Len(sent[parent]) + 1 <= got[parent][q] + D.depth[parent]
      BY DEF HasRoom, RoomFor
    <3>1. n <= got[parent][q] + D.depth[parent]
      BY <1>2 DEF RoomFor
    <3>2. got[parent][q] \in Nat /\ D.depth[parent] \in Nat
      BY <1>1, Lengths
    <3> QED
      BY <2>4, <2>5, <3>1, <3>2
  <2>7. Allowed({parent}, {child}, "link")
    BY <1>1, <1>2, <2>6 DEF Allowed
  <2>8. ASSUME NEW c \in Parts(D.join, parent)
        PROVE  Len(sent[parent]) + 1 <= got'[c]["link"]
    <3>1. Effect(c, {parent}, {child}, "link") /\ got[c]["link"] \in Nat
      BY <1>1, <2>3, <2>7, <2>8, MoveKeeps DEF DataflowInv, TypeOK
    <3>2. CASE c = child
      BY <1>1, <2>4, <2>5, <3>1, <3>2 DEF Effect
    <3>3. CASE c # child
      <4>1. got'[c]["link"] = got[c]["link"]
        BY <1>1, <3>1, <3>3 DEF Effect
      <4>2. got[c]["link"] >= n
        BY <1>4, <2>8, <3>3
      <4> QED
        BY <2>4, <2>5, <3>1, <4>1, <4>2
    <3> QED
      BY <3>2, <3>3
  <2>9. <<"join", parent>> \in Producers(D, parent)
    BY <1>1 DEF Producers
  <2> QED
    BY <2>3, <2>7, <2>8, <2>9
<1> QED
  BY <1>3, <1>4

LEMMA HostIs ==
    ASSUME DataflowInv, Host
    PROVE  /\ Moved({}, {}, "ddr")
           /\ Allowed({}, {}, "ddr")
           /\ DOMAIN issued' = Fifos
           /\ \A f \in Fifos : /\ IsSeq(issued'[f])
                               /\ Len(issued[f]) <= Len(issued'[f])
                               /\ issued'[f] # <<>> => f \in Filled(D) \cup DrainedBy(D)
<1> DEFINE o == D.host[pc["host"]]
<1>1. Moved({}, {}, "ddr") /\ Allowed({}, {}, "ddr")
  BY DEF Host, Moved, Allowed, DataflowInv, TypeOK
<1>2. CASE o.op \notin {"fill", "drain"}
  <2>1. issued' = issued
    BY <1>2 DEF Host
  <2>2. \A f \in Fifos : Len(issued[f]) \in Nat
    BY AppendIs DEF DataflowInv
  <2> QED
    BY <1>1, <2>1, <2>2 DEF DataflowInv, TypeOK
<1>3. CASE o.op \in {"fill", "drain"}
  <2>1. issued' = [issued EXCEPT ![o.fifo] = @ \o o.places]
    BY <1>3 DEF Host
  <2>2. pc["host"] \in DOMAIN D.host
    BY DEF Host, CanGoOn
  <2>3. IsSeq(o.places)
    BY <1>3, <2>2, DesignIs DEF WellFormed, DataflowInv, TypeOK, IsSeq
  <2>4. o.fifo \in Filled(D) \cup DrainedBy(D)
    BY <1>3, <2>2 DEF Filled, DrainedBy
  <2>5. DOMAIN issued' = Fifos
    BY <2>1 DEF DataflowInv, TypeOK
  <2>6. ASSUME NEW f \in Fifos
        PROVE  /\ IsSeq(issued'[f])
               /\ Len(issued[f]) <= Len(issued'[f])
               /\ issued'[f] # <<>> => f \in Filled(D) \cup DrainedBy(D)
    <3>1. IsSeq(issued[f]) /\ (issued[f] # <<>> => f \in Filled(D) \cup DrainedBy(D))
      BY SMTT(40) DEF DataflowInv
    <3>2. CASE f = o.fifo
      <4>1. issued'[f] = issued[f] \o o.places
        BY <2>1, <3>2 DEF DataflowInv, TypeOK
      <4> QED
        BY <2>3, <2>4, <3>1, <3>2, <4>1, ConcatIs
    <3>3. CASE f # o.fifo
      <4>1. issued'[f] = issued[f]
        BY <2>1, <3>3 DEF DataflowInv, TypeOK
      <4> QED
        BY <3>1, <4>1, AppendIs
    <3> QED
      BY <3>2, <3>3
  <2> QED
    BY <1>1, <2>5, <2>6
<1> QED
  BY <1>2, <1>3

-----------------------------------------------------------------------------
LEMMA DataflowInit == Init => DataflowInv
<1> SUFFICES ASSUME Init PROVE DataflowInv
  OBVIOUS
<1>1. IsSeq(<<>>) /\ Len(<<>>) = 0
  BY EmptySeq DEF IsSeq
<1>2. TypeOK
  BY DEF Init, TypeOK
<1>3. NoOverrun
  BY <1>1, DesignIs DEF Init, NoOverrun, WellFormed, Fifos
<1>4. ASSUME NEW p \in DOMAIN D.join, NEW c \in Parts(D.join, p)
      PROVE  Len(sent[p]) <= got[c]["link"]
  <2>1. p \in Fifos /\ c \in Fifos /\ "link" \in Readers(c)
    BY <1>4, DesignIs, ReadersAre DEF WellFormed, Fifos, Children, ReadersOf, Init
  <2> QED
    BY <1>1, <2>1 DEF Init
<1> QED
  BY <1>1, <1>2, <1>3, <1>4 DEF Init, DataflowInv

LEMMA DataflowStep == DataflowInv /\ [Next]_vars => DataflowInv'
<1> SUFFICES ASSUME DataflowInv, [Next]_vars PROVE DataflowInv'
  OBVIOUS
<1>a. \A f \in Fifos : IsSeq(issued[f])
                       /\ (issued[f] # <<>> => f \in Filled(D) \cup DrainedBy(D))
  BY DEF DataflowInv
<1>b. DOMAIN issued = Fifos /\ \A a \in DOMAIN pc : pc[a] \in Nat \ {0}
  BY DEF DataflowInv, TypeOK
<1>1. ASSUME NEW w \in Workers, Kernel(w)
      PROVE  DataflowInv'
  <2> DEFINE call == NextCall(w)
  <2>1. /\ Moved(Names(call.out), call.free, w)
        /\ Allowed(Names(call.out), call.free, w)
        /\ \A f \in Names(call.out) : <<"kernel", w>> \in Producers(D, f)
    BY <1>1, KernelIs
  <2>2. \A p \in DOMAIN D.join : p \notin Names(call.out)
    <3>1. \A p \in Names(call.out) : p \in Fifos
      BY <2>1 DEF Allowed
    <3> QED
      BY <2>1, <3>1, NotJoined DEF DataflowInv, TypeOK
  <2>3. issued' = issued /\ mem' = mem /\ pc' = [pc EXCEPT ![w] = @ + 1]
    BY <1>1 DEF Kernel
  <2>4. DOMAIN pc' = DOMAIN pc /\ \A a \in DOMAIN pc : pc'[a] \in Nat \ {0}
    BY <1>b, <2>3
  <2> HIDE DEF call
  <2> QED
    BY <1>a, <1>b, <2>1, <2>2, <2>3, <2>4, MoveInv
<1>2. ASSUME NEW c \in Children(D.split), SplitMove(c)
      PROVE  DataflowInv'
  <2>1. /\ Moved({c}, {ParentOf(D.split, c)}, c)
        /\ Allowed({c}, {ParentOf(D.split, c)}, c)
        /\ <<"split", c>> \in Producers(D, c)
    BY <1>2, SplitIs
  <2>2. \A p \in DOMAIN D.join : p \notin {c}
    BY <2>1, NotJoined DEF Allowed, DataflowInv, TypeOK
  <2>3. issued' = issued /\ mem' = mem /\ pc' = pc
    BY <1>2 DEF SplitMove
  <2> QED
    BY <1>a, <1>b, <2>1, <2>2, <2>3, MoveInv
<1>3. ASSUME NEW c \in Children(D.join), JoinMove(c)
      PROVE  DataflowInv'
  <2>1. PICK into : /\ Moved(into, {c}, "link")
                    /\ Allowed(into, {c}, "link")
                    /\ \A p \in into : \A x \in Parts(D.join, p) :
                          Len(sent[p]) + 1 <= got'[x]["link"]
    BY <1>3, JoinIs
  <2>2. issued' = issued /\ mem' = mem /\ pc' = pc
    BY <1>3 DEF JoinMove
  <2> QED
    BY <1>a, <1>b, <2>1, <2>2, MoveInv
<1>4. ASSUME NEW f \in Fifos, FillMove(f)
      PROVE  DataflowInv'
  <2>1. Moved({f}, {}, "ddr") /\ Allowed({f}, {}, "ddr") /\ <<"fill", f>> \in Producers(D, f)
    BY <1>4, FillIs
  <2>2. \A p \in DOMAIN D.join : p \notin {f}
    BY <2>1, NotJoined DEF DataflowInv, TypeOK
  <2>3. issued' = issued /\ mem' = mem /\ pc' = pc
    BY <1>4 DEF FillMove
  <2> QED
    BY <1>a, <1>b, <2>1, <2>2, <2>3, MoveInv
<1>5. ASSUME NEW f \in Fifos, DrainMove(f)
      PROVE  DataflowInv'
  <2>1. Moved({}, {f}, "ddr") /\ Allowed({}, {f}, "ddr")
    BY <1>5, DrainIs
  <2>2. issued' = issued /\ pc' = pc /\ DOMAIN mem' = DOMAIN mem
    BY <1>5 DEF DrainMove, Stored
  <2> QED
    BY <1>a, <1>b, <2>1, <2>2, MoveInv
<1>6. CASE Host
  <2>1. /\ Moved({}, {}, "ddr")
        /\ Allowed({}, {}, "ddr")
        /\ DOMAIN issued' = Fifos
        /\ \A f \in Fifos : /\ IsSeq(issued'[f])
                            /\ issued'[f] # <<>> => f \in Filled(D) \cup DrainedBy(D)
    BY <1>6, HostIs
  <2>2. DOMAIN mem' = DOMAIN mem
    <3> DEFINE o == D.host[pc["host"]]
    <3>1. mem' = Written(o)
      BY <1>6 DEF Host
    <3>2. CASE o.op = "write"
      BY <3>1, <3>2 DEF Written
    <3>3. CASE o.op = "append"
      BY <3>1, <3>3 DEF Written
    <3>4. CASE o.op \notin {"write", "append"}
      BY <3>1, <3>4 DEF Written
    <3> QED
      BY <3>2, <3>3, <3>4
  <2>3. DOMAIN pc' = DOMAIN pc /\ \A a \in DOMAIN pc : pc'[a] \in Nat \ {0}
    BY <1>6, <1>b DEF Host
  <2> QED
    BY <2>1, <2>2, <2>3, MoveInv
<1>7. CASE UNCHANGED vars
  BY <1>7, SameDesign DEF vars, DataflowInv, TypeOK, NoOverrun
<1> QED
  BY <1>1, <1>2, <1>3, <1>4, <1>5, <1>6, <1>7 DEF Next

-----------------------------------------------------------------------------
\* What the tables of a plan say.
LEMMA Counting ==
    ASSUME NEW table, NEW gain, NEW n \in Nat, NEW fifos, NEW f \in fifos,
           IsCount(table, gain, n, fifos)
    PROVE  /\ \A i \in 1..(n + 1) : table[i][f] \in Nat
           /\ table[1][f] = 0
           /\ \A i \in 1..n : table[i + 1][f] = table[i][f] + gain[i][f]
           /\ \A i, j \in 1..(n + 1) : i <= j => table[i][f] <= table[j][f]
BY DEF IsCount

LEMMA SeqIs ==
    ASSUME NEW s, NEW S, s \in Seq(S)
    PROVE  Len(s) \in Nat /\ DOMAIN s = 1..Len(s)
BY LenProperties

\* One step of a program, in the tables.
LEMMA ProgramIs ==
    ASSUME NEW d, NEW p, IsPlan(d, p), NEW w \in DOMAIN d.prog
    PROVE  /\ Len(d.prog[w]) \in Nat
           /\ DOMAIN d.prog[w] = 1..Len(d.prog[w])
           /\ p.moves[<<"kernel", w>>] = Len(d.prog[w])
BY DEF IsPlan, Tables, MovesKnown, IsList

LEMMA TakenIs ==
    ASSUME NEW d, NEW p, IsPlan(d, p), NEW w \in DOMAIN d.prog, NEW f \in DOMAIN d.depth
    PROVE  /\ \A i \in 1..(Len(d.prog[w]) + 1) : p.taken[w][i][f] \in Nat
           /\ p.taken[w][1][f] = 0
           /\ \A i \in 1..Len(d.prog[w]) :
                p.taken[w][i + 1][f] =
                    p.taken[w][i][f] + (IF f \in d.prog[w][i].free THEN 1 ELSE 0)
           /\ \A i, j \in 1..(Len(d.prog[w]) + 1) :
                i <= j => p.taken[w][i][f] <= p.taken[w][j][f]
<1> DEFINE gain == [i \in DOMAIN d.prog[w] |-> Ones(d.prog[w][i].free, DOMAIN d.depth)]
<1>1. IsCount(p.taken[w], gain, Len(d.prog[w]), DOMAIN d.depth)
  BY DEF IsPlan, Tables
<1>2. Len(d.prog[w]) \in Nat /\ DOMAIN d.prog[w] = 1..Len(d.prog[w])
  BY ProgramIs
<1>3. \A i \in 1..Len(d.prog[w]) : gain[i][f] = IF f \in d.prog[w][i].free THEN 1 ELSE 0
  BY <1>2 DEF Ones
<1> HIDE DEF gain
<1>4. /\ \A i \in 1..(Len(d.prog[w]) + 1) : p.taken[w][i][f] \in Nat
      /\ p.taken[w][1][f] = 0
      /\ \A i \in 1..Len(d.prog[w]) : p.taken[w][i + 1][f] = p.taken[w][i][f] + gain[i][f]
      /\ \A i, j \in 1..(Len(d.prog[w]) + 1) :
            i <= j => p.taken[w][i][f] <= p.taken[w][j][f]
  BY <1>1, <1>2, Counting
<1> QED
  BY <1>3, <1>4

LEMMA MadeIs ==
    ASSUME NEW d, NEW p, IsPlan(d, p), NEW w \in DOMAIN d.prog, NEW f \in DOMAIN d.depth
    PROVE  /\ \A i \in 1..(Len(d.prog[w]) + 1) : p.made[w][i][f] \in Nat
           /\ p.made[w][1][f] = 0
           /\ \A i \in 1..Len(d.prog[w]) :
                p.made[w][i + 1][f] =
                    p.made[w][i][f] + (IF f \in Names(d.prog[w][i].out) THEN 1 ELSE 0)
           /\ \A i, j \in 1..(Len(d.prog[w]) + 1) :
                i <= j => p.made[w][i][f] <= p.made[w][j][f]
<1> DEFINE gain == [i \in DOMAIN d.prog[w] |-> Ones(Names(d.prog[w][i].out), DOMAIN d.depth)]
<1>1. IsCount(p.made[w], gain, Len(d.prog[w]), DOMAIN d.depth)
  BY DEF IsPlan, Tables
<1>2. Len(d.prog[w]) \in Nat /\ DOMAIN d.prog[w] = 1..Len(d.prog[w])
  BY ProgramIs
<1>3. \A i \in 1..Len(d.prog[w]) :
        gain[i][f] = IF f \in Names(d.prog[w][i].out) THEN 1 ELSE 0
  BY <1>2 DEF Ones
<1> HIDE DEF gain
<1>4. /\ \A i \in 1..(Len(d.prog[w]) + 1) : p.made[w][i][f] \in Nat
      /\ p.made[w][1][f] = 0
      /\ \A i \in 1..Len(d.prog[w]) : p.made[w][i + 1][f] = p.made[w][i][f] + gain[i][f]
      /\ \A i, j \in 1..(Len(d.prog[w]) + 1) :
            i <= j => p.made[w][i][f] <= p.made[w][j][f]
  BY <1>1, <1>2, Counting
<1> QED
  BY <1>3, <1>4

LEMMA HostSeqIs ==
    ASSUME NEW d, NEW p, IsPlan(d, p)
    PROVE  /\ Len(d.host) \in Nat
           /\ DOMAIN d.host = 1..Len(d.host)
           /\ p.moves[<<"host", "host">>] = Len(d.host)
BY DEF IsPlan, Tables, MovesKnown, IsList

LEMMA ToldIs ==
    ASSUME NEW d, NEW p, IsPlan(d, p), NEW f \in DOMAIN d.depth
    PROVE  /\ \A i \in 1..(Len(d.host) + 1) : p.told[i][f] \in Nat
           /\ p.told[1][f] = 0
           /\ \A i \in 1..Len(d.host) :
                p.told[i + 1][f] = p.told[i][f] + Tells(d.host[i], f)
           /\ \A i, j \in 1..(Len(d.host) + 1) : i <= j => p.told[i][f] <= p.told[j][f]
           /\ Len(p.places[f]) = p.told[Len(d.host) + 1][f]
           /\ Len(p.places[f]) \in Nat
<1> DEFINE gain == [i \in DOMAIN d.host |-> [g \in DOMAIN d.depth |-> Tells(d.host[i], g)]]
<1>1. IsCount(p.told, gain, Len(d.host), DOMAIN d.depth)
      /\ Len(p.places[f]) = p.told[Len(d.host) + 1][f]
  BY DEF IsPlan, Tables
<1>2. Len(d.host) \in Nat /\ DOMAIN d.host = 1..Len(d.host)
  BY HostSeqIs
<1>3. \A i \in 1..Len(d.host) : gain[i][f] = Tells(d.host[i], f)
  BY <1>2
<1> HIDE DEF gain
<1>4. /\ \A i \in 1..(Len(d.host) + 1) : p.told[i][f] \in Nat
      /\ p.told[1][f] = 0
      /\ \A i \in 1..Len(d.host) : p.told[i + 1][f] = p.told[i][f] + gain[i][f]
      /\ \A i, j \in 1..(Len(d.host) + 1) : i <= j => p.told[i][f] <= p.told[j][f]
  BY <1>1, <1>2, Counting
<1>5. Len(p.places[f]) \in Nat
  BY <1>1, <1>2, <1>4
<1> QED
  BY <1>1, <1>3, <1>4, <1>5

LEMMA HistIs ==
    ASSUME NEW d, NEW p, IsPlan(d, p), NEW f \in DOMAIN d.depth
    PROVE  Len(p.hist[f]) \in Nat /\ DOMAIN p.hist[f] = 1..Len(p.hist[f])
BY DEF IsPlan, Histories, IsList

\* The events of a design are the moves of its actors.
LEMMA EventIs ==
    ASSUME NEW d, NEW p
    PROVE  /\ \A a \in ActorsOf(d) : \A n \in 1..p.moves[a] : <<a, n>> \in Events(d, p)
           /\ \A e \in Events(d, p) :
                e[1] \in ActorsOf(d) /\ e[2] \in 1..p.moves[e[1]] /\ e = <<e[1], e[2]>>
<1>1. \A a \in ActorsOf(d) : \A n \in 1..p.moves[a] : <<a, n>> \in {a} \X (1..p.moves[a])
  OBVIOUS
<1>2. \A a \in ActorsOf(d) : \A e \in {a} \X (1..p.moves[a]) :
        e[1] = a /\ e[2] \in 1..p.moves[a] /\ e = <<e[1], e[2]>>
  OBVIOUS
<1> QED
  BY <1>1, <1>2 DEF Events

LEMMA ActorIs ==
    ASSUME NEW d, NEW a \in ActorsOf(d)
    PROVE  \/ \E w \in DOMAIN d.prog : a = <<"kernel", w>>
           \/ \E c \in Children(d.split) : a = <<"split", c>>
           \/ \E c \in Children(d.join) : a = <<"join", c>>
           \/ \E f \in Filled(d) : a = <<"fill", f>>
           \/ \E f \in DrainedBy(d) : a = <<"drain", f>>
           \/ a = <<"host", "host">>
BY DEF ActorsOf

LEMMA CountIs ==
    /\ \A w : Count(<<"kernel", w>>) = pc[w] - 1
    /\ \A c : Count(<<"split", c>>) = Len(sent[c])
    /\ \A c : Count(<<"join", c>>) = got[c]["link"]
    /\ \A f : Count(<<"fill", f>>) = Len(sent[f])
    /\ \A f : Count(<<"drain", f>>) = got[f]["ddr"]
    /\ Count(<<"host", "host">>) = pc["host"] - 1
BY DEF Count

LEMMA CountIsNext ==
    /\ \A w : Count(<<"kernel", w>>)' = pc'[w] - 1
    /\ \A c : Count(<<"split", c>>)' = Len(sent'[c])
    /\ \A c : Count(<<"join", c>>)' = got'[c]["link"]
    /\ \A f : Count(<<"fill", f>>)' = Len(sent'[f])
    /\ \A f : Count(<<"drain", f>>)' = got'[f]["ddr"]
    /\ Count(<<"host", "host">>)' = pc'["host"] - 1
BY DEF Count

-----------------------------------------------------------------------------
\* A run on its plan.
On(p) == DataflowInv /\ IsPlan(D, p) /\ Follows(p)

LEMMA OnIs ==
    ASSUME NEW p, On(p)
    PROVE  /\ DataflowInv
           /\ design \in DOMAIN Designs
           /\ WellFormed(D)
           /\ IsPlan(D, p)
           /\ FollowsCalls(p) /\ FollowsLinks /\ FollowsHost(p)
           /\ Carries(p) /\ Ordered(p) /\ Remembers(p)
           /\ Fifos = DOMAIN D.depth
           /\ Workers = DOMAIN D.prog
           /\ \A f \in Fifos : Readers(f) = ReadersOf(D, f)
           /\ \A f \in Fifos : Len(sent[f]) \in Nat
           /\ \A f \in Fifos : Len(issued[f]) \in Nat
           /\ \A f \in Fifos : \A r \in Readers(f) :
                got[f][r] \in Nat /\ got[f][r] <= Len(sent[f])
<1>1. DataflowInv /\ design \in DOMAIN Designs
  BY DEF On, DataflowInv, TypeOK
<1>2. \A f \in Fifos : Len(sent[f]) \in Nat /\ Len(issued[f]) \in Nat
  BY <1>1, AppendIs DEF DataflowInv
<1>3. \A f \in Fifos : \A r \in Readers(f) : got[f][r] \in Nat /\ got[f][r] <= Len(sent[f])
  BY <1>1, Lengths
<1> QED
  BY <1>1, <1>2, <1>3, DesignIs, ReadersAre DEF On, Follows, Fifos, Workers

\* A kernel's place in its program, and what it has released and produced.
LEMMA CallIs ==
    ASSUME NEW p, On(p), NEW w \in Workers
    PROVE  /\ pc[w] \in 1..(Len(D.prog[w]) + 1)
           /\ pc[w] \in Nat
           /\ Len(D.prog[w]) \in Nat
           /\ DOMAIN D.prog[w] = 1..Len(D.prog[w])
<1>1. IsPlan(D, p) /\ w \in DOMAIN D.prog /\ pc[w] \in 1..(Len(D.prog[w]) + 1)
  BY OnIs DEF FollowsCalls
<1>2. Len(D.prog[w]) \in Nat /\ DOMAIN D.prog[w] = 1..Len(D.prog[w])
  BY <1>1, ProgramIs
<1> QED
  BY <1>1, <1>2

LEMMA MakingIs ==
    ASSUME NEW d, NEW p, NEW f, NEW n, NEW e \in Making(d, p, f, n)
    PROVE  \/ \E w \in DOMAIN d.prog : \E i \in DOMAIN d.prog[w] :
                /\ e = KernelEvent(w, i)
                /\ p.made[w][i][f] < n
                /\ n <= p.made[w][i + 1][f]
           \/ f \in Children(d.split) /\ e = SplitEvent(f, n)
           \/ f \in DOMAIN d.join /\ \E b \in Parts(d.join, f) : e = JoinEvent(b, n)
           \/ f \in Filled(d) /\ e = FillEvent(f, n)
<1> DEFINE kernels == UNION {{KernelEvent(w, i) : i \in {j \in DOMAIN d.prog[w] :
                p.made[w][j][f] < n /\ n <= p.made[w][j + 1][f]}} : w \in DOMAIN d.prog}
           splits == {SplitEvent(c, n) : c \in Children(d.split) \cap {f}}
           joins == {JoinEvent(c, n) :
                        c \in IF f \in DOMAIN d.join THEN Parts(d.join, f) ELSE {}}
           fills == {FillEvent(g, n) : g \in Filled(d) \cap {f}}
<1>1. e \in kernels \cup splits \cup joins \cup fills
  BY DEF Making
<1>2. e \in kernels => \E w \in DOMAIN d.prog : \E i \in DOMAIN d.prog[w] :
                          /\ e = KernelEvent(w, i)
                          /\ p.made[w][i][f] < n
                          /\ n <= p.made[w][i + 1][f]
  OBVIOUS
<1>3. e \in splits => f \in Children(d.split) /\ e = SplitEvent(f, n)
  OBVIOUS
<1>4. e \in joins => f \in DOMAIN d.join /\ \E b \in Parts(d.join, f) : e = JoinEvent(b, n)
  OBVIOUS
<1>5. e \in fills => f \in Filled(d) /\ e = FillEvent(f, n)
  OBVIOUS
<1> HIDE DEF kernels, splits, joins, fills
<1> QED
  BY <1>1, <1>2, <1>3, <1>4, <1>5

\* The events that brought an object that is in a FIFO have happened.
LEMMA MadeHappened ==
    ASSUME NEW p, On(p), NEW f \in Fifos, NEW n \in Nat, 1 <= n, n <= Len(sent[f]),
           NEW c \in Making(D, p, f, n)
    PROVE  Happened(c)
<1>1. CASE \E w \in DOMAIN D.prog : \E i \in DOMAIN D.prog[w] :
               /\ c = KernelEvent(w, i)
               /\ p.made[w][i][f] < n
               /\ n <= p.made[w][i + 1][f]
  <2>0. PICK w \in DOMAIN D.prog : \E i \in DOMAIN D.prog[w] :
            /\ c = KernelEvent(w, i)
            /\ p.made[w][i][f] < n
            /\ n <= p.made[w][i + 1][f]
    BY <1>1
  <2>1. PICK i \in DOMAIN D.prog[w] : /\ c = KernelEvent(w, i)
                                      /\ p.made[w][i][f] < n
                                      /\ n <= p.made[w][i + 1][f]
    BY <2>0
  <2>2. i \in 1..Len(D.prog[w]) /\ Len(D.prog[w]) \in Nat /\ w \in Workers
        /\ f \in DOMAIN D.depth
    BY <2>1, OnIs, ProgramIs
  <2>3. /\ \A k \in 1..(Len(D.prog[w]) + 1) : p.made[w][k][f] \in Nat
        /\ p.made[w][i + 1][f] =
               p.made[w][i][f] + (IF f \in Names(D.prog[w][i].out) THEN 1 ELSE 0)
        /\ \A k, j \in 1..(Len(D.prog[w]) + 1) :
                k <= j => p.made[w][k][f] <= p.made[w][j][f]
    BY <2>2, MadeIs, OnIs
  <2>4. p.made[w][i][f] \in Nat
    BY <2>2, <2>3
  <2>5. f \in Names(D.prog[w][i].out)
    BY <2>1, <2>3, <2>4
  <2>6. <<"kernel", w>> \in Producers(D, f)
    BY <2>1, <2>5 DEF Producers, Calls
  <2>7. Len(sent[f]) = p.made[w][pc[w]][f] /\ pc[w] \in 1..(Len(D.prog[w]) + 1)
    BY <2>2, <2>6, OnIs DEF FollowsCalls
  <2>8. ~(pc[w] <= i)
    <3> SUFFICES ASSUME pc[w] <= i PROVE FALSE
      OBVIOUS
    <3>1. p.made[w][pc[w]][f] <= p.made[w][i][f] /\ p.made[w][pc[w]][f] \in Nat
      BY <2>2, <2>3, <2>7
    <3> QED
      BY <2>1, <2>4, <2>7, <3>1
  <2> QED
    BY <2>1, <2>2, <2>7, <2>8, CountIs DEF Happened, KernelEvent
<1>2. CASE c = SplitEvent(f, n) \/ c = FillEvent(f, n)
  BY <1>2, CountIs DEF Happened, SplitEvent, FillEvent
<1>3. CASE f \in DOMAIN D.join /\ \E b \in Parts(D.join, f) : c = JoinEvent(b, n)
  <2>1. PICK b \in Parts(D.join, f) : c = JoinEvent(b, n)
    BY <1>3
  <2>2. Len(sent[f]) <= got[b]["link"]
    BY <1>3, <2>1, OnIs DEF DataflowInv
  <2>3. b \in Fifos /\ "link" \in Readers(b)
    BY <1>3, <2>1, OnIs DEF WellFormed, Children, ReadersOf
  <2>4. got[b]["link"] \in Nat /\ Len(sent[f]) \in Nat
    BY <2>3, OnIs
  <2> QED
    BY <2>1, <2>2, <2>4, CountIs DEF Happened, JoinEvent
<1> QED
  BY <1>1, <1>2, <1>3, MakingIs

\* The events that released an object that a reader has released have happened.
LEMMA ReleasedHappened ==
    ASSUME NEW p, On(p), NEW f \in Fifos, NEW r \in Readers(f),
           NEW n \in Nat, 1 <= n, n <= got[f][r],
           NEW c \in Releasing(D, p, f, r, n)
    PROVE  Happened(c)
<1>1. CASE r \in DOMAIN D.prog
  <2>1. PICK i \in DOMAIN D.prog[r] : /\ c = KernelEvent(r, i)
                                      /\ p.taken[r][i][f] < n
                                      /\ n <= p.taken[r][i + 1][f]
    BY <1>1 DEF Releasing
  <2>2. i \in 1..Len(D.prog[r]) /\ Len(D.prog[r]) \in Nat /\ r \in Workers
        /\ f \in DOMAIN D.depth
    BY <1>1, <2>1, OnIs, ProgramIs
  <2>3. /\ \A k \in 1..(Len(D.prog[r]) + 1) : p.taken[r][k][f] \in Nat
        /\ \A k, j \in 1..(Len(D.prog[r]) + 1) :
                k <= j => p.taken[r][k][f] <= p.taken[r][j][f]
    BY <2>2, TakenIs, OnIs
  <2>4. p.taken[r][i][f] \in Nat
    BY <2>2, <2>3
  <2>7. got[f][r] = p.taken[r][pc[r]][f] /\ pc[r] \in 1..(Len(D.prog[r]) + 1)
    BY <2>2, OnIs DEF FollowsCalls
  <2>8. ~(pc[r] <= i)
    <3> SUFFICES ASSUME pc[r] <= i PROVE FALSE
      OBVIOUS
    <3>1. p.taken[r][pc[r]][f] <= p.taken[r][i][f] /\ p.taken[r][pc[r]][f] \in Nat
      BY <2>2, <2>3, <2>7
    <3> QED
      BY <2>1, <2>4, <2>7, <3>1
  <2> QED
    BY <2>1, <2>2, <2>7, <2>8, CountIs DEF Happened, KernelEvent
<1>2. CASE r \notin DOMAIN D.prog /\ r = "link"
  BY <1>2, CountIs DEF Releasing, Happened, JoinEvent
<1>3. CASE r \notin DOMAIN D.prog /\ r = "ddr"
  BY <1>3, CountIs DEF Releasing, Happened, DrainEvent
<1>4. CASE r \notin DOMAIN D.prog /\ r # "link" /\ r # "ddr"
  <2>1. c = SplitEvent(r, n)
    BY <1>4 DEF Releasing
  <2>2. f \in DOMAIN D.split /\ r \in Parts(D.split, f)
    BY <1>4, OnIs DEF ReadersOf
  <2>3. r \in Children(D.split) /\ ParentOf(D.split, r) = f
    BY <2>2, OnIs DEF Children, IsPlan, Histories
  <2>4. Len(sent[r]) = got[f][r]
    BY <2>3, OnIs DEF FollowsLinks
  <2> QED
    BY <2>1, <2>4, CountIs DEF Happened, SplitEvent
<1> QED
  BY <1>1, <1>2, <1>3, <1>4

\* The operations that issued what a DMA was told have happened.
LEMMA ToldHappened ==
    ASSUME NEW p, On(p), NEW f \in Fifos, NEW n \in Nat, n <= Len(issued[f]),
           NEW c \in Telling(D, p, f, n)
    PROVE  Happened(c)
<1>1. PICK i \in DOMAIN D.host : /\ c = HostEvent(i)
                                 /\ p.told[i][f] < n
                                 /\ n <= p.told[i + 1][f]
  BY DEF Telling
<1>2. i \in 1..Len(D.host) /\ Len(D.host) \in Nat /\ f \in DOMAIN D.depth
  BY <1>1, OnIs, HostSeqIs
<1>3. /\ \A k \in 1..(Len(D.host) + 1) : p.told[k][f] \in Nat
      /\ \A k, j \in 1..(Len(D.host) + 1) : k <= j => p.told[k][f] <= p.told[j][f]
  BY <1>2, ToldIs, OnIs
<1>4. Len(issued[f]) = p.told[pc["host"]][f] /\ pc["host"] \in 1..(Len(D.host) + 1)
  BY OnIs DEF FollowsHost
<1>5. ~(pc["host"] <= i)
  <2> SUFFICES ASSUME pc["host"] <= i PROVE FALSE
    OBVIOUS
  <2>1. /\ p.told[pc["host"]][f] <= p.told[i][f]
        /\ p.told[pc["host"]][f] \in Nat
        /\ p.told[i][f] \in Nat
    BY <1>2, <1>3, <1>4
  <2> QED
    BY <1>1, <1>4, <2>1
<1> QED
  BY <1>1, <1>2, <1>4, <1>5, CountIs DEF Happened, HostEvent

LEMMA FreedHappened ==
    ASSUME NEW p, On(p), NEW f \in Fifos, NEW n \in Nat, RoomFor(f, n),
           NEW c \in Freeing(D, p, f, n)
    PROVE  Happened(c)
<1>1. PICK r \in Readers(f) : n > D.depth[f] /\ c \in Releasing(D, p, f, r, n - D.depth[f])
  BY OnIs DEF Freeing
<1>2. n <= got[f][r] + D.depth[f]
  BY DEF RoomFor
<1>3. D.depth[f] \in Nat /\ got[f][r] \in Nat
  BY OnIs, Lengths
<1>4. PICK m : m = n - D.depth[f]
  OBVIOUS
<1>5. m \in Nat /\ 1 <= m /\ m <= got[f][r]
  BY <1>1, <1>2, <1>3, <1>4
<1> QED
  BY <1>1, <1>4, <1>5, ReleasedHappened

-----------------------------------------------------------------------------
\* An event that can happen: everything it needs has happened.
Ready(p, e) == e \in Events(D, p) /\ \A c \in Needs(D, p, e) : Happened(c)

\* A step makes one event happen.
Advances(p, a) ==
    /\ a \in ActorsOf(D)
    /\ Count(a) \in Nat
    /\ Ready(p, <<a, Count(a) + 1>>)
    /\ Count(a)' = Count(a) + 1
    /\ \A b \in ActorsOf(D) : b # a => Count(b)' = Count(b)
    /\ UNCHANGED design

\* The actors that a move leaves alone have made no move.
LEMMA OthersStay ==
    ASSUME DataflowInv, NEW into, NEW from, NEW r, NEW Tags,
           Moved(into, from, r), Allowed(into, from, r),
           \A f \in into : \E t \in Producers(D, f) : t \in Tags,
           NEW b \in ActorsOf(D),
           b[1] \in {"split", "fill"} => b \notin Tags,
           b[1] = "join" => r # "link" \/ b[2] \notin from,
           b[1] = "drain" => r # "ddr" \/ b[2] \notin from,
           b[1] = "kernel" => pc'[b[2]] = pc[b[2]],
           b[1] = "host" => pc'["host"] = pc["host"]
    PROVE  Count(b)' = Count(b)
<1>0. WellFormed(D) /\ \A f \in Fifos : Readers(f) = ReadersOf(D, f)
  BY DesignIs, ReadersAre DEF DataflowInv, TypeOK
<1>1. ASSUME NEW w \in DOMAIN D.prog, b = <<"kernel", w>>
      PROVE  Count(b)' = Count(b)
  BY <1>1, CountIs, CountIsNext
<1>2. ASSUME NEW c \in Children(D.split), b = <<"split", c>>
      PROVE  Count(b)' = Count(b)
  <2>1. c \in Fifos /\ b \in Producers(D, c) /\ b \notin Tags
    BY <1>0, <1>2 DEF WellFormed, Fifos, Producers
  <2>2. c \notin into
    BY <1>0, <2>1 DEF WellFormed, Fifos
  <2> QED
    BY <1>2, <2>1, <2>2, CountIs, CountIsNext DEF Moved
<1>3. ASSUME NEW c \in Children(D.join), b = <<"join", c>>
      PROVE  Count(b)' = Count(b)
  <2>1. c \in Fifos /\ "link" \in Readers(c) /\ (r # "link" \/ c \notin from)
    BY <1>0, <1>3 DEF WellFormed, Fifos, ReadersOf
  <2>2. got'[c]["link"] = got[c]["link"]
    BY <2>1, MoveKeeps DEF Effect
  <2> QED
    BY <1>3, <2>2, CountIs, CountIsNext
<1>4. ASSUME NEW f \in Filled(D), b = <<"fill", f>>
      PROVE  Count(b)' = Count(b)
  <2>1. f \in Fifos /\ b \in Producers(D, f) /\ b \notin Tags
    BY <1>0, <1>4 DEF WellFormed, Fifos, Producers
  <2>2. f \notin into
    BY <1>0, <2>1 DEF WellFormed, Fifos
  <2> QED
    BY <1>4, <2>1, <2>2, CountIs, CountIsNext DEF Moved
<1>5. ASSUME NEW f \in DrainedBy(D), b = <<"drain", f>>
      PROVE  Count(b)' = Count(b)
  <2>1. f \in Fifos /\ "ddr" \in Readers(f) /\ (r # "ddr" \/ f \notin from)
    BY <1>0, <1>5 DEF WellFormed, Fifos, ReadersOf
  <2>2. got'[f]["ddr"] = got[f]["ddr"]
    BY <2>1, MoveKeeps DEF Effect
  <2> QED
    BY <1>5, <2>2, CountIs, CountIsNext
<1>6. ASSUME b = <<"host", "host">>
      PROVE  Count(b)' = Count(b)
  BY <1>6, CountIs, CountIsNext
<1> QED
  BY <1>1, <1>2, <1>3, <1>4, <1>5, <1>6, ActorIs

LEMMA NeedsAre ==
    ASSUME NEW d, NEW p, NEW n
    PROVE  /\ \A w : Needs(d, p, KernelEvent(w, n)) =
                (IF n > 1 THEN {KernelEvent(w, n - 1)} ELSE {}) \cup KernelNeeds(d, p, w, n)
           /\ \A c : Needs(d, p, SplitEvent(c, n)) =
                (IF n > 1 THEN {SplitEvent(c, n - 1)} ELSE {}) \cup SplitNeeds(d, p, c, n)
           /\ \A c : Needs(d, p, JoinEvent(c, n)) =
                (IF n > 1 THEN {JoinEvent(c, n - 1)} ELSE {}) \cup JoinNeeds(d, p, c, n)
           /\ \A f : Needs(d, p, FillEvent(f, n)) =
                (IF n > 1 THEN {FillEvent(f, n - 1)} ELSE {}) \cup FillNeeds(d, p, f, n)
           /\ \A f : Needs(d, p, DrainEvent(f, n)) =
                (IF n > 1 THEN {DrainEvent(f, n - 1)} ELSE {}) \cup DrainNeeds(d, p, f, n)
           /\ Needs(d, p, HostEvent(n)) =
                (IF n > 1 THEN {HostEvent(n - 1)} ELSE {}) \cup HostNeeds(d, p, n)
<1>1. \A w : Needs(d, p, KernelEvent(w, n)) =
                (IF n > 1 THEN {KernelEvent(w, n - 1)} ELSE {}) \cup KernelNeeds(d, p, w, n)
  BY DEF Needs, KernelEvent
<1>2. \A c : Needs(d, p, SplitEvent(c, n)) =
                (IF n > 1 THEN {SplitEvent(c, n - 1)} ELSE {}) \cup SplitNeeds(d, p, c, n)
  BY DEF Needs, SplitEvent
<1>3. \A c : Needs(d, p, JoinEvent(c, n)) =
                (IF n > 1 THEN {JoinEvent(c, n - 1)} ELSE {}) \cup JoinNeeds(d, p, c, n)
  BY DEF Needs, JoinEvent
<1>4. \A f : Needs(d, p, FillEvent(f, n)) =
                (IF n > 1 THEN {FillEvent(f, n - 1)} ELSE {}) \cup FillNeeds(d, p, f, n)
  BY DEF Needs, FillEvent
<1>5. \A f : Needs(d, p, DrainEvent(f, n)) =
                (IF n > 1 THEN {DrainEvent(f, n - 1)} ELSE {}) \cup DrainNeeds(d, p, f, n)
  BY DEF Needs, DrainEvent
<1>6. Needs(d, p, HostEvent(n)) =
                (IF n > 1 THEN {HostEvent(n - 1)} ELSE {}) \cup HostNeeds(d, p, n)
  BY DEF Needs, HostEvent
<1> QED
  BY <1>1, <1>2, <1>3, <1>4, <1>5, <1>6

LEMMA IssuedBound ==
    ASSUME NEW p, On(p), NEW f \in Fifos
    PROVE  Len(issued[f]) <= Len(p.places[f]) /\ Len(p.places[f]) \in Nat
<1>1. f \in DOMAIN D.depth /\ pc["host"] \in 1..(Len(D.host) + 1) /\ Len(D.host) \in Nat
  BY OnIs, HostSeqIs DEF FollowsHost
<1>2. /\ \A i, j \in 1..(Len(D.host) + 1) : i <= j => p.told[i][f] <= p.told[j][f]
      /\ Len(p.places[f]) = p.told[Len(D.host) + 1][f]
      /\ Len(p.places[f]) \in Nat
  BY <1>1, ToldIs, OnIs
<1>3. p.told[pc["host"]][f] <= p.told[Len(D.host) + 1][f]
  BY <1>1, <1>2
<1> QED
  BY <1>2, <1>3, OnIs DEF FollowsHost

\* The host is the only reader of its name.
LEMMA ReaderKinds ==
    ASSUME NEW p, On(p), NEW f \in Fifos
    PROVE  /\ "ddr" \in Readers(f) => f \in DrainedBy(D)
           /\ "link" \in Readers(f) => f \in Children(D.join)
<1>1. "ddr" \notin DOMAIN D.prog /\ "link" \notin DOMAIN D.prog
  BY OnIs DEF WellFormed
<1>2. f \in DOMAIN D.split => "ddr" \notin Parts(D.split, f) /\ "link" \notin Parts(D.split, f)
  BY OnIs DEF WellFormed, Children
<1> QED
  BY <1>1, <1>2, OnIs DEF ReadersOf

-----------------------------------------------------------------------------
\* What an actor needs for its next move has happened when its guard holds.
LEMMA KernelReady ==
    ASSUME NEW p, On(p), NEW w \in Workers, CanRun(w)
    PROVE  Ready(p, KernelEvent(w, pc[w]))
<1> DEFINE n == pc[w]
<1>0. /\ n \in 1..(Len(D.prog[w]) + 1) /\ n \in Nat /\ Len(D.prog[w]) \in Nat
      /\ n \in 1..Len(D.prog[w]) /\ w \in DOMAIN D.prog
  BY CallIs, OnIs DEF CanRun
<1>a. PICK call : call = D.prog[w][n]
  OBVIOUS
<1>b. call = NextCall(w) /\ call \in Calls(D, w)
  BY <1>0, <1>a, OnIs, CallIs DEF NextCall, Calls
<1>c. Names(call.in) \subseteq Fifos /\ call.room \subseteq Fifos
  BY <1>0, <1>b, OnIs DEF WellFormed
<1>1. KernelEvent(w, n) \in Events(D, p)
  <2>1. <<"kernel", w>> \in ActorsOf(D)
    BY <1>0 DEF ActorsOf
  <2>2. p.moves[<<"kernel", w>>] = Len(D.prog[w])
    BY <1>0, OnIs, ProgramIs
  <2> QED
    BY <1>0, <2>1, <2>2, EventIs DEF KernelEvent
<1>2. Happened(KernelEvent(w, n - 1))
  BY <1>0, CountIs DEF Happened, KernelEvent
<1>3. ASSUME NEW f \in Names(call.in), NEW c \in Making(D, p, f, p.taken[w][n][f] + 1)
      PROVE  Happened(c)
  <2>1. f \in Fifos /\ w \in Readers(f)
    BY <1>0, <1>b, <1>c, <1>3, OnIs DEF ReadersOf
  <2>2. HasObject(f, w)
    BY <1>b, <1>3 DEF CanRun
  <2>3. got[f][w] = p.taken[w][n][f] /\ got[f][w] \in Nat
    BY <2>1, OnIs DEF FollowsCalls
  <2>4. PICK m : m = p.taken[w][n][f] + 1
    OBVIOUS
  <2>5. m \in Nat /\ 1 <= m /\ m <= Len(sent[f])
    BY <2>1, <2>2, <2>3, <2>4, OnIs DEF HasObject
  <2> QED
    BY <1>3, <2>1, <2>4, <2>5, MadeHappened
<1>4. ASSUME NEW f \in call.room, NEW c \in Freeing(D, p, f, p.made[w][n][f] + 1)
      PROVE  Happened(c)
  <2>1. f \in Fifos /\ HasRoom(f)
    BY <1>b, <1>c, <1>4 DEF CanRun
  <2>2. PICK other \in Calls(D, w) : f \in Names(other.out)
    BY <1>0, <1>b, <1>4, OnIs DEF WellFormed
  <2>3. <<"kernel", w>> \in Producers(D, f)
    BY <1>0, <2>2 DEF Producers
  <2>4. Len(sent[f]) = p.made[w][n][f] /\ Len(sent[f]) \in Nat
    BY <2>1, <2>3, OnIs DEF FollowsCalls
  <2>5. PICK m : m = p.made[w][n][f] + 1
    OBVIOUS
  <2>6. m \in Nat /\ RoomFor(f, m)
    BY <2>1, <2>4, <2>5 DEF HasRoom
  <2> QED
    BY <1>4, <2>1, <2>5, <2>6, FreedHappened
<1>5. \A c \in KernelNeeds(D, p, w, n) : Happened(c)
  BY <1>a, <1>3, <1>4 DEF KernelNeeds
<1>6. \A c \in Needs(D, p, KernelEvent(w, n)) : Happened(c)
  <2>1. Needs(D, p, KernelEvent(w, n)) =
            (IF n > 1 THEN {KernelEvent(w, n - 1)} ELSE {}) \cup KernelNeeds(D, p, w, n)
    BY NeedsAre
  <2> QED
    BY <1>2, <1>5, <2>1
<1> QED
  BY <1>1, <1>6 DEF Ready

LEMMA SplitReady ==
    ASSUME NEW p, On(p), NEW child \in Children(D.split), CanSplit(child)
    PROVE  Ready(p, SplitEvent(child, Len(sent[child]) + 1))
<1> DEFINE n == Len(sent[child]) + 1
<1>0. PICK parent : parent = ParentOf(D.split, child)
  OBVIOUS
<1>1. /\ child \in Fifos /\ parent \in Fifos /\ child \in Readers(parent)
      /\ parent \in DOMAIN D.split
  BY <1>0, ChildIs, OnIs DEF WellFormed, ReadersOf
<1>2. /\ Len(sent[child]) \in Nat /\ Len(sent[parent]) \in Nat
      /\ Len(sent[child]) = got[parent][child]
      /\ got[parent][child] < Len(sent[parent])
      /\ HasRoom(child)
  BY <1>0, <1>1, OnIs DEF FollowsLinks, CanSplit, HasObject
<1>3. SplitEvent(child, n) \in Events(D, p)
  <2>1. <<"split", child>> \in ActorsOf(D)
    BY DEF ActorsOf
  <2>2. p.moves[<<"split", child>>] = Len(p.hist[child])
        /\ Len(p.hist[child]) = Len(p.hist[parent])
    BY <1>0, OnIs DEF IsPlan, MovesKnown, Histories
  <2>3. Len(sent[parent]) <= Len(p.hist[parent]) /\ Len(p.hist[parent]) \in Nat
    BY <1>1, OnIs, HistIs DEF Carries
  <2>4. n \in 1..p.moves[<<"split", child>>]
    BY <1>2, <2>2, <2>3
  <2> QED
    BY <2>1, <2>4, EventIs DEF SplitEvent
<1>4. Happened(SplitEvent(child, n - 1))
  BY <1>2, CountIs DEF Happened, SplitEvent
<1>5. PICK m : m = n
  OBVIOUS
<1>6. m \in Nat /\ 1 <= m /\ m <= Len(sent[parent]) /\ RoomFor(child, m)
  BY <1>2, <1>5 DEF HasRoom
<1>7. \A c \in Making(D, p, parent, m) : Happened(c)
  BY <1>1, <1>6, MadeHappened
<1>8. \A c \in Freeing(D, p, child, m) : Happened(c)
  BY <1>1, <1>6, FreedHappened
<1>9. \A c \in Needs(D, p, SplitEvent(child, m)) : Happened(c)
  <2>1. Needs(D, p, SplitEvent(child, m)) =
            (IF m > 1 THEN {SplitEvent(child, m - 1)} ELSE {}) \cup SplitNeeds(D, p, child, m)
    BY NeedsAre
  <2>2. Happened(SplitEvent(child, m - 1))
    BY <1>4, <1>5
  <2>3. \A c \in SplitNeeds(D, p, child, m) : Happened(c)
    BY <1>0, <1>7, <1>8 DEF SplitNeeds
  <2> QED
    BY <2>1, <2>2, <2>3
<1> QED
  BY <1>3, <1>5, <1>9 DEF Ready

LEMMA JoinReady ==
    ASSUME NEW p, On(p), NEW child \in Children(D.join), CanJoin(child)
    PROVE  Ready(p, JoinEvent(child, got[child]["link"] + 1))
<1> DEFINE n == got[child]["link"] + 1
<1>0. PICK parent : parent = ParentOf(D.join, child)
  OBVIOUS
<1>1. /\ child \in Fifos /\ parent \in Fifos /\ "link" \in Readers(child)
      /\ parent \in DOMAIN D.join
  BY <1>0, ChildIs, OnIs DEF WellFormed, ReadersOf
<1>2. /\ Len(sent[child]) \in Nat /\ got[child]["link"] \in Nat
      /\ got[child]["link"] < Len(sent[child])
  BY <1>1, OnIs DEF CanJoin, HasObject
<1>3. JoinEvent(child, n) \in Events(D, p)
  <2>1. <<"join", child>> \in ActorsOf(D)
    BY DEF ActorsOf
  <2>2. p.moves[<<"join", child>>] = Len(p.hist[child])
    BY OnIs DEF IsPlan, MovesKnown
  <2>3. Len(sent[child]) <= Len(p.hist[child]) /\ Len(p.hist[child]) \in Nat
    BY <1>1, OnIs, HistIs DEF Carries
  <2>4. n \in 1..p.moves[<<"join", child>>]
    BY <1>2, <2>2, <2>3
  <2> QED
    BY <2>1, <2>4, EventIs DEF JoinEvent
<1>4. Happened(JoinEvent(child, n - 1))
  BY <1>2, CountIs DEF Happened, JoinEvent
<1>5. PICK m : m = n
  OBVIOUS
<1>6. m \in Nat /\ 1 <= m /\ m <= Len(sent[child]) /\ RoomFor(parent, m)
  BY <1>0, <1>2, <1>5 DEF CanJoin
<1>7. \A c \in Making(D, p, child, m) : Happened(c)
  BY <1>1, <1>6, MadeHappened
<1>8. \A c \in Freeing(D, p, parent, m) : Happened(c)
  BY <1>1, <1>6, FreedHappened
<1>9. \A c \in Needs(D, p, JoinEvent(child, m)) : Happened(c)
  <2>1. Needs(D, p, JoinEvent(child, m)) =
            (IF m > 1 THEN {JoinEvent(child, m - 1)} ELSE {}) \cup JoinNeeds(D, p, child, m)
    BY NeedsAre
  <2>2. Happened(JoinEvent(child, m - 1))
    BY <1>4, <1>5
  <2>3. \A c \in JoinNeeds(D, p, child, m) : Happened(c)
    BY <1>0, <1>7, <1>8 DEF JoinNeeds
  <2> QED
    BY <2>1, <2>2, <2>3
<1> QED
  BY <1>3, <1>5, <1>9 DEF Ready

LEMMA FillReady ==
    ASSUME NEW p, On(p), NEW f \in Fifos, CanFill(f)
    PROVE  f \in Filled(D) /\ Ready(p, FillEvent(f, Len(sent[f]) + 1))
<1> DEFINE n == Len(sent[f]) + 1
<1>1. Len(sent[f]) \in Nat /\ Len(issued[f]) \in Nat /\ Len(sent[f]) < Len(issued[f])
  BY OnIs DEF CanFill
<1>2. issued[f] # <<>>
  BY <1>1, EmptySeq
<1>3. f \in Filled(D)
  BY <1>2, OnIs DEF DataflowInv, CanFill, ReadersOf
<1>4. FillEvent(f, n) \in Events(D, p)
  <2>1. <<"fill", f>> \in ActorsOf(D)
    BY <1>3 DEF ActorsOf
  <2>2. p.moves[<<"fill", f>>] = Len(p.hist[f]) /\ Len(p.hist[f]) = Len(p.places[f])
    BY <1>3, OnIs DEF IsPlan, MovesKnown
  <2>3. Len(issued[f]) <= Len(p.places[f]) /\ Len(p.places[f]) \in Nat
    BY IssuedBound
  <2>4. n \in 1..p.moves[<<"fill", f>>]
    BY <1>1, <2>2, <2>3
  <2> QED
    BY <2>1, <2>4, EventIs DEF FillEvent
<1>5. Happened(FillEvent(f, n - 1))
  BY <1>1, CountIs DEF Happened, FillEvent
<1>6. PICK m : m = n
  OBVIOUS
<1>7. m \in Nat /\ 1 <= m /\ m <= Len(issued[f]) /\ RoomFor(f, m)
  BY <1>1, <1>6 DEF CanFill, HasRoom
<1>8. \A c \in Telling(D, p, f, m) : Happened(c)
  BY <1>7, ToldHappened
<1>9. \A c \in Freeing(D, p, f, m) : Happened(c)
  BY <1>7, FreedHappened
<1>10. \A c \in Needs(D, p, FillEvent(f, m)) : Happened(c)
  <2>1. Needs(D, p, FillEvent(f, m)) =
            (IF m > 1 THEN {FillEvent(f, m - 1)} ELSE {}) \cup FillNeeds(D, p, f, m)
    BY NeedsAre
  <2>2. Happened(FillEvent(f, m - 1))
    BY <1>5, <1>6
  <2>3. \A c \in FillNeeds(D, p, f, m) : Happened(c)
    BY <1>8, <1>9 DEF FillNeeds
  <2> QED
    BY <2>1, <2>2, <2>3
<1> QED
  BY <1>3, <1>4, <1>6, <1>10 DEF Ready

LEMMA DrainReady ==
    ASSUME NEW p, On(p), NEW f \in Fifos, CanDrain(f)
    PROVE  f \in DrainedBy(D) /\ Ready(p, DrainEvent(f, got[f]["ddr"] + 1))
<1> DEFINE n == got[f]["ddr"] + 1
<1>1. /\ got[f]["ddr"] \in Nat /\ Len(sent[f]) \in Nat /\ Len(issued[f]) \in Nat
      /\ got[f]["ddr"] < Len(issued[f])
      /\ got[f]["ddr"] < Len(sent[f])
  BY OnIs DEF CanDrain, HasObject
<1>2. issued[f] # <<>>
  BY <1>1, EmptySeq
<1>3. f \in DrainedBy(D)
  BY OnIs, ReaderKinds DEF CanDrain
<1>4. DrainEvent(f, n) \in Events(D, p)
  <2>1. <<"drain", f>> \in ActorsOf(D)
    BY <1>3 DEF ActorsOf
  <2>2. p.moves[<<"drain", f>>] = Len(p.places[f])
    BY <1>3, OnIs DEF IsPlan, MovesKnown
  <2>3. Len(issued[f]) <= Len(p.places[f]) /\ Len(p.places[f]) \in Nat
    BY IssuedBound
  <2>4. n \in 1..p.moves[<<"drain", f>>]
    BY <1>1, <2>2, <2>3
  <2> QED
    BY <2>1, <2>4, EventIs DEF DrainEvent
<1>5. Happened(DrainEvent(f, n - 1))
  BY <1>1, CountIs DEF Happened, DrainEvent
<1>6. PICK m : m = n
  OBVIOUS
<1>7. m \in Nat /\ 1 <= m /\ m <= Len(issued[f]) /\ m <= Len(sent[f])
  BY <1>1, <1>6
<1>8. \A c \in Telling(D, p, f, m) : Happened(c)
  BY <1>7, ToldHappened
<1>9. \A c \in Making(D, p, f, m) : Happened(c)
  BY <1>7, MadeHappened
<1>10. \A c \in Needs(D, p, DrainEvent(f, m)) : Happened(c)
  <2>1. Needs(D, p, DrainEvent(f, m)) =
            (IF m > 1 THEN {DrainEvent(f, m - 1)} ELSE {}) \cup DrainNeeds(D, p, f, m)
    BY NeedsAre
  <2>2. Happened(DrainEvent(f, m - 1))
    BY <1>5, <1>6
  <2>3. \A c \in DrainNeeds(D, p, f, m) : Happened(c)
    BY <1>8, <1>9 DEF DrainNeeds
  <2> QED
    BY <2>1, <2>2, <2>3
<1> QED
  BY <1>3, <1>4, <1>6, <1>10 DEF Ready

LEMMA HostReady ==
    ASSUME NEW p, On(p), CanGoOn
    PROVE  Ready(p, HostEvent(pc["host"]))
<1> DEFINE n == pc["host"]
<1>1. n \in 1..Len(D.host) /\ n \in DOMAIN D.host /\ Len(D.host) \in Nat
  BY OnIs, HostSeqIs DEF CanGoOn
<1>2. HostEvent(n) \in Events(D, p)
  <2>1. <<"host", "host">> \in ActorsOf(D)
    BY DEF ActorsOf
  <2>2. p.moves[<<"host", "host">>] = Len(D.host)
    BY OnIs, HostSeqIs
  <2> QED
    BY <1>1, <2>1, <2>2, EventIs DEF HostEvent
<1>3. Happened(HostEvent(n - 1))
  BY <1>1, CountIs DEF Happened, HostEvent
<1>4. \A c \in HostNeeds(D, p, n) : Happened(c)
  <2> SUFFICES ASSUME NEW c \in HostNeeds(D, p, n)
               PROVE  Happened(c)
    OBVIOUS
  <2>1. PICK o : o = D.host[n]
    OBVIOUS
  <2>2. o.op = "await" /\ c = DrainEvent(o.fifo, p.told[n][o.fifo])
    BY <2>1 DEF HostNeeds
  <2>3. PICK f : f = o.fifo
    OBVIOUS
  <2>4. f \in DrainedBy(D) /\ f \in Fifos
    BY <1>1, <2>1, <2>2, <2>3, OnIs DEF WellFormed
  <2>5. got[f]["ddr"] = Len(issued[f])
    BY <2>1, <2>2, <2>3 DEF CanGoOn, Drained
  <2>6. Len(issued[f]) = p.told[n][f] /\ Len(issued[f]) \in Nat
    BY <2>4, OnIs DEF FollowsHost
  <2> QED
    BY <2>2, <2>3, <2>5, <2>6, CountIs DEF Happened, DrainEvent
<1> QED
  BY <1>2, <1>3, <1>4, NeedsAre DEF Ready

-----------------------------------------------------------------------------
\* Every step makes the next event of one actor happen, and that event was ready.
LEMMA KernelAdvances ==
    ASSUME NEW p, On(p), NEW w \in Workers, Kernel(w)
    PROVE  Advances(p, <<"kernel", w>>)
<1>1. /\ Moved(Names(NextCall(w).out), NextCall(w).free, w)
      /\ Allowed(Names(NextCall(w).out), NextCall(w).free, w)
      /\ \A f \in Names(NextCall(w).out) : <<"kernel", w>> \in Producers(D, f)
  BY OnIs, KernelIs
<1>2. Ready(p, KernelEvent(w, pc[w]))
  BY KernelReady DEF Kernel
<1>3. pc[w] \in 1..(Len(D.prog[w]) + 1) /\ pc[w] \in Nat /\ Len(D.prog[w]) \in Nat
      /\ w \in DOMAIN D.prog
  BY CallIs, OnIs
<1>4. pc'[w] = pc[w] + 1 /\ (\A b : b # w => pc'[b] = pc[b])
  BY <1>3, OnIs DEF Kernel, DataflowInv, TypeOK
<1>5. /\ w # "host" /\ w # "link" /\ w # "ddr"
  BY <1>3, OnIs DEF WellFormed
<1>6. <<"kernel", w>> \in ActorsOf(D)
  BY <1>3 DEF ActorsOf
<1>7. /\ Count(<<"kernel", w>>) = pc[w] - 1
      /\ Count(<<"kernel", w>>)' = pc'[w] - 1
  BY CountIs, CountIsNext
<1>8. /\ Count(<<"kernel", w>>) \in Nat
      /\ Count(<<"kernel", w>>) + 1 = pc[w]
      /\ Count(<<"kernel", w>>)' = Count(<<"kernel", w>>) + 1
  BY <1>3, <1>4, <1>7
<1>9. ASSUME NEW b \in ActorsOf(D), b # <<"kernel", w>>
      PROVE  Count(b)' = Count(b)
  <2>1. PICK Tags : Tags = {<<"kernel", w>>}
    OBVIOUS
  <2>2. \A f \in Names(NextCall(w).out) : \E t \in Producers(D, f) : t \in Tags
    BY <1>1, <2>1
  <2>3. b[1] \in {"split", "fill"} => b \notin Tags
    BY <2>1
  <2>4. b[1] = "kernel" => pc'[b[2]] = pc[b[2]]
    BY <1>4, <1>9, ActorIs
  <2> QED
    BY <1>1, <1>4, <1>5, <2>2, <2>3, <2>4, OnIs, OthersStay
<1> QED
  BY <1>1, <1>2, <1>6, <1>8, <1>9 DEF Advances, KernelEvent, Moved

LEMMA SplitAdvances ==
    ASSUME NEW p, On(p), NEW child \in Children(D.split), SplitMove(child)
    PROVE  Advances(p, <<"split", child>>)
<1> DEFINE parent == ParentOf(D.split, child)
<1>1. /\ Moved({child}, {parent}, child)
      /\ Allowed({child}, {parent}, child)
      /\ <<"split", child>> \in Producers(D, child)
  BY OnIs, SplitIs
<1>2. Ready(p, SplitEvent(child, Len(sent[child]) + 1))
  BY SplitReady DEF SplitMove
<1>3. child \in Fifos /\ Len(sent[child]) \in Nat
  BY OnIs DEF WellFormed
<1>4. Len(sent'[child]) = Len(sent[child]) + 1
  BY <1>1, <1>3, OnIs, MoveKeeps DEF Effect
<1>5. child # "link" /\ child # "ddr"
  BY OnIs DEF WellFormed
<1>6. <<"split", child>> \in ActorsOf(D)
  BY DEF ActorsOf
<1>7. ASSUME NEW b \in ActorsOf(D), b # <<"split", child>>
      PROVE  Count(b)' = Count(b)
  <2>1. PICK Tags : Tags = {<<"split", child>>}
    OBVIOUS
  <2>2. \A f \in {child} : \E t \in Producers(D, f) : t \in Tags
    BY <1>1, <2>1
  <2>3. pc' = pc
    BY DEF SplitMove
  <2> QED
    BY <1>1, <1>5, <1>7, <2>1, <2>2, <2>3, OnIs, OthersStay
<1> QED
  BY <1>1, <1>2, <1>3, <1>4, <1>6, <1>7, CountIs, CountIsNext
     DEF Advances, SplitEvent, Moved

LEMMA JoinAdvances ==
    ASSUME NEW p, On(p), NEW child \in Children(D.join), JoinMove(child)
    PROVE  Advances(p, <<"join", child>>)
<1>1. PICK into : /\ Moved(into, {child}, "link")
                  /\ Allowed(into, {child}, "link")
                  /\ \A f \in into : <<"join", f>> \in Producers(D, f)
  BY OnIs, JoinIs
<1>2. Ready(p, JoinEvent(child, got[child]["link"] + 1))
  BY JoinReady DEF JoinMove
<1>3. child \in Fifos /\ "link" \in Readers(child) /\ got[child]["link"] \in Nat
  BY OnIs DEF WellFormed, ReadersOf
<1>4. got'[child]["link"] = got[child]["link"] + 1
  BY <1>1, <1>3, OnIs, MoveKeeps DEF Effect
<1>6. <<"join", child>> \in ActorsOf(D)
  BY DEF ActorsOf
<1>7. ASSUME NEW b \in ActorsOf(D), b # <<"join", child>>
      PROVE  Count(b)' = Count(b)
  <2>1. PICK Tags : Tags = {<<"join", f>> : f \in into}
    OBVIOUS
  <2>2. \A f \in into : \E t \in Producers(D, f) : t \in Tags
    BY <1>1, <2>1
  <2>3. pc' = pc
    BY DEF JoinMove
  <2>4. PICK from, r : from = {child} /\ r = "link"
    OBVIOUS
  <2>5. b[1] = "join" => b[2] \notin from
    BY <1>7, <2>4, ActorIs
  <2>6. b[1] \in {"split", "fill"} => b \notin Tags
    BY <2>1
  <2>7. Moved(into, from, r) /\ Allowed(into, from, r) /\ r # "ddr"
    BY <1>1, <2>4
  <2> QED
    BY <2>2, <2>3, <2>5, <2>6, <2>7, OnIs, OthersStay
<1> QED
  BY <1>1, <1>2, <1>3, <1>4, <1>6, <1>7, CountIs, CountIsNext
     DEF Advances, JoinEvent, Moved

LEMMA FillAdvances ==
    ASSUME NEW p, On(p), NEW f \in Fifos, FillMove(f)
    PROVE  Advances(p, <<"fill", f>>)
<1>1. /\ Moved({f}, {}, "ddr")
      /\ Allowed({f}, {}, "ddr")
      /\ <<"fill", f>> \in Producers(D, f)
  BY OnIs, FillIs
<1>2. f \in Filled(D) /\ Ready(p, FillEvent(f, Len(sent[f]) + 1))
  BY FillReady DEF FillMove
<1>3. Len(sent[f]) \in Nat
  BY OnIs
<1>4. Len(sent'[f]) = Len(sent[f]) + 1
  BY <1>1, <1>3, OnIs, MoveKeeps DEF Effect
<1>6. <<"fill", f>> \in ActorsOf(D)
  BY <1>2 DEF ActorsOf
<1>7. ASSUME NEW b \in ActorsOf(D), b # <<"fill", f>>
      PROVE  Count(b)' = Count(b)
  <2>1. PICK Tags : Tags = {<<"fill", f>>}
    OBVIOUS
  <2>2. \A g \in {f} : \E t \in Producers(D, g) : t \in Tags
    BY <1>1, <2>1
  <2>3. pc' = pc
    BY DEF FillMove
  <2>4. PICK into, from, r : into = {f} /\ from = {} /\ r = "ddr"
    OBVIOUS
  <2>5. Moved(into, from, r) /\ Allowed(into, from, r) /\ b[2] \notin from
    BY <1>1, <2>4
  <2>6. \A g \in into : \E t \in Producers(D, g) : t \in Tags
    BY <2>2, <2>4
  <2>7. b \notin Tags
    BY <1>7, <2>1
  <2> QED
    BY <2>3, <2>5, <2>6, <2>7, OnIs, OthersStay
<1> QED
  BY <1>1, <1>2, <1>3, <1>4, <1>6, <1>7, CountIs, CountIsNext
     DEF Advances, FillEvent, Moved

LEMMA DrainAdvances ==
    ASSUME NEW p, On(p), NEW f \in Fifos, DrainMove(f)
    PROVE  Advances(p, <<"drain", f>>)
<1>1. Moved({}, {f}, "ddr") /\ Allowed({}, {f}, "ddr")
  BY OnIs, DrainIs
<1>2. f \in DrainedBy(D) /\ Ready(p, DrainEvent(f, got[f]["ddr"] + 1))
  BY DrainReady DEF DrainMove
<1>3. "ddr" \in Readers(f) /\ got[f]["ddr"] \in Nat
  BY OnIs DEF DrainMove, CanDrain
<1>4. got'[f]["ddr"] = got[f]["ddr"] + 1
  BY <1>1, <1>3, OnIs, MoveKeeps DEF Effect
<1>6. <<"drain", f>> \in ActorsOf(D)
  BY <1>2 DEF ActorsOf
<1>7. ASSUME NEW b \in ActorsOf(D), b # <<"drain", f>>
      PROVE  Count(b)' = Count(b)
  <2>1. PICK Tags : Tags = {}
    OBVIOUS
  <2>3. pc' = pc
    BY DEF DrainMove
  <2>4. PICK into, from, r : into = {} /\ from = {f} /\ r = "ddr"
    OBVIOUS
  <2>5. b[1] = "drain" => b[2] \notin from
    BY <1>7, <2>4, ActorIs
  <2>6. Moved(into, from, r) /\ Allowed(into, from, r) /\ r # "link"
    BY <1>1, <2>4
  <2>7. \A g \in into : \E t \in Producers(D, g) : t \in Tags
    BY <2>4
  <2>8. b \notin Tags
    BY <2>1
  <2>9. DataflowInv /\ pc'[b[2]] = pc[b[2]] /\ pc'["host"] = pc["host"]
    BY <2>3, OnIs
  <2> QED
    BY <2>5, <2>6, <2>7, <2>8, <2>9, OthersStay
<1> QED
  BY <1>1, <1>2, <1>3, <1>4, <1>6, <1>7, CountIs, CountIsNext
     DEF Advances, DrainEvent, Moved

LEMMA HostAdvances ==
    ASSUME NEW p, On(p), Host
    PROVE  Advances(p, <<"host", "host">>)
<1>1. Moved({}, {}, "ddr") /\ Allowed({}, {}, "ddr")
  BY OnIs, HostIs
<1>2. Ready(p, HostEvent(pc["host"]))
  BY HostReady DEF Host
<1>3. pc["host"] \in 1..(Len(D.host) + 1) /\ Len(D.host) \in Nat
  BY OnIs, HostSeqIs DEF FollowsHost
<1>4. pc'["host"] = pc["host"] + 1 /\ (\A b : b # "host" => pc'[b] = pc[b])
  BY OnIs DEF Host, DataflowInv, TypeOK
<1>6. <<"host", "host">> \in ActorsOf(D)
  BY DEF ActorsOf
<1>7. ASSUME NEW b \in ActorsOf(D), b # <<"host", "host">>
      PROVE  Count(b)' = Count(b)
  <2>1. PICK Tags : Tags = {}
    OBVIOUS
  <2>3. b[1] = "kernel" => pc'[b[2]] = pc[b[2]]
    BY <1>4, ActorIs, OnIs DEF WellFormed
  <2>5. b[1] # "host"
    BY <1>7, ActorIs
  <2>4. PICK into, from, r : into = {} /\ from = {} /\ r = "ddr"
    OBVIOUS
  <2>6. Moved(into, from, r) /\ Allowed(into, from, r) /\ b[2] \notin from
    BY <1>1, <2>4
  <2>7. \A g \in into : \E t \in Producers(D, g) : t \in Tags
    BY <2>4
  <2> QED
    BY <2>1, <2>3, <2>5, <2>6, <2>7, OnIs, OthersStay
<1>8. /\ Count(<<"host", "host">>) \in Nat
      /\ Count(<<"host", "host">>) + 1 = pc["host"]
      /\ Count(<<"host", "host">>)' = Count(<<"host", "host">>) + 1
  BY <1>3, <1>4, CountIs, CountIsNext
<1> QED
  BY <1>1, <1>2, <1>6, <1>7, <1>8 DEF Advances, HostEvent, Moved

-----------------------------------------------------------------------------
\* Clocks: what comes before an event has happened before it.
LEMMA CountNat ==
    ASSUME NEW p, On(p), NEW b \in ActorsOf(D)
    PROVE  Count(b) \in Nat
<1>1. ASSUME NEW w \in DOMAIN D.prog
      PROVE  pc[w] - 1 \in Nat
  <2>1. pc[w] \in 1..(Len(D.prog[w]) + 1) /\ Len(D.prog[w]) \in Nat
    BY OnIs, CallIs
  <2> QED
    BY <2>1
<1>2. \A c \in Children(D.split) : Len(sent[c]) \in Nat
  BY OnIs DEF WellFormed
<1>3. \A c \in Children(D.join) : got[c]["link"] \in Nat
  BY OnIs DEF WellFormed, ReadersOf
<1>4. \A f \in Filled(D) : Len(sent[f]) \in Nat
  BY OnIs DEF WellFormed
<1>5. \A f \in DrainedBy(D) : got[f]["ddr"] \in Nat
  BY OnIs DEF WellFormed, ReadersOf
<1>6. pc["host"] - 1 \in Nat
  <2>1. pc["host"] \in 1..(Len(D.host) + 1) /\ Len(D.host) \in Nat
    BY OnIs, HostSeqIs DEF FollowsHost
  <2> QED
    BY <2>1
<1> QED
  BY <1>1, <1>2, <1>3, <1>4, <1>5, <1>6, CountIs, ActorIs

LEMMA EventNat ==
    ASSUME NEW p, On(p), NEW e \in Events(D, p)
    PROVE  e[1] \in ActorsOf(D) /\ e[2] \in Nat /\ 1 <= e[2] /\ e = <<e[1], e[2]>>
<1>1. e[1] \in ActorsOf(D) /\ e[2] \in 1..p.moves[e[1]] /\ e = <<e[1], e[2]>>
  BY EventIs
<1>2. p.moves[e[1]] \in Nat
  BY <1>1, OnIs DEF IsPlan, MovesKnown
<1> QED
  BY <1>1, <1>2

LEMMA ClockIs ==
    ASSUME NEW p, On(p), NEW e \in Events(D, p), NEW b \in ActorsOf(D)
    PROVE  /\ p.clock[e][b] \in Nat
           /\ \/ p.clock[e][b] = 0
              \/ \E c \in Needs(D, p, e) :
                    /\ c \in Events(D, p)
                    /\ \/ c[1] = b /\ p.clock[e][b] <= c[2]
                       \/ p.clock[e][b] <= p.clock[c][b]
BY OnIs DEF IsPlan, Clocks

LEMMA ClockDone ==
    ASSUME NEW p, On(p), NEW e, Ready(p, e), NEW b \in ActorsOf(D)
    PROVE  p.clock[e][b] <= Count(b)
<1>1. e \in Events(D, p)
  BY DEF Ready
<1>2. Count(b) \in Nat /\ p.clock[e][b] \in Nat
  BY <1>1, CountNat, ClockIs
<1>3. CASE p.clock[e][b] = 0
  BY <1>2, <1>3
<1>4. ASSUME NEW c \in Needs(D, p, e), c \in Events(D, p),
             \/ c[1] = b /\ p.clock[e][b] <= c[2]
             \/ p.clock[e][b] <= p.clock[c][b]
      PROVE  p.clock[e][b] <= Count(b)
  <2>1. Happened(c) /\ c[2] \in Nat /\ p.clock[c][b] \in Nat
    BY <1>4, EventNat, ClockIs DEF Ready
  <2>2. p.clock[c][b] <= Count(b)
    BY <1>4, <2>1, OnIs DEF Ordered
  <2>3. c[1] = b => c[2] <= Count(b)
    BY <2>1 DEF Happened
  <2> QED
    BY <1>2, <1>4, <2>1, <2>2, <2>3
<1> QED
  BY <1>1, <1>3, <1>4, ClockIs

LEMMA BeforeReady ==
    ASSUME NEW p, On(p), NEW e, Ready(p, e), NEW c \in Events(D, p), Before(p, c, e)
    PROVE  Happened(c)
<1>1. c[1] \in ActorsOf(D) /\ c[2] \in Nat /\ e \in Events(D, p)
  BY EventNat DEF Ready
<1>2. p.clock[e][c[1]] <= Count(c[1]) /\ p.clock[e][c[1]] \in Nat /\ Count(c[1]) \in Nat
  BY <1>1, ClockDone, ClockIs, CountNat
<1> QED
  BY <1>1, <1>2 DEF Before, Happened

LEMMA BeforeHappened ==
    ASSUME NEW p, On(p), NEW e \in Events(D, p), Happened(e),
           NEW c \in Events(D, p), Before(p, c, e)
    PROVE  Happened(c)
<1>1. c[1] \in ActorsOf(D) /\ c[2] \in Nat
  BY EventNat
<1>2. p.clock[e][c[1]] <= Count(c[1]) /\ p.clock[e][c[1]] \in Nat /\ Count(c[1]) \in Nat
  BY <1>1, ClockIs, CountNat, OnIs DEF Ordered
<1> QED
  BY <1>1, <1>2 DEF Before, Happened

\* After a step, the events that have happened are those before it and its own.
LEMMA HappenedNext ==
    ASSUME NEW p, On(p), NEW a, Advances(p, a), NEW e \in Events(D, p)
    PROVE  /\ Happened(e)' <=> Happened(e) \/ e = <<a, Count(a) + 1>>
           /\ e = <<a, Count(a) + 1>> => ~Happened(e)
<1>1. e[1] \in ActorsOf(D) /\ e[2] \in Nat /\ e = <<e[1], e[2]>>
  BY EventNat
<1>2. Count(a) \in Nat /\ Count(a)' = Count(a) + 1
  BY DEF Advances
<1>3. CASE e[1] # a
  <2>1. Count(e[1])' = Count(e[1])
    BY <1>1, <1>3 DEF Advances
  <2> QED
    BY <1>3, <2>1 DEF Happened
<1>4. CASE e[1] = a
  <2>1. Happened(e)' <=> e[2] <= Count(a) + 1
    BY <1>2, <1>4 DEF Happened
  <2>2. Happened(e) <=> e[2] <= Count(a)
    BY <1>4 DEF Happened
  <2>3. e = <<a, Count(a) + 1>> <=> e[2] = Count(a) + 1
    BY <1>1, <1>4
  <2> QED
    BY <1>1, <1>2, <2>1, <2>2, <2>3
<1> QED
  BY <1>3, <1>4

LEMMA OrderedNext ==
    ASSUME NEW p, On(p), NEW a, Advances(p, a)
    PROVE  Ordered(p)'
<1>1. D' = D
  BY SameDesign DEF Advances
<1> SUFFICES ASSUME NEW e \in Events(D, p), Happened(e)', NEW b \in ActorsOf(D)
             PROVE  p.clock[e][b] <= Count(b)'
  BY <1>1 DEF Ordered
<1>2. p.clock[e][b] <= Count(b)
  <2>1. CASE Happened(e)
    BY <2>1, OnIs DEF Ordered
  <2>2. CASE e = <<a, Count(a) + 1>>
    BY <2>2, ClockDone DEF Advances
  <2> QED
    BY <2>1, <2>2, HappenedNext
<1>3. Count(b)' = Count(b) \/ Count(b)' = Count(b) + 1
  BY DEF Advances
<1> QED
  BY <1>2, <1>3, ClockIs, CountNat

-----------------------------------------------------------------------------
\* The writes of a place happen in their order.
LEMMA WritesAre ==
    ASSUME NEW p, On(p), NEW q \in DOMAIN D.mem
    PROVE  /\ Len(p.writes[q]) \in Nat
           /\ DOMAIN p.writes[q] = 1..Len(p.writes[q])
           /\ \A v \in 1..Len(p.writes[q]) : p.writes[q][v] \in Events(D, p)
<1>1. p.writes[q] \in Seq(Events(D, p))
  BY OnIs DEF IsPlan, Values
<1>2. Len(p.writes[q]) \in Nat /\ DOMAIN p.writes[q] = 1..Len(p.writes[q])
  BY <1>1, SeqIs
<1> QED
  BY <1>1, <1>2, ElementOfSeq

LEMMA WriteIs ==
    ASSUME NEW p, On(p), NEW q \in DOMAIN D.mem, NEW v \in 1..Len(p.writes[q])
    PROVE  /\ \A u \in 1..(v - 1) : /\ p.writes[q][u] # p.writes[q][v]
                                    /\ Before(p, p.writes[q][u], p.writes[q][v])
           /\ Writes(D, p, p.writes[q][v], q, p.values[q][v], p.values[q][v + 1])
           /\ \E n \in DOMAIN D.host : \/ p.writes[q][v] = HostEvent(n)
                                       \/ Before(p, p.writes[q][v], HostEvent(n))
<1>1. v \in DOMAIN p.writes[q]
  BY WritesAre
<1> QED
  BY <1>1, OnIs DEF IsPlan, Values

LEMMA TargetIs ==
    ASSUME NEW p, On(p), NEW q \in DOMAIN D.mem, NEW e \in Events(D, p)
    PROVE  q \in Targets(D, p, e) <=> \E v \in 1..Len(p.writes[q]) : e = p.writes[q][v]
<1>0. \A x \in DOMAIN D.mem : \A c \in Events(D, p) :
        x \in Targets(D, p, c) <=> c \in {p.writes[x][v] : v \in DOMAIN p.writes[x]}
  <2>1. Values(D, p)
    BY OnIs DEF IsPlan
  <2> QED
    BY <2>1 DEF Values
<1>1. q \in Targets(D, p, e) <=> e \in {p.writes[q][v] : v \in DOMAIN p.writes[q]}
  BY <1>0
<1> QED
  BY <1>1, WritesAre

\* A write finds the value of the write before it, and leaves its own.
LEMMA VersionNext ==
    ASSUME NEW p, On(p), NEW a, Advances(p, a), NEW q \in DOMAIN D.mem,
           q \notin Targets(D, p, <<a, Count(a) + 1>>) => mem'[q] = mem[q],
           q \in Targets(D, p, <<a, Count(a) + 1>>) =>
               \A new : Writes(D, p, <<a, Count(a) + 1>>, q, mem[q], new) => mem'[q] = new
    PROVE  \E v \in 0..Len(p.writes[q]) : AtVersion(p, q, v)'
<1>0. PICK e : e = <<a, Count(a) + 1>>
  OBVIOUS
<1>1. e \in Events(D, p) /\ Ready(p, e)
  BY <1>0 DEF Advances, Ready
<1>2. PICK v \in 0..Len(p.writes[q]) : AtVersion(p, q, v)
  BY OnIs DEF Remembers
<1>3. /\ Len(p.writes[q]) \in Nat
      /\ \A j \in 1..Len(p.writes[q]) : p.writes[q][j] \in Events(D, p)
  BY WritesAre
<1>4. \A j \in 1..Len(p.writes[q]) :
        /\ Happened(p.writes[q][j])' <=> Happened(p.writes[q][j]) \/ p.writes[q][j] = e
        /\ p.writes[q][j] = e => ~Happened(p.writes[q][j])
  BY <1>0, <1>3, HappenedNext
<1>5. CASE q \notin Targets(D, p, e)
  <2>1. \A j \in 1..Len(p.writes[q]) : p.writes[q][j] # e
    BY <1>1, <1>5, TargetIs
  <2>2. AtVersion(p, q, v)'
    BY <1>0, <1>2, <1>4, <1>5, <2>1 DEF AtVersion
  <2> QED
    BY <2>2
<1>6. CASE q \in Targets(D, p, e)
  <2>1. PICK u \in 1..Len(p.writes[q]) : p.writes[q][u] = e
    BY <1>1, <1>6, TargetIs
  <2>2. ~(u <= v)
    BY <1>2, <1>4, <2>1 DEF AtVersion
  <2>3. ASSUME NEW k \in 1..(u - 1)
        PROVE  k <= v /\ p.writes[q][k] # e
    <3>1. k \in 1..Len(p.writes[q])
      BY <1>3
    <3>2. p.writes[q][k] # e /\ Before(p, p.writes[q][k], e)
      BY <2>1, WriteIs
    <3>3. Happened(p.writes[q][k])
      BY <1>1, <1>3, <3>1, <3>2, BeforeReady
    <3> QED
      BY <1>2, <3>1, <3>2, <3>3 DEF AtVersion
  <2>4. u = v + 1
    <3>1. u \in Nat /\ v \in Nat /\ 1 <= u
      BY <1>3
    <3>2. CASE u = 1
      BY <1>3, <2>2, <3>1, <3>2
    <3>3. CASE u > 1
      <4>1. u - 1 \in 1..(u - 1)
        BY <3>1, <3>3
      <4>2. u - 1 <= v
        BY <2>3, <4>1
      <4> QED
        BY <2>2, <3>1, <4>2
    <3> QED
      BY <3>1, <3>2, <3>3
  <2>5. mem[q] = p.values[q][u]
    BY <1>2, <2>4 DEF AtVersion
  <2>6. Writes(D, p, e, q, p.values[q][u], p.values[q][u + 1])
    BY <2>1, WriteIs
  <2>7. mem'[q] = p.values[q][u + 1]
    BY <1>0, <1>6, <2>5, <2>6
  <2>8. ASSUME NEW j \in 1..Len(p.writes[q])
        PROVE  p.writes[q][j] = e <=> j = u
    <3>1. CASE j < u
      <4>1. j \in 1..(u - 1)
        BY <1>3, <3>1
      <4> QED
        BY <2>3, <3>1, <4>1
    <3>2. CASE j > u
      <4>1. u \in 1..(j - 1)
        BY <1>3, <3>2
      <4>2. p.writes[q][u] # p.writes[q][j]
        BY <4>1, WriteIs
      <4> QED
        BY <2>1, <3>2, <4>2
    <3> QED
      BY <1>3, <2>1, <3>1, <3>2
  <2>9. \A j \in 1..Len(p.writes[q]) : Happened(p.writes[q][j])' <=> j <= u
    <3>1. \A j \in 1..Len(p.writes[q]) : Happened(p.writes[q][j]) <=> j <= v
      BY <1>2 DEF AtVersion
    <3> QED
      BY <1>3, <1>4, <2>4, <2>8, <3>1
  <2>10. AtVersion(p, q, u)'
    BY <2>7, <2>9 DEF AtVersion
  <2>11. u \in 0..Len(p.writes[q])
    BY <1>3
  <2> QED
    BY <2>10, <2>11
<1> QED
  BY <1>5, <1>6

\* What the plan has an event read is what the place holds.
LEMMA ReadsNow ==
    ASSUME NEW p, On(p), NEW e, Ready(p, e), ~Happened(e), NEW q, NEW object,
           Reads(D, p, e, q, object)
    PROVE  Held(q) = object
<1>0. DOMAIN mem = DOMAIN D.mem
  BY OnIs DEF DataflowInv, TypeOK
<1>1. CASE q \notin DOMAIN D.mem
  BY <1>0, <1>1 DEF Held, Reads
<1>2. CASE q \in DOMAIN D.mem
  <2>1. PICK u \in 0..Len(p.writes[q]) : Finds(p, e, q, u) /\ object = p.values[q][u + 1]
    BY <1>2 DEF Reads
  <2>2. PICK v \in 0..Len(p.writes[q]) : AtVersion(p, q, v)
    BY <1>2, OnIs DEF Remembers
  <2>3. /\ Len(p.writes[q]) \in Nat
        /\ \A j \in 1..Len(p.writes[q]) : p.writes[q][j] \in Events(D, p)
    BY <1>2, WritesAre
  <2>4. \A j \in 1..Len(p.writes[q]) : Happened(p.writes[q][j]) <=> j <= v
    BY <2>2 DEF AtVersion
  <2>5. e \in Events(D, p)
    BY DEF Ready
  <2>6. u > 0 => u <= v
    <3> SUFFICES ASSUME u > 0 PROVE u <= v
      OBVIOUS
    <3>1. u \in 1..Len(p.writes[q])
      BY <2>3
    <3>2. Happened(p.writes[q][u])
      BY <2>1, <2>3, <3>1, BeforeReady DEF Finds
    <3> QED
      BY <2>4, <3>1, <3>2
  <2>7. ~(u < v)
    <3> SUFFICES ASSUME u < v PROVE FALSE
      OBVIOUS
    <3>1. u + 1 \in 1..Len(p.writes[q]) /\ u + 1 <= v /\ u < Len(p.writes[q])
      BY <2>3
    <3>2. PICK c : c = p.writes[q][u + 1]
      OBVIOUS
    <3>3. Happened(c) /\ c \in Events(D, p)
      BY <2>3, <2>4, <3>1, <3>2
    <3>4. c = e \/ Before(p, e, c)
      BY <2>1, <3>1, <3>2 DEF Finds
    <3> QED
      BY <2>5, <3>3, <3>4, BeforeHappened
  <2>8. u = v
    BY <2>3, <2>6, <2>7
  <2> QED
    BY <1>0, <1>2, <2>1, <2>2, <2>8 DEF AtVersion, Held
<1> QED
  BY <1>1, <1>2

-----------------------------------------------------------------------------
\* The parts of Follows, one worker, one link and one FIFO at a time.
CallFollows(p, w) ==
    /\ pc[w] \in 1..(Len(D.prog[w]) + 1)
    /\ \A f \in Fifos : w \in Readers(f) => got[f][w] = p.taken[w][pc[w]][f]
    /\ \A f \in Fifos :
        <<"kernel", w>> \in Producers(D, f) => Len(sent[f]) = p.made[w][pc[w]][f]
SplitFollows(c) == Len(sent[c]) = got[ParentOf(D.split, c)][c]
JoinFollows(f) ==
    \A b \in Parts(D.join, f) : \E c \in Parts(D.join, f) : Len(sent[f]) = got[c]["link"]
FifoCarries(p, f) ==
    /\ Len(sent[f]) <= Len(p.hist[f])
    /\ \A n \in 1..Len(sent[f]) : sent[f][n] = p.hist[f][n]

\* A move by a producer of the tags for the reader r.
MovedBy(Tags, into, from, r) ==
    /\ Moved(into, from, r)
    /\ Allowed(into, from, r)
    /\ \A f \in into : \E t \in Producers(D, f) : t \in Tags

LEMMA SentStays ==
    ASSUME NEW p, On(p), NEW Tags, NEW into, NEW from, NEW r, MovedBy(Tags, into, from, r),
           NEW f \in Fifos, NEW t \in Producers(D, f), t \notin Tags
    PROVE  sent'[f] = sent[f] /\ f \notin into
<1>1. f \notin into
  BY OnIs DEF WellFormed, MovedBy
<1> QED
  BY <1>1 DEF MovedBy, Moved

LEMMA GotStays ==
    ASSUME NEW p, On(p), NEW Tags, NEW into, NEW from, NEW r, MovedBy(Tags, into, from, r),
           NEW f \in Fifos, NEW q \in Readers(f), f \notin from \/ q # r
    PROVE  got'[f][q] = got[f][q]
BY OnIs, MoveKeeps DEF MovedBy, Effect

LEMMA CallStays ==
    ASSUME NEW p, On(p), NEW Tags, NEW into, NEW from, NEW r, MovedBy(Tags, into, from, r),
           NEW w \in Workers, pc'[w] = pc[w], <<"kernel", w>> \notin Tags,
           \A f \in from : w # r
    PROVE  CallFollows(p, w)'
<1>1. D' = D /\ Fifos' = Fifos /\ \A f : Readers(f)' = Readers(f)
  BY SameDesign DEF MovedBy, Moved
<1>2. CallFollows(p, w)
  BY OnIs DEF FollowsCalls, CallFollows
<1>3. ASSUME NEW f \in Fifos, w \in Readers(f)
      PROVE  got'[f][w] = got[f][w]
  BY <1>3, GotStays
<1>4. ASSUME NEW f \in Fifos, <<"kernel", w>> \in Producers(D, f)
      PROVE  sent'[f] = sent[f]
  BY <1>4, SentStays
<1> QED
  BY <1>1, <1>2, <1>3, <1>4 DEF CallFollows

LEMMA SplitStays ==
    ASSUME NEW p, On(p), NEW Tags, NEW into, NEW from, NEW r, MovedBy(Tags, into, from, r),
           NEW c \in Children(D.split), <<"split", c>> \notin Tags,
           \A f \in from : c # r
    PROVE  SplitFollows(c)'
<1>0. PICK parent : parent = ParentOf(D.split, c)
  OBVIOUS
<1>1. D' = D
  BY SameDesign DEF MovedBy, Moved
<1>2. c \in Fifos /\ parent \in Fifos /\ c \in Readers(parent)
      /\ <<"split", c>> \in Producers(D, c)
  BY <1>0, ChildIs, OnIs DEF WellFormed, ReadersOf, Producers
<1>3. Len(sent[c]) = got[parent][c]
  BY <1>0, OnIs DEF FollowsLinks
<1>4. sent'[c] = sent[c] /\ got'[parent][c] = got[parent][c]
  BY <1>2, SentStays, GotStays
<1> QED
  BY <1>0, <1>1, <1>3, <1>4 DEF SplitFollows

LEMMA PartIs ==
    ASSUME NEW p, On(p), NEW f \in DOMAIN D.join, NEW c \in Parts(D.join, f)
    PROVE  /\ f \in Fifos /\ c \in Fifos /\ "link" \in Readers(c)
           /\ c \in Children(D.join)
           /\ ParentOf(D.join, c) = f
           /\ <<"join", f>> \in Producers(D, f)
           /\ Len(sent[f]) <= got[c]["link"]
           /\ got[c]["link"] \in Nat
           /\ Len(p.hist[c]) = Len(p.hist[f])
<1>1. f \in Fifos /\ c \in Children(D.join) /\ c \in Fifos
  BY OnIs DEF WellFormed, Children
<1>2. "link" \in Readers(c)
  BY <1>1, OnIs DEF ReadersOf
<1>3. Len(sent[f]) <= got[c]["link"] /\ got[c]["link"] \in Nat
  BY <1>1, <1>2, OnIs DEF DataflowInv
<1>4. ParentOf(D.join, c) = f /\ Len(p.hist[c]) = Len(p.hist[f])
  BY OnIs DEF IsPlan, Histories
<1> QED
  BY <1>1, <1>2, <1>3, <1>4 DEF Producers

LEMMA JoinStays ==
    ASSUME NEW p, On(p), NEW Tags, NEW into, NEW from, NEW r, MovedBy(Tags, into, from, r),
           NEW f \in DOMAIN D.join, <<"join", f>> \notin Tags,
           \A c \in Parts(D.join, f) : c \notin from \/ r # "link"
    PROVE  JoinFollows(f)'
<1>1. D' = D
  BY SameDesign DEF MovedBy, Moved
<1> SUFFICES ASSUME NEW b \in Parts(D.join, f)
             PROVE  \E c \in Parts(D.join, f) : Len(sent'[f]) = got'[c]["link"]
  BY <1>1 DEF JoinFollows
<1>2. PICK c \in Parts(D.join, f) : Len(sent[f]) = got[c]["link"]
  BY OnIs DEF FollowsLinks
<1>3. sent'[f] = sent[f]
  BY PartIs, SentStays
<1>4. got'[c]["link"] = got[c]["link"]
  BY PartIs, GotStays
<1> QED
  BY <1>2, <1>3, <1>4

\* Nobody but the host tells the DMAs anything.
LEMMA HostStays ==
    ASSUME NEW p, On(p), NEW Tags, NEW into, NEW from, NEW r, MovedBy(Tags, into, from, r),
           issued' = issued, pc'["host"] = pc["host"],
           \A f \in Filled(D) : Len(sent'[f]) <= Len(issued[f]),
           \A f \in DrainedBy(D) : got'[f]["ddr"] <= Len(issued[f])
    PROVE  FollowsHost(p)'
<1>1. D' = D /\ Fifos' = Fifos
  BY SameDesign DEF MovedBy, Moved
<1> QED
  BY <1>1, OnIs DEF FollowsHost

LEMMA FillStays ==
    ASSUME NEW p, On(p), NEW Tags, NEW into, NEW from, NEW r, MovedBy(Tags, into, from, r),
           NEW f \in Filled(D), <<"fill", f>> \notin Tags
    PROVE  Len(sent'[f]) <= Len(issued[f])
<1>1. f \in Fifos /\ <<"fill", f>> \in Producers(D, f)
  BY OnIs DEF WellFormed, Producers
<1>2. sent'[f] = sent[f]
  BY <1>1, SentStays
<1> QED
  BY <1>2, OnIs DEF FollowsHost

LEMMA DrainStays ==
    ASSUME NEW p, On(p), NEW Tags, NEW into, NEW from, NEW r, MovedBy(Tags, into, from, r),
           NEW f \in DrainedBy(D), f \notin from \/ r # "ddr"
    PROVE  got'[f]["ddr"] <= Len(issued[f])
<1>1. f \in Fifos /\ "ddr" \in Readers(f)
  BY OnIs DEF WellFormed, ReadersOf
<1>2. got'[f]["ddr"] = got[f]["ddr"]
  BY <1>1, GotStays
<1> QED
  BY <1>2, OnIs DEF FollowsHost

\* A FIFO that gets the next object of its history, or none, carries it.
LEMMA CarryStays ==
    ASSUME NEW p, On(p), NEW f \in Fifos, sent'[f] = sent[f]
    PROVE  FifoCarries(p, f)'
BY OnIs DEF FifoCarries, Carries

LEMMA CarryNext ==
    ASSUME NEW p, On(p), NEW f \in Fifos, NEW e,
           sent'[f] = Append(sent[f], e),
           Len(sent[f]) + 1 <= Len(p.hist[f]),
           e = p.hist[f][Len(sent[f]) + 1]
    PROVE  FifoCarries(p, f)'
<1>1. PICK S : sent[f] \in Seq(S)
  BY OnIs DEF DataflowInv, IsSeq
<1>2. sent[f] \in Seq(S \cup {e})
  BY <1>1, SeqMonotonic
<1>3. /\ Len(Append(sent[f], e)) = Len(sent[f]) + 1
      /\ \A i \in 1..Len(sent[f]) : Append(sent[f], e)[i] = sent[f][i]
      /\ Append(sent[f], e)[Len(sent[f]) + 1] = e
  BY <1>2, AppendProperties
<1>4. Len(sent[f]) \in Nat /\ Len(p.hist[f]) \in Nat
      /\ \A n \in 1..Len(sent[f]) : sent[f][n] = p.hist[f][n]
  BY OnIs, HistIs DEF Carries
<1>5. ASSUME NEW n \in 1..Len(sent'[f])
      PROVE  sent'[f][n] = p.hist[f][n]
  <2>1. CASE n = Len(sent[f]) + 1
    BY <1>3, <2>1
  <2>2. CASE n # Len(sent[f]) + 1
    <3>1. n \in 1..Len(sent[f])
      BY <1>3, <1>4, <1>5, <2>2
    <3> QED
      BY <1>3, <1>4, <3>1
  <2> QED
    BY <2>1, <2>2
<1> QED
  BY <1>3, <1>5 DEF FifoCarries

LEMMA RemembersNext ==
    ASSUME NEW p, On(p), NEW a, Advances(p, a),
           mem' = [q \in DOMAIN D.mem |-> mem'[q]],
           \A q \in DOMAIN D.mem :
               /\ q \notin Targets(D, p, <<a, Count(a) + 1>>) => mem'[q] = mem[q]
               /\ q \in Targets(D, p, <<a, Count(a) + 1>>) =>
                    \A new : Writes(D, p, <<a, Count(a) + 1>>, q, mem[q], new) => mem'[q] = new
    PROVE  Remembers(p)'
<1>1. D' = D
  BY SameDesign DEF Advances
<1>2. \A q \in DOMAIN D.mem : \E v \in 0..Len(p.writes[q]) : AtVersion(p, q, v)'
  BY VersionNext
<1> QED
  BY <1>1, <1>2 DEF Remembers

\* A move that leaves DDR alone is no write.
LEMMA RemembersStill ==
    ASSUME NEW p, On(p), NEW a, Advances(p, a), mem' = mem, a[1] \notin {"drain", "host"}
    PROVE  Remembers(p)'
<1>1. Targets(D, p, <<a, Count(a) + 1>>) = {}
  BY DEF Targets
<1>2. mem' = [q \in DOMAIN D.mem |-> mem'[q]]
  BY OnIs DEF Remembers
<1> QED
  BY <1>1, <1>2, RemembersNext

LEMMA FollowsNext ==
    ASSUME NEW p, On(p), NEW a, Advances(p, a), DataflowInv',
           \A w \in Workers : CallFollows(p, w)',
           \A c \in Children(D.split) : SplitFollows(c)',
           \A f \in DOMAIN D.join : JoinFollows(f)',
           FollowsHost(p)',
           \A f \in Fifos : FifoCarries(p, f)',
           Remembers(p)'
    PROVE  On(p)'
<1>1. D' = D /\ Fifos' = Fifos /\ Workers' = Workers
  BY SameDesign DEF Advances
<1>2. FollowsCalls(p)'
  BY <1>1 DEF FollowsCalls, CallFollows
<1>3. FollowsLinks'
  BY <1>1 DEF FollowsLinks, SplitFollows, JoinFollows
<1>4. Carries(p)'
  BY <1>1 DEF Carries, FifoCarries
<1>5. IsPlan(D, p)'
  BY <1>1, OnIs
<1> QED
  BY <1>2, <1>3, <1>4, <1>5, OrderedNext DEF On, Follows

-----------------------------------------------------------------------------
\* Every step keeps the run on its plan.
LEMMA KernelMoves ==
    ASSUME NEW p, On(p), NEW w \in Workers, Kernel(w)
    PROVE  MovedBy({<<"kernel", w>>}, Names(NextCall(w).out), NextCall(w).free, w)
<1>1. /\ Moved(Names(NextCall(w).out), NextCall(w).free, w)
      /\ Allowed(Names(NextCall(w).out), NextCall(w).free, w)
      /\ \A f \in Names(NextCall(w).out) : <<"kernel", w>> \in Producers(D, f)
  BY OnIs, KernelIs
<1> QED
  BY <1>1 DEF MovedBy

LEMMA ProduceOne ==
    ASSUME NEW f \in Fifos, NEW e, Produce({<<f, e>>})
    PROVE  /\ sent'[f] = Append(sent[f], e)
           /\ \A g \in Fifos : g # f => sent'[g] = sent[g]
<1>1. Names({<<f, e>>}) = {f}
  BY DEF Names
<1>2. <<f, e>> \in {<<f, e>>} /\ <<f, e>>[1] = f
  OBVIOUS
<1>3. (CHOOSE p \in {<<f, e>>} : p[1] = f) \in {<<f, e>>}
  BY <1>2
<1>4. (CHOOSE p \in {<<f, e>>} : p[1] = f)[2] = e
  BY <1>3
<1> QED
  BY <1>1, <1>4 DEF Produce

LEMMA KernelCallFollows ==
    ASSUME NEW p, On(p), NEW w \in Workers, Kernel(w)
    PROVE  CallFollows(p, w)'
<1>0. PICK call, n : n = pc[w] /\ call = NextCall(w)
  OBVIOUS
<1>1. /\ n \in 1..Len(D.prog[w]) /\ Len(D.prog[w]) \in Nat
      /\ w \in DOMAIN D.prog
      /\ call = D.prog[w][n] /\ call \in Calls(D, w)
  BY <1>0, CallIs, OnIs DEF Kernel, CanRun, NextCall, Calls
<1>2. D' = D /\ Fifos' = Fifos /\ (\A f : Readers(f)' = Readers(f)) /\ pc'[w] = n + 1
  BY <1>0, SameDesign, OnIs DEF Kernel, DataflowInv, TypeOK
<1>3. Moved(Names(call.out), call.free, w) /\ Allowed(Names(call.out), call.free, w)
  BY <1>0, KernelMoves DEF MovedBy
<1>4. CallFollows(p, w)
  BY OnIs DEF FollowsCalls, CallFollows
<1>5. ASSUME NEW f \in Fifos, w \in Readers(f)
      PROVE  got'[f][w] = p.taken[w][n + 1][f]
  <2>1. Effect(f, Names(call.out), call.free, w)
    BY <1>3, OnIs, MoveKeeps
  <2>2. got[f][w] = p.taken[w][n][f]
    BY <1>0, <1>4, <1>5 DEF CallFollows
  <2>3. p.taken[w][n + 1][f] = p.taken[w][n][f] + (IF f \in call.free THEN 1 ELSE 0)
    <3>1. \A i \in 1..Len(D.prog[w]) :
            p.taken[w][i + 1][f] =
                p.taken[w][i][f] + (IF f \in D.prog[w][i].free THEN 1 ELSE 0)
      BY <1>1, OnIs, TakenIs
    <3> QED
      BY <1>1, <3>1
  <2>4. got[f][w] \in Nat
    BY <1>5, OnIs
  <2> QED
    BY <1>5, <2>1, <2>2, <2>3, <2>4 DEF Effect
<1>6. ASSUME NEW f \in Fifos, <<"kernel", w>> \in Producers(D, f)
      PROVE  Len(sent'[f]) = p.made[w][n + 1][f]
  <2>1. Effect(f, Names(call.out), call.free, w)
    BY <1>3, OnIs, MoveKeeps
  <2>2. Len(sent[f]) = p.made[w][n][f]
    BY <1>0, <1>4, <1>6 DEF CallFollows
  <2>3. p.made[w][n + 1][f] = p.made[w][n][f] + (IF f \in Names(call.out) THEN 1 ELSE 0)
    <3>1. \A i \in 1..Len(D.prog[w]) :
            p.made[w][i + 1][f] =
                p.made[w][i][f] + (IF f \in Names(D.prog[w][i].out) THEN 1 ELSE 0)
      BY <1>1, OnIs, MadeIs
    <3> QED
      BY <1>1, <3>1
  <2>4. Len(sent[f]) \in Nat
    BY OnIs
  <2> QED
    BY <2>1, <2>2, <2>3, <2>4 DEF Effect
<1>7. pc'[w] \in 1..(Len(D.prog[w]) + 1)
  BY <1>1, <1>2
<1> QED
  BY <1>2, <1>5, <1>6, <1>7 DEF CallFollows

LEMMA KernelCarries ==
    ASSUME NEW p, On(p), NEW w \in Workers, Kernel(w), NEW f \in Fifos
    PROVE  FifoCarries(p, f)'
<1> DEFINE out == NextCall(w).out
           object(g) == (CHOOSE q \in out : q[1] = g)[2]
<1>1. /\ pc[w] \in DOMAIN D.prog[w]
      /\ w \in DOMAIN D.prog
      /\ NextCall(w) \in Calls(D, w)
  BY CallIs, OnIs DEF Kernel, CanRun, NextCall, Calls
<1>2. sent' = [g \in Fifos |-> IF g \in Names(out) THEN Append(sent[g], object(g))
                                                   ELSE sent[g]]
  BY DEF Kernel, Produce
<1>3. CASE f \notin Names(out)
  BY <1>2, <1>3, CarryStays
<1>4. CASE f \in Names(out)
  <2>1. <<"kernel", w>> \in Producers(D, f)
    BY <1>1, <1>4 DEF Producers
  <2>2. Len(sent[f]) = p.made[w][pc[w]][f]
    BY <2>1, OnIs DEF FollowsCalls
  <2>3. p.made[w][pc[w]][f] + 1 \in DOMAIN p.hist[f]
        /\ p.hist[f][p.made[w][pc[w]][f] + 1] = object(f)
    <3>1. \A i \in DOMAIN D.prog[w] : \A g \in Names(D.prog[w][i].out) :
            /\ p.made[w][i][g] + 1 \in DOMAIN p.hist[g]
            /\ p.hist[g][p.made[w][i][g] + 1] = (CHOOSE q \in D.prog[w][i].out : q[1] = g)[2]
      <4>1. Histories(D, p)
        BY OnIs DEF IsPlan
      <4> QED
        BY <1>1, <4>1 DEF Histories
    <3>2. \A g \in Names(D.prog[w][pc[w]].out) :
            /\ p.made[w][pc[w]][g] + 1 \in DOMAIN p.hist[g]
            /\ p.hist[g][p.made[w][pc[w]][g] + 1] =
                    (CHOOSE q \in D.prog[w][pc[w]].out : q[1] = g)[2]
      BY <1>1, <3>1
    <3> QED
      BY <1>4, <3>2 DEF NextCall
  <2>4. PICK e : e = object(f)
    OBVIOUS
  <2>5. sent'[f] = Append(sent[f], e)
    BY <1>2, <1>4, <2>4
  <2>6. e = p.hist[f][Len(sent[f]) + 1]
    BY <2>2, <2>3, <2>4
  <2>7. Len(sent[f]) + 1 <= Len(p.hist[f])
    BY <2>2, <2>3, OnIs, HistIs
  <2> QED
    BY <2>5, <2>6, <2>7, CarryNext
<1> QED
  BY <1>3, <1>4

LEMMA KernelOn ==
    ASSUME NEW p, On(p), NEW w \in Workers, Kernel(w), DataflowInv'
    PROVE  On(p)'
<1>1. PICK Tags, into, from : /\ Tags = {<<"kernel", w>>}
                              /\ from = NextCall(w).free
                              /\ MovedBy(Tags, into, from, w)
  BY KernelMoves
<1>2. /\ w \notin {"host", "ddr", "link"} \cup Children(D.split)
  BY OnIs DEF WellFormed
<1>3. /\ issued' = issued /\ mem' = mem
      /\ \A b : b # w => pc'[b] = pc[b]
  BY OnIs DEF Kernel, DataflowInv, TypeOK
<1>4. Advances(p, <<"kernel", w>>)
  BY KernelAdvances
<1>5. ASSUME NEW v \in Workers
      PROVE  CallFollows(p, v)'
  <2>1. CASE v = w
    BY <2>1, KernelCallFollows
  <2>2. CASE v # w
    <3>1. <<"kernel", v>> \notin Tags
      BY <1>1, <2>2
    <3> QED
      BY <1>1, <1>3, <2>2, <3>1, CallStays
  <2> QED
    BY <2>1, <2>2
<1>6. ASSUME NEW c \in Children(D.split)
      PROVE  SplitFollows(c)'
  <2>1. <<"split", c>> \notin Tags /\ c # w
    BY <1>1, <1>2
  <2> QED
    BY <1>1, <2>1, SplitStays
<1>7. ASSUME NEW f \in DOMAIN D.join
      PROVE  JoinFollows(f)'
  <2>1. <<"join", f>> \notin Tags
    BY <1>1
  <2>2. \A c \in Parts(D.join, f) : c \notin from \/ w # "link"
    BY <1>2
  <2>3. MovedBy(Tags, into, from, w)
    BY <1>1
  <2> QED
    BY <2>1, <2>2, <2>3, JoinStays
<1>8. FollowsHost(p)'
  <2>1. \A f : <<"fill", f>> \notin Tags
    BY <1>1
  <2>2. \A f \in Filled(D) : Len(sent'[f]) <= Len(issued[f])
    BY <1>1, <2>1, FillStays
  <2>3. \A f \in DrainedBy(D) : got'[f]["ddr"] <= Len(issued[f])
    BY <1>1, <1>2, DrainStays
  <2>4. pc'["host"] = pc["host"] /\ issued' = issued
    BY <1>2, <1>3
  <2>5. MovedBy(Tags, into, from, w)
    BY <1>1
  <2> QED
    BY <2>2, <2>3, <2>4, <2>5, HostStays
<1>9. \A f \in Fifos : FifoCarries(p, f)'
  BY KernelCarries
<1>10. Remembers(p)'
  BY <1>3, <1>4, RemembersStill
<1> QED
  BY <1>4, <1>5, <1>6, <1>7, <1>8, <1>9, <1>10, FollowsNext

LEMMA SplitOn ==
    ASSUME NEW p, On(p), NEW child \in Children(D.split), SplitMove(child), DataflowInv'
    PROVE  On(p)'
<1>0. PICK parent, k : parent = ParentOf(D.split, child) /\ k = IndexOf(D.split, child)
  OBVIOUS
<1>1. PICK Tags, into, from : /\ Tags = {<<"split", child>>}
                              /\ into = {child}
                              /\ from = {parent}
                              /\ MovedBy(Tags, into, from, child)
  <2>1. PICK Tags : Tags = {<<"split", child>>}
    OBVIOUS
  <2>2. MovedBy(Tags, {child}, {parent}, child)
    BY <1>0, <2>1, OnIs, SplitIs DEF MovedBy
  <2> QED
    BY <2>1, <2>2
<1>2. /\ child \notin {"ddr", "link"}
      /\ \A w \in Workers : w # child
  BY OnIs DEF WellFormed
<1>3. issued' = issued /\ mem' = mem /\ pc' = pc
  BY DEF SplitMove
<1>4. Advances(p, <<"split", child>>)
  BY SplitAdvances
<1>5. ASSUME NEW v \in Workers
      PROVE  CallFollows(p, v)'
  <2>1. <<"kernel", v>> \notin Tags
    BY <1>1
  <2> QED
    BY <1>1, <1>2, <1>3, <2>1, CallStays
<1>6. ASSUME NEW c \in Children(D.split)
      PROVE  SplitFollows(c)'
  <2>1. CASE c # child
    <3>1. <<"split", c>> \notin Tags
      BY <1>1, <2>1
    <3> QED
      BY <1>1, <2>1, <3>1, SplitStays
  <2>2. CASE c = child
    <3>1. child \in Fifos /\ parent \in Fifos /\ child \in Readers(parent)
      BY <1>0, ChildIs, OnIs DEF WellFormed, ReadersOf
    <3>2. Effect(child, into, from, child) /\ Effect(parent, into, from, child)
      BY <1>1, <3>1, OnIs, MoveKeeps DEF MovedBy
    <3>3. Len(sent[child]) = got[parent][child]
      BY <1>0, OnIs DEF FollowsLinks
    <3>4. Len(sent'[child]) = got'[parent][child]
      BY <1>1, <3>1, <3>2, <3>3 DEF Effect
    <3>5. D' = D
      BY <1>1, SameDesign DEF MovedBy, Moved
    <3> QED
      BY <1>0, <2>2, <3>4, <3>5 DEF SplitFollows
  <2> QED
    BY <2>1, <2>2
<1>7. ASSUME NEW f \in DOMAIN D.join
      PROVE  JoinFollows(f)'
  <2>1. <<"join", f>> \notin Tags /\ child # "link"
    BY <1>1, <1>2
  <2> QED
    BY <1>1, <2>1, JoinStays
<1>8. FollowsHost(p)'
  <2>1. \A f : <<"fill", f>> \notin Tags
    BY <1>1
  <2>2. \A f \in Filled(D) : Len(sent'[f]) <= Len(issued[f])
    BY <1>1, <2>1, FillStays
  <2>3. \A f \in DrainedBy(D) : got'[f]["ddr"] <= Len(issued[f])
    BY <1>1, <1>2, DrainStays
  <2> QED
    BY <1>1, <1>3, <2>2, <2>3, HostStays
<1>9. ASSUME NEW f \in Fifos
      PROVE  FifoCarries(p, f)'
  <2>1. CASE f # child
    <3>1. sent'[f] = sent[f]
      BY <1>1, <2>1 DEF MovedBy, Moved
    <3> QED
      BY <3>1, CarryStays
  <2>2. CASE f = child
    <3>0. PICK e : e = NextObject(parent, child)[k]
      OBVIOUS
    <3>1. Produce({<<child, e>>})
      BY <1>0, <3>0 DEF SplitMove
    <3>2. sent'[child] = Append(sent[child], e)
      BY <2>2, <3>1, ProduceOne
    <3>3. /\ Len(sent[child]) = got[parent][child]
          /\ got[parent][child] < Len(sent[parent])
          /\ parent \in Fifos
      BY <1>0, ChildIs, OnIs DEF FollowsLinks, SplitMove, CanSplit, HasObject, WellFormed
    <3>4. PICK m : m = Len(sent[child]) + 1
      OBVIOUS
    <3>5. m \in 1..Len(sent[parent])
      BY <2>2, <3>3, <3>4, OnIs
    <3>6. /\ Len(sent[parent]) <= Len(p.hist[parent])
          /\ sent[parent][m] = p.hist[parent][m]
          /\ Len(p.hist[parent]) \in Nat
      BY <3>3, <3>5, OnIs, HistIs DEF Carries
    <3>7. /\ Len(p.hist[child]) = Len(p.hist[parent])
          /\ \A n \in DOMAIN p.hist[child] : p.hist[child][n] = p.hist[parent][n][k]
      <4>1. Histories(D, p)
        BY OnIs DEF IsPlan
      <4> QED
        BY <1>0, <4>1 DEF Histories
    <3>8. m \in DOMAIN p.hist[child] /\ m <= Len(p.hist[child])
      BY <2>2, <3>5, <3>6, <3>7, OnIs, HistIs
    <3>9. e = p.hist[child][m]
      BY <3>0, <3>3, <3>4, <3>6, <3>7, <3>8 DEF NextObject
    <3> QED
      BY <2>2, <3>2, <3>4, <3>8, <3>9, CarryNext
  <2> QED
    BY <2>1, <2>2
<1>10. Remembers(p)'
  BY <1>3, <1>4, RemembersStill
<1> QED
  BY <1>4, <1>5, <1>6, <1>7, <1>8, <1>9, <1>10, FollowsNext

-----------------------------------------------------------------------------
Joined(parent, n) == [i \in DOMAIN D.join[parent] |-> sent[D.join[parent][i]][n]]

\* A part that arrives moves one cursor; the last one completes the joined object.
JoinEffect(child, parent, n) ==
    /\ parent \in DOMAIN D.join /\ child \in Parts(D.join, parent) /\ n \in Nat
    /\ \E into \in SUBSET {parent} :
         MovedBy({<<"join", parent>>}, into, {child}, "link")
    /\ got'[child]["link"] = n
    /\ \A c \in Parts(D.join, parent) : c # child => got'[c]["link"] = got[c]["link"]
    /\ \A f \in Fifos : f # parent => sent'[f] = sent[f]
    /\ \/ /\ \E c \in Parts(D.join, parent) : c # child /\ ~(got[c]["link"] >= n)
          /\ sent'[parent] = sent[parent]
       \/ /\ \A c \in Parts(D.join, parent) : c # child => got[c]["link"] >= n
          /\ sent'[parent] = Append(sent[parent], Joined(parent, n))

LEMMA JoinDoes ==
    ASSUME NEW p, On(p), NEW child \in Children(D.join), JoinMove(child)
    PROVE  JoinEffect(child, ParentOf(D.join, child), got[child]["link"] + 1)
<1> PICK parent, n : parent = ParentOf(D.join, child) /\ n = got[child]["link"] + 1
  OBVIOUS
<1> DEFINE object == [i \in DOMAIN D.join[parent] |-> sent[D.join[parent][i]][n]]
           complete == \A c \in Parts(D.join, parent) \ {child} : got[c]["link"] >= n
<1>1. parent \in DOMAIN D.join /\ child \in Parts(D.join, parent)
  BY ChildIs
<1>2. /\ parent \in Fifos /\ child \in Fifos /\ n \in Nat
      /\ <<"join", parent>> \in Producers(D, parent)
      /\ \A c \in Parts(D.join, parent) : c \in Fifos /\ "link" \in Readers(c)
  BY <1>1, PartIs
<1>3. PICK into : /\ Moved(into, {child}, "link")
                  /\ Allowed(into, {child}, "link")
  BY OnIs, JoinIs
<1>4. /\ Release({child}, "link")
      /\ Produce(IF complete THEN {<<parent, object>>} ELSE {})
  BY DEF JoinMove
<1> HIDE DEF object, complete
<1>5. /\ \A f \in Fifos : f # parent => sent'[f] = sent[f]
      /\ \/ ~complete /\ sent'[parent] = sent[parent]
         \/ complete /\ sent'[parent] = Append(sent[parent], object)
  <2>1. CASE complete
    BY <1>2, <1>4, <2>1, ProduceOne
  <2>2. CASE ~complete
    <3>1. Produce({})
      BY <1>4, <2>2
    <3>2. \A f \in Fifos : sent'[f] = sent[f]
      BY <3>1 DEF Produce, Names
    <3> QED
      BY <1>2, <2>2, <3>2
  <2> QED
    BY <2>1, <2>2
<1>6. into \subseteq {parent}
  <2> SUFFICES ASSUME NEW f \in into, f # parent PROVE FALSE
    OBVIOUS
  <2>1. f \in Fifos
    BY <1>3 DEF Allowed
  <2>2. Len(sent'[f]) = Len(sent[f]) + 1
    BY <1>3, <2>1, OnIs, MoveKeeps DEF Effect
  <2>3. sent'[f] = sent[f]
    BY <1>5, <2>1
  <2> QED
    BY <2>1, <2>2, <2>3, OnIs
<1>7. MovedBy({<<"join", parent>>}, into, {child}, "link")
  BY <1>2, <1>3, <1>6 DEF MovedBy
<1>8. ASSUME NEW c \in Parts(D.join, parent)
      PROVE  got'[c]["link"] = IF c = child THEN n ELSE got[c]["link"]
  <2>1. Effect(c, into, {child}, "link")
    BY <1>2, <1>3, <1>8, OnIs, MoveKeeps
  <2> QED
    BY <1>2, <1>8, <2>1 DEF Effect
<1>9. got'[child]["link"] = n
  BY <1>1, <1>8
<1> QED
  BY <1>1, <1>2, <1>5, <1>6, <1>7, <1>8, <1>9 DEF object, complete, Joined, JoinEffect

LEMMA JoinLinkFollows ==
    ASSUME NEW p, On(p), NEW child \in Children(D.join), JoinMove(child),
           NEW parent, parent = ParentOf(D.join, child)
    PROVE  JoinFollows(parent)'
<1>0. PICK n : n = got[child]["link"] + 1
  OBVIOUS
<1>1. /\ parent \in DOMAIN D.join /\ child \in Parts(D.join, parent) /\ n \in Nat
      /\ got'[child]["link"] = n
      /\ \A c \in Parts(D.join, parent) : c # child => got'[c]["link"] = got[c]["link"]
      /\ \/ /\ \E c \in Parts(D.join, parent) : c # child /\ ~(got[c]["link"] >= n)
            /\ sent'[parent] = sent[parent]
         \/ /\ \A c \in Parts(D.join, parent) : c # child => got[c]["link"] >= n
            /\ sent'[parent] = Append(sent[parent], Joined(parent, n))
  <2>1. JoinEffect(child, parent, n)
    BY <1>0, JoinDoes
  <2> QED
    BY <2>1 DEF JoinEffect
<1>2. D' = D
  BY SameDesign DEF JoinMove
<1>3. /\ parent \in Fifos /\ Len(sent[parent]) \in Nat
      /\ \A c \in Parts(D.join, parent) : /\ Len(sent[parent]) <= got[c]["link"]
                                          /\ got[c]["link"] \in Nat
  BY <1>1, PartIs, OnIs
<1>4. PICK b \in Parts(D.join, parent) : Len(sent[parent]) = got[b]["link"]
  BY <1>1, OnIs DEF FollowsLinks
<1>5. ASSUME NEW c \in Parts(D.join, parent), c # child, ~(got[c]["link"] >= n),
             sent'[parent] = sent[parent]
      PROVE  \E e \in Parts(D.join, parent) : Len(sent'[parent]) = got'[e]["link"]
  <2>1. CASE b # child
    BY <1>1, <1>4, <1>5, <2>1
  <2>2. CASE b = child
    <3>1. Len(sent[parent]) = got[c]["link"]
      BY <1>0, <1>3, <1>4, <1>5, <2>2
    <3> QED
      BY <1>1, <1>5, <3>1
  <2> QED
    BY <2>1, <2>2
<1>6. ASSUME NEW e, \A c \in Parts(D.join, parent) : c # child => got[c]["link"] >= n,
             sent'[parent] = Append(sent[parent], e)
      PROVE  Len(sent'[parent]) = n /\ Len(sent[parent]) + 1 = n
  <2>1. Len(sent[parent]) + 1 = n
    BY <1>0, <1>1, <1>3, <1>4, <1>6
  <2>2. Len(sent'[parent]) = Len(sent[parent]) + 1
    BY <1>3, <1>6, OnIs, AppendIs DEF DataflowInv
  <2> QED
    BY <2>1, <2>2
<1>7. \E e \in Parts(D.join, parent) : Len(sent'[parent]) = got'[e]["link"]
  BY <1>1, <1>5, <1>6
<1> QED
  BY <1>2, <1>7 DEF JoinFollows

LEMMA JoinCarries ==
    ASSUME NEW p, On(p), NEW child \in Children(D.join), JoinMove(child), NEW f \in Fifos
    PROVE  FifoCarries(p, f)'
<1>0. PICK parent, n : parent = ParentOf(D.join, child) /\ n = got[child]["link"] + 1
  OBVIOUS
<1>1. /\ parent \in DOMAIN D.join /\ child \in Parts(D.join, parent) /\ n \in Nat
      /\ \A g \in Fifos : g # parent => sent'[g] = sent[g]
      /\ \/ sent'[parent] = sent[parent]
         \/ /\ \A c \in Parts(D.join, parent) : c # child => got[c]["link"] >= n
            /\ sent'[parent] = Append(sent[parent], Joined(parent, n))
  <2>1. JoinEffect(child, parent, n)
    BY <1>0, JoinDoes
  <2> QED
    BY <2>1 DEF JoinEffect
<1>2. CASE sent'[f] = sent[f]
  BY <1>2, CarryStays
<1>3. CASE /\ f = parent
           /\ \A c \in Parts(D.join, parent) : c # child => got[c]["link"] >= n
           /\ sent'[parent] = Append(sent[parent], Joined(parent, n))
  <2>1. /\ Len(sent[parent]) \in Nat
        /\ \A c \in Parts(D.join, parent) : /\ Len(sent[parent]) <= got[c]["link"]
                                            /\ got[c]["link"] \in Nat
    BY <1>1, PartIs, OnIs
  <2>2. PICK b \in Parts(D.join, parent) : Len(sent[parent]) = got[b]["link"]
    BY <1>1, OnIs DEF FollowsLinks
  <2>3. Len(sent[parent]) + 1 = n
    BY <1>0, <1>1, <1>3, <2>1, <2>2
  <2>4. got[child]["link"] < Len(sent[child])
    BY DEF JoinMove, CanJoin, HasObject
  <2>5. ASSUME NEW c \in Parts(D.join, parent)
        PROVE  /\ n \in 1..Len(sent[c]) /\ c \in Fifos
               /\ Len(sent[c]) <= Len(p.hist[c])
               /\ Len(p.hist[c]) = Len(p.hist[parent]) /\ Len(p.hist[c]) \in Nat
               /\ sent[c][n] = p.hist[c][n]
    <3>1. /\ c \in Fifos /\ "link" \in Readers(c)
          /\ Len(p.hist[c]) = Len(p.hist[parent]) /\ Len(p.hist[c]) \in Nat
      BY <1>1, <2>5, PartIs, OnIs, HistIs
    <3>2. got[c]["link"] <= Len(sent[c]) /\ got[c]["link"] \in Nat /\ Len(sent[c]) \in Nat
      BY <3>1, OnIs
    <3>3. n \in 1..Len(sent[c])
      BY <1>0, <1>1, <1>3, <2>1, <2>3, <2>4, <2>5, <3>2
    <3> QED
      BY <3>1, <3>3, OnIs DEF Carries
  <2>6. n <= Len(p.hist[parent]) /\ n \in 1..Len(p.hist[parent])
    BY <1>1, <2>1, <2>3, <2>5
  <2>7. p.hist[parent][n] = [i \in DOMAIN D.join[parent] |-> p.hist[D.join[parent][i]][n]]
    <3>1. \A m \in DOMAIN p.hist[parent] :
            p.hist[parent][m] = [i \in DOMAIN D.join[parent] |-> p.hist[D.join[parent][i]][m]]
      <4>1. Histories(D, p)
        BY OnIs DEF IsPlan
      <4> QED
        BY <1>1, <4>1 DEF Histories
    <3>2. n \in DOMAIN p.hist[parent]
      BY <1>3, <2>6, OnIs, HistIs
    <3> QED
      BY <3>1, <3>2
  <2>8. PICK e : e = Joined(parent, n)
    OBVIOUS
  <2>9. e = p.hist[parent][n]
    <3>1. \A i \in DOMAIN D.join[parent] :
            sent[D.join[parent][i]][n] = p.hist[D.join[parent][i]][n]
      BY <2>5 DEF Parts
    <3> QED
      BY <2>7, <2>8, <3>1 DEF Joined
  <2>10. sent'[f] = Append(sent[f], e)
    BY <1>3, <2>8
  <2>11. e = p.hist[f][Len(sent[f]) + 1] /\ Len(sent[f]) + 1 <= Len(p.hist[f])
    BY <1>3, <2>3, <2>6, <2>9
  <2> QED
    BY <2>10, <2>11, CarryNext
<1> QED
  BY <1>1, <1>2, <1>3

LEMMA JoinOn ==
    ASSUME NEW p, On(p), NEW child \in Children(D.join), JoinMove(child), DataflowInv'
    PROVE  On(p)'
<1>0. PICK parent, r : parent = ParentOf(D.join, child) /\ r = "link"
  OBVIOUS
<1>1. PICK Tags, into, from : /\ Tags = {<<"join", parent>>}
                              /\ from = {child}
                              /\ MovedBy(Tags, into, from, r)
  <2>1. PICK into : MovedBy({<<"join", parent>>}, into, {child}, "link")
    <3>1. JoinEffect(child, parent, got[child]["link"] + 1)
      BY <1>0, JoinDoes
    <3> QED
      BY <3>1 DEF JoinEffect
  <2> QED
    BY <1>0, <2>1
<1>2. /\ \A w \in Workers : w # r
      /\ \A c \in Children(D.split) : c # r
      /\ r # "ddr"
  BY <1>0, OnIs DEF WellFormed
<1>3. issued' = issued /\ mem' = mem /\ pc' = pc
  BY DEF JoinMove
<1>4. Advances(p, <<"join", child>>)
  BY JoinAdvances
<1>5. ASSUME NEW v \in Workers
      PROVE  CallFollows(p, v)'
  <2>1. <<"kernel", v>> \notin Tags
    BY <1>1
  <2> QED
    BY <1>1, <1>2, <1>3, <2>1, CallStays
<1>6. ASSUME NEW c \in Children(D.split)
      PROVE  SplitFollows(c)'
  <2>1. <<"split", c>> \notin Tags
    BY <1>1
  <2> QED
    BY <1>1, <1>2, <2>1, SplitStays
<1>7. ASSUME NEW f \in DOMAIN D.join
      PROVE  JoinFollows(f)'
  <2>1. CASE f = parent
    BY <1>0, <2>1, JoinLinkFollows
  <2>2. CASE f # parent
    <3>1. <<"join", f>> \notin Tags
      BY <1>1, <2>2
    <3>2. \A c \in Parts(D.join, f) : c \notin from \/ r # "link"
      BY <1>0, <1>1, <2>2, PartIs
    <3>3. MovedBy(Tags, into, from, r)
      BY <1>1
    <3> QED
      BY <3>1, <3>2, <3>3, JoinStays
  <2> QED
    BY <2>1, <2>2
<1>8. FollowsHost(p)'
  <2>1. \A f : <<"fill", f>> \notin Tags
    BY <1>1
  <2>2. \A f \in Filled(D) : Len(sent'[f]) <= Len(issued[f])
    BY <1>1, <2>1, FillStays
  <2>3. \A f \in DrainedBy(D) : got'[f]["ddr"] <= Len(issued[f])
    BY <1>1, <1>2, DrainStays
  <2> QED
    BY <1>1, <1>3, <2>2, <2>3, HostStays
<1>9. \A f \in Fifos : FifoCarries(p, f)'
  BY JoinCarries
<1>10. Remembers(p)'
  BY <1>3, <1>4, RemembersStill
<1> QED
  BY <1>4, <1>5, <1>6, <1>7, <1>8, <1>9, <1>10, FollowsNext

-----------------------------------------------------------------------------
\* A fill loads what the plan says its place holds by then.
LEMMA IssuedIs ==
    ASSUME NEW p, On(p), NEW f \in Fifos, NEW m \in 1..Len(issued[f])
    PROVE  issued[f][m] = p.places[f][m]
BY OnIs DEF FollowsHost

LEMMA FillLoads ==
    ASSUME NEW p, On(p), NEW f \in Fifos, FillMove(f), NEW m, m = Len(sent[f]) + 1
    PROVE  /\ m <= Len(p.hist[f])
           /\ Loaded(f, issued[f][m]) = p.hist[f][m]
<1>1. /\ m \in 1..Len(issued[f]) /\ Len(issued[f]) \in Nat /\ Len(sent[f]) \in Nat
      /\ f \in Filled(D)
  BY OnIs, FillReady DEF FillMove, CanFill
<1>2. PICK e : e = FillEvent(f, m)
  OBVIOUS
<1>3. Ready(p, e)
  BY <1>2, FillReady DEF FillMove
<1>4. ~Happened(e)
  BY <1>1, <1>2, CountIs DEF Happened, FillEvent
<1>5. PICK place, object : place = p.places[f][m] /\ object = p.hist[f][m]
  OBVIOUS
<1>6. issued[f][m] = place
  BY <1>1, <1>5, IssuedIs
<1>7. m \in DOMAIN p.hist[f] /\ m <= Len(p.hist[f])
  <2>1. Len(p.hist[f]) = Len(p.places[f])
    BY <1>1, OnIs DEF IsPlan, MovesKnown
  <2>2. Len(issued[f]) <= Len(p.places[f]) /\ Len(p.hist[f]) \in Nat
        /\ DOMAIN p.hist[f] = 1..Len(p.hist[f])
    BY IssuedBound, OnIs, HistIs
  <2> QED
    BY <1>1, <2>1, <2>2
<1>8. IF f \in DOMAIN D.split
      THEN /\ object = [i \in DOMAIN place |-> object[i]]
           /\ \A i \in DOMAIN place : Reads(D, p, e, place[i], object[i])
      ELSE Reads(D, p, e, place, object)
  <2>1. \A n \in DOMAIN p.hist[f] :
          IF f \in DOMAIN D.split
          THEN /\ p.hist[f][n] = [i \in DOMAIN p.places[f][n] |-> p.hist[f][n][i]]
               /\ \A i \in DOMAIN p.places[f][n] :
                    Reads(D, p, FillEvent(f, n), p.places[f][n][i], p.hist[f][n][i])
          ELSE Reads(D, p, FillEvent(f, n), p.places[f][n], p.hist[f][n])
    <3>1. Histories(D, p)
      BY OnIs DEF IsPlan
    <3> QED
      BY <1>1, <3>1 DEF Histories
  <2> QED
    BY <1>2, <1>5, <1>7, <2>1
<1>9. CASE f \in DOMAIN D.split
  <2>1. \A i \in DOMAIN place : Held(place[i]) = object[i]
    BY <1>3, <1>4, <1>8, <1>9, ReadsNow
  <2>2. [i \in DOMAIN place |-> Held(place[i])] = object
    BY <1>8, <1>9, <2>1
  <2> QED
    BY <1>5, <1>6, <1>7, <1>9, <2>2 DEF Loaded
<1>10. CASE f \notin DOMAIN D.split
  <2>1. Held(place) = object
    BY <1>3, <1>4, <1>8, <1>10, ReadsNow
  <2> QED
    BY <1>5, <1>6, <1>7, <1>10, <2>1 DEF Loaded
<1> QED
  BY <1>9, <1>10

LEMMA FillCarries ==
    ASSUME NEW p, On(p), NEW g \in Fifos, FillMove(g), NEW f \in Fifos
    PROVE  FifoCarries(p, f)'
<1>1. PICK m, e : m = Len(sent[g]) + 1 /\ e = Loaded(g, issued[g][m])
  OBVIOUS
<1>2. Produce({<<g, e>>})
  BY <1>1 DEF FillMove
<1>3. CASE f # g
  BY <1>2, <1>3, ProduceOne, CarryStays
<1>4. CASE f = g
  <2>1. sent'[f] = Append(sent[f], e)
    BY <1>2, <1>4, ProduceOne
  <2>2. m <= Len(p.hist[g]) /\ e = p.hist[g][m]
    BY <1>1, FillLoads
  <2> QED
    BY <1>1, <1>4, <2>1, <2>2, CarryNext
<1> QED
  BY <1>3, <1>4

LEMMA FillOn ==
    ASSUME NEW p, On(p), NEW g \in Fifos, FillMove(g), DataflowInv'
    PROVE  On(p)'
<1>1. PICK Tags, into, from, r : /\ Tags = {<<"fill", g>>}
                                 /\ into = {g} /\ from = {} /\ r = "ddr"
                                 /\ MovedBy(Tags, into, from, r)
  <2>1. MovedBy({<<"fill", g>>}, {g}, {}, "ddr")
    BY OnIs, FillIs DEF MovedBy
  <2> QED
    BY <2>1
<1>3. issued' = issued /\ mem' = mem /\ pc' = pc
  BY DEF FillMove
<1>4. Advances(p, <<"fill", g>>)
  BY FillAdvances
<1>5. ASSUME NEW v \in Workers
      PROVE  CallFollows(p, v)'
  <2>1. <<"kernel", v>> \notin Tags
    BY <1>1
  <2> QED
    BY <1>1, <1>3, <2>1, CallStays
<1>6. ASSUME NEW c \in Children(D.split)
      PROVE  SplitFollows(c)'
  <2>1. <<"split", c>> \notin Tags
    BY <1>1
  <2> QED
    BY <1>1, <2>1, SplitStays
<1>7. ASSUME NEW f \in DOMAIN D.join
      PROVE  JoinFollows(f)'
  <2>1. <<"join", f>> \notin Tags
    BY <1>1
  <2>2. \A c \in Parts(D.join, f) : c \notin from \/ r # "link"
    BY <1>1
  <2>3. MovedBy(Tags, into, from, r)
    BY <1>1
  <2> QED
    BY <2>1, <2>2, <2>3, JoinStays
<1>8. FollowsHost(p)'
  <2>2. ASSUME NEW f \in Filled(D)
        PROVE  Len(sent'[f]) <= Len(issued[f])
    <3>1. CASE f # g
      <4>1. <<"fill", f>> \notin Tags
        BY <1>1, <3>1
      <4> QED
        BY <1>1, <4>1, FillStays
    <3>2. CASE f = g
      <4>1. Len(sent[g]) < Len(issued[g]) /\ Len(sent[g]) \in Nat /\ Len(issued[g]) \in Nat
        BY OnIs DEF FillMove, CanFill
      <4>2. Len(sent'[g]) = Len(sent[g]) + 1
        BY <1>1, OnIs, MoveKeeps DEF MovedBy, Effect
      <4> QED
        BY <3>2, <4>1, <4>2
    <3> QED
      BY <3>1, <3>2
  <2>3. \A f \in DrainedBy(D) : got'[f]["ddr"] <= Len(issued[f])
    BY <1>1, DrainStays
  <2> QED
    BY <1>1, <1>3, <2>2, <2>3, HostStays
<1>9. \A f \in Fifos : FifoCarries(p, f)'
  BY FillCarries
<1>10. Remembers(p)'
  BY <1>3, <1>4, RemembersStill
<1> QED
  BY <1>4, <1>5, <1>6, <1>7, <1>8, <1>9, <1>10, FollowsNext

-----------------------------------------------------------------------------
\* A drain stores the object of its history at the places it was told.
LEMMA DrainStores ==
    ASSUME NEW p, On(p), NEW f \in Fifos, DrainMove(f), NEW m, m = got[f]["ddr"] + 1,
           NEW q \in DOMAIN D.mem
    PROVE  /\ q \notin Targets(D, p, DrainEvent(f, m)) => mem'[q] = mem[q]
           /\ q \in Targets(D, p, DrainEvent(f, m)) =>
                \A new : Writes(D, p, DrainEvent(f, m), q, mem[q], new) => mem'[q] = new
<1>0. PICK place, object : place = p.places[f][m] /\ object = p.hist[f][m]
  OBVIOUS
<1>1. /\ m \in 1..Len(issued[f])
      /\ m \in 1..Len(sent[f])
  BY OnIs DEF DrainMove, CanDrain, HasObject
<1>2. issued[f][m] = place /\ sent[f][m] = object
  BY <1>0, <1>1, IssuedIs, OnIs DEF Carries
<1>3. mem' = Stored(f, place, object)
  BY <1>2 DEF DrainMove, NextObject
<1>4. DOMAIN mem = DOMAIN D.mem /\ mem = [x \in DOMAIN D.mem |-> mem[x]]
  BY OnIs DEF Remembers
<1>5. Targets(D, p, DrainEvent(f, m)) =
        DOMAIN D.mem \cap (IF f \in DOMAIN D.join THEN {place[i] : i \in DOMAIN place}
                                                  ELSE {place})
  BY <1>0 DEF Targets, DrainEvent
<1>6. \A new : Writes(D, p, DrainEvent(f, m), q, mem[q], new) =>
        new = IF f \in DOMAIN D.join THEN object[CHOOSE i \in DOMAIN place : place[i] = q]
                                     ELSE object
  BY <1>0 DEF Writes, DrainEvent
<1>7. CASE f \in DOMAIN D.join
  <2>1. mem' = [x \in DOMAIN mem |-> IF \E i \in DOMAIN place : place[i] = x
                                     THEN object[CHOOSE i \in DOMAIN place : place[i] = x]
                                     ELSE mem[x]]
    BY <1>3, <1>7 DEF Stored
  <2> QED
    BY <1>4, <1>5, <1>6, <1>7, <2>1
<1>8. CASE f \notin DOMAIN D.join
  <2>1. mem' = [mem EXCEPT ![place] = object]
    BY <1>3, <1>8 DEF Stored
  <2> QED
    BY <1>4, <1>5, <1>6, <1>8, <2>1
<1> QED
  BY <1>7, <1>8

LEMMA DrainOn ==
    ASSUME NEW p, On(p), NEW g \in Fifos, DrainMove(g), DataflowInv'
    PROVE  On(p)'
<1>1. PICK Tags, into, from, r : /\ Tags = {}
                                 /\ into = {} /\ from = {g} /\ r = "ddr"
                                 /\ MovedBy(Tags, into, from, r)
  <2>1. MovedBy({}, {}, {g}, "ddr")
    BY OnIs, DrainIs DEF MovedBy
  <2> QED
    BY <2>1
<1>2. /\ \A w \in Workers : w # r
      /\ \A c \in Children(D.split) : c # r
      /\ r # "link"
  BY <1>1, OnIs DEF WellFormed
<1>3. issued' = issued /\ pc' = pc
  BY DEF DrainMove
<1>4. Advances(p, <<"drain", g>>)
  BY DrainAdvances
<1>5. ASSUME NEW v \in Workers
      PROVE  CallFollows(p, v)'
  <2>1. <<"kernel", v>> \notin Tags
    BY <1>1
  <2> QED
    BY <1>1, <1>2, <1>3, <2>1, CallStays
<1>6. ASSUME NEW c \in Children(D.split)
      PROVE  SplitFollows(c)'
  <2>1. <<"split", c>> \notin Tags
    BY <1>1
  <2> QED
    BY <1>1, <1>2, <2>1, SplitStays
<1>7. ASSUME NEW f \in DOMAIN D.join
      PROVE  JoinFollows(f)'
  <2>1. <<"join", f>> \notin Tags
    BY <1>1
  <2>2. \A c \in Parts(D.join, f) : c \notin from \/ r # "link"
    BY <1>2
  <2>3. MovedBy(Tags, into, from, r)
    BY <1>1
  <2> QED
    BY <2>1, <2>2, <2>3, JoinStays
<1>8. FollowsHost(p)'
  <2>1. \A f : <<"fill", f>> \notin Tags
    BY <1>1
  <2>2. \A f \in Filled(D) : Len(sent'[f]) <= Len(issued[f])
    BY <1>1, <2>1, FillStays
  <2>3. ASSUME NEW f \in DrainedBy(D)
        PROVE  got'[f]["ddr"] <= Len(issued[f])
    <3>1. CASE f # g
      BY <1>1, <3>1, DrainStays
    <3>2. CASE f = g
      <4>1. /\ got[g]["ddr"] < Len(issued[g]) /\ "ddr" \in Readers(g)
            /\ got[g]["ddr"] \in Nat /\ Len(issued[g]) \in Nat
        BY OnIs DEF DrainMove, CanDrain
      <4>2. got'[g]["ddr"] = got[g]["ddr"] + 1
        BY <1>1, <4>1, OnIs, MoveKeeps DEF MovedBy, Effect
      <4> QED
        BY <3>2, <4>1, <4>2
    <3> QED
      BY <3>1, <3>2
  <2> QED
    BY <1>1, <1>3, <2>2, <2>3, HostStays
<1>9. \A f \in Fifos : FifoCarries(p, f)'
  BY CarryStays DEF DrainMove
<1>10. Remembers(p)'
  <2>1. PICK m : m = got[g]["ddr"] + 1
    OBVIOUS
  <2>2. <<<<"drain", g>>, Count(<<"drain", g>>) + 1>> = DrainEvent(g, m)
    BY <2>1, CountIs DEF DrainEvent
  <2>3. DOMAIN mem = DOMAIN D.mem
    BY OnIs DEF Remembers
  <2>4. mem' = [q \in DOMAIN D.mem |-> mem'[q]]
    BY <2>3 DEF DrainMove, Stored
  <2>5. \A q \in DOMAIN D.mem :
          /\ q \notin Targets(D, p, DrainEvent(g, m)) => mem'[q] = mem[q]
          /\ q \in Targets(D, p, DrainEvent(g, m)) =>
                \A new : Writes(D, p, DrainEvent(g, m), q, mem[q], new) => mem'[q] = new
    BY <2>1, DrainStores
  <2> QED
    BY <1>4, <2>2, <2>4, <2>5, RemembersNext
<1> QED
  BY <1>4, <1>5, <1>6, <1>7, <1>8, <1>9, <1>10, FollowsNext

-----------------------------------------------------------------------------
\* An operation of the host issues the places of its table, and stores what the
\* plan says.
LEMMA HostIssues ==
    ASSUME NEW p, On(p), Host, NEW f \in Fifos
    PROVE  /\ Len(issued'[f]) = p.told[pc["host"] + 1][f]
           /\ Len(issued[f]) <= Len(issued'[f])
           /\ \A k \in 1..Len(issued'[f]) : issued'[f][k] = p.places[f][k]
<1>0. PICK n, o : n = pc["host"] /\ o = D.host[n]
  OBVIOUS
<1>1. /\ n \in 1..Len(D.host) /\ n \in DOMAIN D.host /\ Len(D.host) \in Nat
      /\ f \in DOMAIN D.depth
  BY <1>0, OnIs, HostSeqIs DEF Host, CanGoOn
<1>2. /\ p.told[n][f] \in Nat
      /\ p.told[n + 1][f] = p.told[n][f] + Tells(o, f)
  <2>1. /\ \A i \in 1..(Len(D.host) + 1) : p.told[i][f] \in Nat
        /\ \A i \in 1..Len(D.host) : p.told[i + 1][f] = p.told[i][f] + Tells(D.host[i], f)
    BY <1>1, OnIs, ToldIs
  <2>2. n \in 1..(Len(D.host) + 1)
    BY <1>1
  <2>3. p.told[n][f] \in Nat
    BY <2>1, <2>2
  <2>4. p.told[n + 1][f] = p.told[n][f] + Tells(D.host[n], f)
    BY <1>1, <2>1
  <2> QED
    BY <1>0, <2>3, <2>4
<1>3. /\ Len(issued[f]) = p.told[n][f]
      /\ \A k \in 1..Len(issued[f]) : issued[f][k] = p.places[f][k]
  BY <1>0, OnIs DEF FollowsHost
<1>4. DOMAIN issued = Fifos
  BY OnIs DEF DataflowInv, TypeOK
<1>5. CASE ~Issues(o, f)
  <2>1. issued'[f] = issued[f]
    BY <1>0, <1>4, <1>5 DEF Host, Issues
  <2>2. Tells(o, f) = 0
    BY <1>5 DEF Tells
  <2> QED
    BY <1>0, <1>2, <1>3, <2>1, <2>2
<1>6. CASE Issues(o, f)
  <2>1. issued'[f] = issued[f] \o o.places
    BY <1>0, <1>4, <1>6 DEF Host, Issues
  <2>2. PICK S, T : issued[f] \in Seq(S) /\ o.places \in Seq(T)
    <3>1. \E S : issued[f] \in Seq(S)
      BY OnIs DEF DataflowInv, IsSeq
    <3>2. \A i \in DOMAIN D.host : D.host[i].op \in {"fill", "drain"} =>
            D.host[i].places \in Seq({D.host[i].places[k] : k \in DOMAIN D.host[i].places})
      BY OnIs DEF WellFormed
    <3>3. o.places \in Seq({o.places[k] : k \in DOMAIN o.places})
      BY <1>0, <1>1, <1>6, <3>2 DEF Issues
    <3> QED
      BY <3>1, <3>3
  <2>3. issued[f] \in Seq(S \cup T) /\ o.places \in Seq(S \cup T)
    BY <2>2, SeqMonotonic
  <2>4. /\ Len(issued[f]) \in Nat
        /\ Len(o.places) \in Nat /\ DOMAIN o.places = 1..Len(o.places)
    BY <2>3, SeqIs
  <2>5. /\ Len(issued'[f]) = Len(issued[f]) + Len(o.places)
        /\ \A k \in 1..(Len(issued[f]) + Len(o.places)) :
              issued'[f][k] = IF k <= Len(issued[f]) THEN issued[f][k]
                                                     ELSE o.places[k - Len(issued[f])]
    <3>1. PICK s, t, X : s = issued[f] /\ t = o.places /\ X = S \cup T
      OBVIOUS
    <3>2. s \in Seq(X) /\ t \in Seq(X)
      BY <2>3, <3>1
    <3>3. /\ Len(s \o t) = Len(s) + Len(t)
          /\ \A k \in 1..(Len(s) + Len(t)) :
                (s \o t)[k] = IF k <= Len(s) THEN s[k] ELSE t[k - Len(s)]
      BY <3>2, ConcatProperties
    <3>4. PICK u : u = issued'[f] /\ u = s \o t
      BY <2>1, <3>1
    <3>5. /\ Len(u) = Len(s) + Len(t)
          /\ \A k \in 1..(Len(s) + Len(t)) :
                u[k] = IF k <= Len(s) THEN s[k] ELSE t[k - Len(s)]
      BY <3>3, <3>4
    <3>6. Len(issued'[f]) = Len(issued[f]) + Len(o.places)
      BY <3>1, <3>4, <3>5
    <3>7. ASSUME NEW k \in 1..(Len(issued[f]) + Len(o.places))
          PROVE  issued'[f][k] = IF k <= Len(issued[f]) THEN issued[f][k]
                                                        ELSE o.places[k - Len(issued[f])]
      BY <3>1, <3>4, <3>5
    <3> QED
      BY <3>6, <3>7
  <2>a. Len(issued'[f]) = Len(issued[f]) + Len(o.places)
    BY <2>5
  <2>6. \A i \in DOMAIN D.host : Issues(D.host[i], f) =>
            \A k \in DOMAIN D.host[i].places :
                p.places[f][p.told[i][f] + k] = D.host[i].places[k]
    <3>1. Tables(D, p)
      BY OnIs DEF IsPlan
    <3> QED
      BY <1>1, <3>1 DEF Tables
  <2>7. \A k \in DOMAIN o.places : p.places[f][p.told[n][f] + k] = o.places[k]
    BY <1>0, <1>1, <1>6, <2>6
  <2>8. ASSUME NEW k \in 1..Len(issued'[f])
        PROVE  issued'[f][k] = p.places[f][k]
    <3>1. k \in 1..(Len(issued[f]) + Len(o.places))
      BY <2>5
    <3>2. CASE k <= Len(issued[f])
      <4>1. k \in 1..Len(issued[f])
        BY <2>4, <3>1, <3>2
      <4> QED
        BY <1>3, <2>5, <3>1, <3>2, <4>1
    <3>3. CASE ~(k <= Len(issued[f]))
      <4>1. PICK j : j = k - Len(issued[f])
        OBVIOUS
      <4>2. j \in 1..Len(o.places) /\ k = p.told[n][f] + j
        <5>1. PICK a, b : a = Len(issued[f]) /\ b = Len(o.places)
          OBVIOUS
        <5>2. a \in Nat /\ b \in Nat /\ k \in 1..(a + b) /\ ~(k <= a) /\ j = k - a
          BY <2>4, <3>1, <3>3, <4>1, <5>1
        <5>3. j \in 1..b /\ k = a + j
          BY <5>2
        <5> QED
          BY <1>3, <5>1, <5>3
      <4>3. p.places[f][p.told[n][f] + j] = o.places[j]
        BY <2>4, <2>7, <4>2
      <4> QED
        BY <2>5, <3>1, <3>3, <4>1, <4>2, <4>3
    <3> QED
      BY <3>2, <3>3
  <2>9. Len(issued[f]) <= Len(issued'[f])
    <3>1. PICK a, b, c : a = Len(issued[f]) /\ b = Len(o.places) /\ c = Len(issued'[f])
      OBVIOUS
    <3>2. a \in Nat /\ b \in Nat /\ c = a + b
      BY <2>4, <2>a, <3>1
    <3>3. a <= c
      BY <3>2
    <3> QED
      BY <3>1, <3>3
  <2>10. Tells(o, f) = Len(o.places)
    BY <1>6 DEF Tells
  <2> QED
    BY <1>0, <1>2, <1>3, <2>10, <2>a, <2>8, <2>9
<1> QED
  BY <1>5, <1>6

LEMMA HostStores ==
    ASSUME NEW p, On(p), Host, NEW n, n = pc["host"], NEW q \in DOMAIN D.mem
    PROVE  /\ q \notin Targets(D, p, HostEvent(n)) => mem'[q] = mem[q]
           /\ q \in Targets(D, p, HostEvent(n)) =>
                \A new : Writes(D, p, HostEvent(n), q, mem[q], new) => mem'[q] = new
<1>0. PICK o, e : o = D.host[n] /\ e = HostEvent(n)
  OBVIOUS
<1>1. mem' = Written(o)
  BY <1>0 DEF Host
<1>2. DOMAIN mem = DOMAIN D.mem /\ mem = [x \in DOMAIN D.mem |-> mem[x]]
  BY OnIs DEF Remembers
<1>3. Targets(D, p, e) = DOMAIN D.mem \cap (CASE o.op = "write" -> DOMAIN o.values
                                              [] o.op = "append" -> DOMAIN o.from
                                              [] OTHER -> {})
  BY <1>0 DEF Targets, HostEvent
<1>4. ASSUME NEW new, Writes(D, p, e, q, mem[q], new)
      PROVE  IF o.op = "write" THEN new = o.values[q]
             ELSE /\ o.from[q] \in DOMAIN D.mem
                  /\ \E object : Reads(D, p, e, o.from[q], object)
                                 /\ new = Append(mem[q], object)
  BY <1>0, <1>4 DEF Writes, HostEvent
<1>5. Ready(p, e) /\ ~Happened(e)
  <2>1. Ready(p, e)
    BY <1>0, HostReady DEF Host
  <2>2. pc["host"] \in Nat
    BY OnIs, HostSeqIs DEF FollowsHost
  <2>3. ~Happened(e)
    BY <1>0, <2>2, CountIs DEF Happened, HostEvent
  <2> QED
    BY <2>1, <2>3
<1>6. CASE o.op = "write"
  <2>1. mem' = [x \in DOMAIN mem |-> IF x \in DOMAIN o.values THEN o.values[x] ELSE mem[x]]
    BY <1>1, <1>6 DEF Written
  <2> QED
    BY <1>0, <1>2, <1>3, <1>4, <1>6, <2>1
<1>7. CASE o.op = "append"
  <2>1. mem' = [x \in DOMAIN mem |-> IF x \in DOMAIN o.from
                                     THEN Append(mem[x], mem[o.from[x]]) ELSE mem[x]]
    BY <1>1, <1>7 DEF Written
  <2>2. mem'[q] = IF q \in DOMAIN o.from THEN Append(mem[q], mem[o.from[q]]) ELSE mem[q]
    BY <1>2, <2>1
  <2>3. q \in Targets(D, p, e) <=> q \in DOMAIN o.from
    BY <1>3, <1>7
  <2>4. ASSUME NEW new, Writes(D, p, e, q, mem[q], new)
        PROVE  new = Append(mem[q], mem[o.from[q]])
    <3>1. PICK object : /\ o.from[q] \in DOMAIN D.mem
                        /\ Reads(D, p, e, o.from[q], object)
                        /\ new = Append(mem[q], object)
      BY <1>4, <1>7, <2>4
    <3>2. Held(o.from[q]) = object
      BY <1>5, <3>1, ReadsNow
    <3> QED
      BY <1>2, <3>1, <3>2 DEF Held
  <2> QED
    BY <1>0, <2>2, <2>3, <2>4
<1>8. CASE o.op \notin {"write", "append"}
  BY <1>0, <1>1, <1>3, <1>8 DEF Written
<1> QED
  BY <1>6, <1>7, <1>8

LEMMA HostOn ==
    ASSUME NEW p, On(p), Host, DataflowInv'
    PROVE  On(p)'
<1>1. PICK Tags, into, from, r : /\ Tags = {}
                                 /\ into = {} /\ from = {} /\ r = "ddr"
                                 /\ MovedBy(Tags, into, from, r)
  <2>1. MovedBy({}, {}, {}, "ddr")
    BY OnIs, HostIs DEF MovedBy
  <2> QED
    BY <2>1
<1>2. D' = D /\ Fifos' = Fifos
  BY <1>1, SameDesign DEF MovedBy, Moved
<1>3. pc["host"] \in 1..Len(D.host) /\ Len(D.host) \in Nat
  BY OnIs, HostSeqIs DEF Host, CanGoOn
<1>a. pc'["host"] = pc["host"] + 1 /\ (\A b : b # "host" => pc'[b] = pc[b])
  BY OnIs DEF Host, DataflowInv, TypeOK
<1>4. Advances(p, <<"host", "host">>)
  BY HostAdvances
<1>5. ASSUME NEW v \in Workers
      PROVE  CallFollows(p, v)'
  <2>1. <<"kernel", v>> \notin Tags /\ \A f \in from : v # r
    BY <1>1
  <2>2. pc'[v] = pc[v]
    BY <1>a, OnIs DEF WellFormed
  <2> QED
    BY <1>1, <2>1, <2>2, CallStays
<1>6. ASSUME NEW c \in Children(D.split)
      PROVE  SplitFollows(c)'
  <2>1. <<"split", c>> \notin Tags /\ \A f \in from : c # r
    BY <1>1
  <2> QED
    BY <1>1, <2>1, SplitStays
<1>7. ASSUME NEW f \in DOMAIN D.join
      PROVE  JoinFollows(f)'
  <2>1. <<"join", f>> \notin Tags
    BY <1>1
  <2>2. \A c \in Parts(D.join, f) : c \notin from \/ r # "link"
    BY <1>1
  <2>3. MovedBy(Tags, into, from, r)
    BY <1>1
  <2> QED
    BY <2>1, <2>2, <2>3, JoinStays
<1>8. FollowsHost(p)'
  <2>1. pc'["host"] \in 1..(Len(D.host) + 1)
    BY <1>3, <1>a
  <2>2. \A f \in Fifos : /\ Len(issued'[f]) = p.told[pc'["host"]][f]
                         /\ \A n \in 1..Len(issued'[f]) : issued'[f][n] = p.places[f][n]
    BY <1>a, HostIssues
  <2>3. ASSUME NEW f \in Filled(D)
        PROVE  Len(sent'[f]) <= Len(issued'[f])
    <3>1. f \in Fifos
      BY OnIs DEF WellFormed
    <3>2. Len(sent[f]) <= Len(issued[f]) /\ Len(sent[f]) \in Nat /\ Len(issued[f]) \in Nat
      BY <3>1, OnIs DEF FollowsHost
    <3>3. Len(issued[f]) <= Len(issued'[f]) /\ sent'[f] = sent[f]
      BY <3>1, HostIssues DEF Host
    <3>4. Len(issued'[f]) \in Nat
      <4>1. Len(issued'[f]) = p.told[pc'["host"]][f]
        BY <2>2, <3>1
      <4>2. \A i \in 1..(Len(D.host) + 1) : p.told[i][f] \in Nat
        BY <3>1, ToldIs, OnIs
      <4> QED
        BY <2>1, <4>1, <4>2
    <3> QED
      BY <3>2, <3>3, <3>4
  <2>4. ASSUME NEW f \in DrainedBy(D)
        PROVE  got'[f]["ddr"] <= Len(issued'[f])
    <3>1. f \in Fifos /\ "ddr" \in Readers(f)
      BY OnIs DEF WellFormed, ReadersOf
    <3>2. got[f]["ddr"] <= Len(issued[f]) /\ got[f]["ddr"] \in Nat /\ Len(issued[f]) \in Nat
      BY <3>1, OnIs DEF FollowsHost
    <3>3. Len(issued[f]) <= Len(issued'[f]) /\ got'[f] = got[f]
      BY <3>1, HostIssues DEF Host
    <3>4. Len(issued'[f]) \in Nat
      <4>1. Len(issued'[f]) = p.told[pc'["host"]][f]
        BY <2>2, <3>1
      <4>2. \A i \in 1..(Len(D.host) + 1) : p.told[i][f] \in Nat
        BY <3>1, ToldIs, OnIs
      <4> QED
        BY <2>1, <4>1, <4>2
    <3> QED
      BY <3>2, <3>3, <3>4
  <2> QED
    BY <1>2, <2>1, <2>2, <2>3, <2>4 DEF FollowsHost
<1>9. \A f \in Fifos : FifoCarries(p, f)'
  BY CarryStays DEF Host
<1>10. Remembers(p)'
  <2>1. PICK n : n = pc["host"]
    OBVIOUS
  <2>2. <<<<"host", "host">>, Count(<<"host", "host">>) + 1>> = HostEvent(n)
    BY <1>3, <2>1, CountIs DEF HostEvent
  <2>3. DOMAIN mem = DOMAIN D.mem /\ mem = [q \in DOMAIN D.mem |-> mem[q]]
    BY OnIs DEF Remembers
  <2>4. mem' = [q \in DOMAIN D.mem |-> mem'[q]]
    BY <2>3 DEF Host, Written
  <2>5. \A q \in DOMAIN D.mem :
          /\ q \notin Targets(D, p, HostEvent(n)) => mem'[q] = mem[q]
          /\ q \in Targets(D, p, HostEvent(n)) =>
                \A new : Writes(D, p, HostEvent(n), q, mem[q], new) => mem'[q] = new
    BY <2>1, HostStores
  <2> QED
    BY <1>4, <2>2, <2>4, <2>5, RemembersNext
<1> QED
  BY <1>4, <1>5, <1>6, <1>7, <1>8, <1>9, <1>10, FollowsNext

-----------------------------------------------------------------------------
\* Before the first move nothing has happened.
LEMMA InitIs ==
    ASSUME Init
    PROVE  /\ DataflowInv
           /\ WellFormed(D)
           /\ Fifos = DOMAIN D.depth
           /\ Workers = DOMAIN D.prog
           /\ \A f \in Fifos : Readers(f) = ReadersOf(D, f)
           /\ \A w \in Workers : pc[w] = 1
           /\ pc["host"] = 1
           /\ \A f \in Fifos : sent[f] = <<>> /\ Len(sent[f]) = 0
           /\ \A f \in Fifos : issued[f] = <<>> /\ Len(issued[f]) = 0
           /\ \A f \in Fifos : \A r \in Readers(f) : got[f][r] = 0
           /\ mem = D.mem
<1>1. DataflowInv /\ design \in DOMAIN Designs
  BY DataflowInit DEF DataflowInv, TypeOK
<1>2. Len(<<>>) = 0
  BY EmptySeq
<1>3. WellFormed(D) /\ \A f \in Fifos : Readers(f) = ReadersOf(D, f)
  BY <1>1, DesignIs, ReadersAre
<1>4. /\ \A w \in Workers : pc[w] = 1
      /\ pc["host"] = 1
      /\ \A f \in Fifos : sent[f] = <<>>
      /\ \A f \in Fifos : issued[f] = <<>>
      /\ \A f \in Fifos : \A r \in Readers(f) : got[f][r] = 0
      /\ mem = D.mem
  BY DEF Init
<1> QED
  BY <1>1, <1>2, <1>3, <1>4 DEF Fifos, Workers

LEMMA InitCount ==
    ASSUME Init, NEW b \in ActorsOf(D)
    PROVE  Count(b) = 0
<1>1. ASSUME NEW w \in DOMAIN D.prog
      PROVE  Count(<<"kernel", w>>) = 0
  <2>1. pc[w] = 1
    BY InitIs
  <2> QED
    BY <2>1, CountIs
<1>2. ASSUME NEW c \in Children(D.split)
      PROVE  Count(<<"split", c>>) = 0
  <2>1. c \in Fifos
    BY InitIs DEF WellFormed
  <2>2. Len(sent[c]) = 0
    BY <2>1, InitIs
  <2> QED
    BY <2>2, CountIs
<1>3. ASSUME NEW c \in Children(D.join)
      PROVE  Count(<<"join", c>>) = 0
  <2>1. c \in Fifos /\ "link" \in Readers(c)
    BY InitIs DEF WellFormed, ReadersOf
  <2>2. got[c]["link"] = 0
    BY <2>1, InitIs
  <2> QED
    BY <2>2, CountIs
<1>4. ASSUME NEW f \in Filled(D)
      PROVE  Count(<<"fill", f>>) = 0
  <2>1. f \in Fifos
    BY InitIs DEF WellFormed
  <2>2. Len(sent[f]) = 0
    BY <2>1, InitIs
  <2> QED
    BY <2>2, CountIs
<1>5. ASSUME NEW f \in DrainedBy(D)
      PROVE  Count(<<"drain", f>>) = 0
  <2>1. f \in Fifos /\ "ddr" \in Readers(f)
    BY InitIs DEF WellFormed, ReadersOf
  <2>2. got[f]["ddr"] = 0
    BY <2>1, InitIs
  <2> QED
    BY <2>2, CountIs
<1>6. Count(<<"host", "host">>) = 0
  BY InitIs, CountIs
<1> QED
  BY <1>1, <1>2, <1>3, <1>4, <1>5, <1>6, ActorIs

LEMMA InitHappened ==
    ASSUME Init, NEW p, IsPlan(D, p), NEW e \in Events(D, p)
    PROVE  ~Happened(e)
<1>1. e[1] \in ActorsOf(D) /\ e[2] \in 1..p.moves[e[1]]
  BY EventIs
<1>2. p.moves[e[1]] \in Nat
  BY <1>1 DEF IsPlan, MovesKnown
<1>3. Count(e[1]) = 0
  BY <1>1, InitCount
<1> QED
  BY <1>1, <1>2, <1>3 DEF Happened

LEMMA InitOn ==
    ASSUME Init, NEW p, IsPlan(D, p)
    PROVE  On(p)
<1>1. FollowsCalls(p)
  <2> SUFFICES ASSUME NEW w \in Workers
               PROVE  /\ pc[w] \in 1..(Len(D.prog[w]) + 1)
                      /\ \A f \in Fifos : w \in Readers(f) => got[f][w] = p.taken[w][pc[w]][f]
                      /\ \A f \in Fifos : <<"kernel", w>> \in Producers(D, f) =>
                            Len(sent[f]) = p.made[w][pc[w]][f]
    BY DEF FollowsCalls
  <2>1. w \in DOMAIN D.prog /\ pc[w] = 1
    BY InitIs
  <2>2. Len(D.prog[w]) \in Nat
    BY <2>1, ProgramIs
  <2>3. \A f \in Fifos : p.taken[w][1][f] = 0 /\ p.made[w][1][f] = 0
    BY <2>1, InitIs, TakenIs, MadeIs
  <2> QED
    BY <2>1, <2>2, <2>3, InitIs
<1>2. FollowsLinks
  <2>1. ASSUME NEW c \in Children(D.split)
        PROVE  Len(sent[c]) = got[ParentOf(D.split, c)][c]
    <3>1. PICK parent : parent = ParentOf(D.split, c)
      OBVIOUS
    <3>2. parent \in DOMAIN D.split /\ c \in Parts(D.split, parent)
      BY <3>1, ChildIs
    <3>3. c \in Fifos /\ parent \in Fifos /\ c \in Readers(parent)
      BY <3>2, InitIs DEF WellFormed, ReadersOf
    <3> QED
      BY <3>1, <3>3, InitIs
  <2>2. ASSUME NEW f \in DOMAIN D.join, NEW b \in Parts(D.join, f)
        PROVE  Len(sent[f]) = got[b]["link"]
    <3>1. f \in Fifos /\ b \in Fifos /\ b \in Children(D.join)
      BY InitIs DEF WellFormed, Children
    <3>2. "link" \in Readers(b)
      BY <3>1, InitIs DEF ReadersOf
    <3> QED
      BY <3>1, <3>2, InitIs
  <2> QED
    BY <2>1, <2>2 DEF FollowsLinks
<1>3. FollowsHost(p)
  <2>1. Len(D.host) \in Nat /\ pc["host"] = 1
    BY HostSeqIs, InitIs
  <2>2. \A f \in Fifos : p.told[1][f] = 0
    BY ToldIs, InitIs
  <2>3. \A f \in Filled(D) : Len(sent[f]) = 0 /\ Len(issued[f]) = 0
    BY InitIs DEF WellFormed
  <2>4. \A f \in DrainedBy(D) : got[f]["ddr"] = 0 /\ Len(issued[f]) = 0
    BY InitIs DEF WellFormed, ReadersOf
  <2> QED
    BY <2>1, <2>2, <2>3, <2>4, InitIs DEF FollowsHost
<1>4. Carries(p)
  <2>1. ASSUME NEW f \in Fifos
        PROVE  Len(sent[f]) = 0 /\ Len(p.hist[f]) \in Nat
    BY HistIs, InitIs
  <2> QED
    BY <2>1 DEF Carries
<1>5. Ordered(p)
  BY InitHappened DEF Ordered
<1>6. Remembers(p)
  <2>1. Values(D, p)
    BY DEF IsPlan
  <2>2. mem = [q \in DOMAIN D.mem |-> mem[q]]
    BY <2>1, InitIs DEF Values
  <2>3. ASSUME NEW q \in DOMAIN D.mem
        PROVE  0 \in 0..Len(p.writes[q]) /\ AtVersion(p, q, 0)
    <3>1. p.writes[q] \in Seq(Events(D, p)) /\ p.values[q][1] = D.mem[q]
      BY <2>1 DEF Values
    <3>2. Len(p.writes[q]) \in Nat
          /\ \A j \in 1..Len(p.writes[q]) : p.writes[q][j] \in Events(D, p)
      BY <3>1, SeqIs, ElementOfSeq
    <3>3. \A j \in 1..Len(p.writes[q]) : ~Happened(p.writes[q][j]) /\ ~(j <= 0)
      BY <3>2, InitHappened
    <3> QED
      BY <3>1, <3>2, <3>3, InitIs DEF AtVersion
  <2> QED
    BY <2>2, <2>3 DEF Remembers
<1> QED
  BY <1>1, <1>2, <1>3, <1>4, <1>5, <1>6, InitIs DEF On, Follows

\* Every step keeps the run on its plan.
LEMMA StepOn ==
    ASSUME NEW p, On(p), [Next]_vars
    PROVE  On(p)'
<1>0. DataflowInv'
  BY DataflowStep DEF On
<1>1. ASSUME NEW w \in Workers, Kernel(w)
      PROVE  On(p)'
  BY <1>0, <1>1, KernelOn
<1>2. ASSUME NEW c \in Children(D.split), SplitMove(c)
      PROVE  On(p)'
  BY <1>0, <1>2, SplitOn
<1>3. ASSUME NEW c \in Children(D.join), JoinMove(c)
      PROVE  On(p)'
  BY <1>0, <1>3, JoinOn
<1>4. ASSUME NEW f \in Fifos, FillMove(f)
      PROVE  On(p)'
  BY <1>0, <1>4, FillOn
<1>5. ASSUME NEW f \in Fifos, DrainMove(f)
      PROVE  On(p)'
  BY <1>0, <1>5, DrainOn
<1>6. CASE Host
  BY <1>0, <1>6, HostOn
<1>7. CASE UNCHANGED vars
  <2>1. D' = D /\ Fifos' = Fifos /\ Workers' = Workers /\ \A f : Readers(f)' = Readers(f)
    BY <1>7, SameDesign DEF vars
  <2>2. design' = design /\ pc' = pc /\ sent' = sent /\ got' = got /\ issued' = issued
        /\ mem' = mem
    BY <1>7 DEF vars
  <2>3. \A b : Count(b)' = Count(b)
    BY <2>2 DEF Count
  <2>4. \A e : Happened(e)' <=> Happened(e)
    BY <2>3 DEF Happened
  <2>5. FollowsCalls(p)' /\ FollowsLinks' /\ FollowsHost(p)' /\ Carries(p)'
    BY <2>1, <2>2, OnIs DEF FollowsCalls, FollowsLinks, FollowsHost, Carries
  <2>6. Ordered(p)'
    BY <2>1, <2>3, <2>4, OnIs DEF Ordered
  <2>7. Remembers(p)'
    BY <2>1, <2>2, <2>4, OnIs DEF Remembers, AtVersion
  <2> QED
    BY <1>0, <2>1, <2>5, <2>6, <2>7, OnIs DEF On, Follows
<1> QED
  BY <1>1, <1>2, <1>3, <1>4, <1>5, <1>6, <1>7 DEF Next

LEMMA PlanInit == Init /\ HasPlan => PlanInv
<1> SUFFICES ASSUME Init, HasPlan PROVE PlanInv
  OBVIOUS
<1>1. PICK p : IsPlan(D, p)
  BY DEF HasPlan
<1> QED
  BY <1>1, InitOn DEF On, PlanInv

LEMMA PlanStep == DataflowInv /\ PlanInv /\ [Next]_vars => PlanInv'
<1> SUFFICES ASSUME DataflowInv, PlanInv, [Next]_vars PROVE PlanInv'
  OBVIOUS
<1>1. PICK p : IsPlan(D, p) /\ Follows(p)
  BY DEF PlanInv
<1>2. On(p)'
  BY <1>1, StepOn DEF On
<1>3. IsPlan(D, p)' /\ Follows(p)'
  BY <1>2 DEF On
<1> QED
  BY <1>3 DEF PlanInv

-----------------------------------------------------------------------------
\* What a run on its plan does.
LEMMA OnOperands ==
    ASSUME NEW p, On(p)
    PROVE  OperandsMatch
<1> SUFFICES ASSUME NEW w \in Workers, pc[w] \in DOMAIN D.prog[w],
                    NEW port \in NextCall(w).in, HasObject(port[1], w)
             PROVE  NextObject(port[1], w) = port[2]
  BY DEF OperandsMatch
<1>1. PICK f, i, call : f = port[1] /\ i = pc[w] /\ call = D.prog[w][i]
  OBVIOUS
<1>2. /\ w \in DOMAIN D.prog /\ i \in DOMAIN D.prog[w] /\ port \in call.in
      /\ call \in Calls(D, w) /\ f \in Names(call.in)
  BY <1>1, OnIs DEF NextCall, Calls, Names
<1>3. f \in Fifos /\ w \in Readers(f)
  BY <1>2, OnIs DEF WellFormed, ReadersOf
<1>4. got[f][w] = p.taken[w][i][f] /\ got[f][w] \in Nat /\ Len(sent[f]) \in Nat
      /\ got[f][w] < Len(sent[f])
  <2>1. got[f][w] = p.taken[w][pc[w]][f]
    <3>1. FollowsCalls(p)
      BY OnIs
    <3> QED
      BY <1>3, <3>1 DEF FollowsCalls
  <2>2. got[f][w] < Len(sent[f])
    BY <1>1 DEF HasObject
  <2>3. got[f][w] \in Nat /\ Len(sent[f]) \in Nat
    BY <1>3, OnIs
  <2> QED
    BY <1>1, <2>1, <2>2, <2>3
<1>5. p.hist[f][got[f][w] + 1] = port[2]
  <2>1. \A v \in DOMAIN D.prog : \A k \in DOMAIN D.prog[v] : \A q \in D.prog[v][k].in :
            p.hist[q[1]][p.taken[v][k][q[1]] + 1] = q[2]
    <3>1. Histories(D, p)
      BY OnIs DEF IsPlan
    <3> QED
      BY <3>1 DEF Histories
  <2> QED
    BY <1>1, <1>2, <1>4, <2>1
<1>6. got[f][w] + 1 \in 1..Len(sent[f])
  BY <1>4
<1>7. sent[f][got[f][w] + 1] = p.hist[f][got[f][w] + 1]
  BY <1>3, <1>6, OnIs DEF Carries
<1> QED
  BY <1>1, <1>5, <1>7 DEF NextObject

LEMMA HostHappened ==
    ASSUME NEW p, On(p), NEW n \in DOMAIN D.host, n < pc["host"]
    PROVE  HostEvent(n) \in Events(D, p) /\ Happened(HostEvent(n))
<1>1. n \in 1..Len(D.host) /\ Len(D.host) \in Nat
      /\ p.moves[<<"host", "host">>] = Len(D.host)
  BY OnIs, HostSeqIs
<1>2. <<"host", "host">> \in ActorsOf(D)
  BY DEF ActorsOf
<1>3. HostEvent(n) \in Events(D, p)
  BY <1>1, <1>2, EventIs DEF HostEvent
<1>4. pc["host"] \in 1..(Len(D.host) + 1)
  BY OnIs DEF FollowsHost
<1>5. Happened(HostEvent(n))
  BY <1>1, <1>4, CountIs DEF Happened, HostEvent
<1> QED
  BY <1>3, <1>5

LEMMA OnReturn ==
    ASSUME NEW p, On(p)
    PROVE  ReturnMeansDone
<1> SUFFICES ASSUME Returned > 0, NEW w \in Workers, NEW i \in pc[w]..D.ends[w][Returned],
                    D.prog[w][i].out # {}
             PROVE  FALSE
  BY DEF ReturnMeansDone
<1>1. PICK n : n = pc["host"]
  OBVIOUS
<1>2. n \in 1..(Len(D.host) + 1) /\ Len(D.host) \in Nat /\ w \in DOMAIN D.prog
  BY <1>1, OnIs, HostSeqIs DEF FollowsHost
<1>3. Returned = Cardinality({k \in DOMAIN D.host : k < n /\ D.host[k].op = "return"})
  BY <1>1 DEF Returned
<1>4. /\ D.ends[w][Returned] \in 0..Len(D.prog[w])
      /\ \A k \in 1..D.ends[w][Returned] :
            \/ D.prog[w][k].out = {}
            \/ \E h \in DOMAIN D.host : h < n /\ Before(p, KernelEvent(w, k), HostEvent(h))
  <2>1. Returns(D, p)
    BY OnIs DEF IsPlan
  <2> QED
    BY <1>2, <1>3, <2>1 DEF Returns
<1>5. pc[w] \in 1..(Len(D.prog[w]) + 1) /\ Len(D.prog[w]) \in Nat
      /\ p.moves[<<"kernel", w>>] = Len(D.prog[w])
  BY CallIs, OnIs, ProgramIs
<1>6. i \in Nat /\ 1 <= i /\ pc[w] <= i /\ i \in 1..D.ends[w][Returned] /\ i \in 1..Len(D.prog[w])
  BY <1>4, <1>5
<1>7. PICK h \in DOMAIN D.host : h < n /\ Before(p, KernelEvent(w, i), HostEvent(h))
  BY <1>4, <1>6
<1>8. HostEvent(h) \in Events(D, p) /\ Happened(HostEvent(h))
  BY <1>1, <1>7, HostHappened
<1>9. KernelEvent(w, i) \in Events(D, p)
  <2>1. <<"kernel", w>> \in ActorsOf(D)
    BY <1>2 DEF ActorsOf
  <2> QED
    BY <1>5, <1>6, <2>1, EventIs DEF KernelEvent
<1>10. Happened(KernelEvent(w, i))
  BY <1>7, <1>8, <1>9, BeforeHappened
<1>11. i <= pc[w] - 1
  BY <1>10, CountIs DEF Happened, KernelEvent
<1> QED
  BY <1>5, <1>6, <1>11

LEMMA OnResults ==
    ASSUME NEW p, On(p)
    PROVE  ResultsInPlace
<1> SUFFICES ASSUME HostDone PROVE mem = D.result
  BY DEF ResultsInPlace
<1>1. ASSUME NEW q \in DOMAIN D.mem
      PROVE  mem[q] = D.result[q]
  <2>1. PICK v \in 0..Len(p.writes[q]) : AtVersion(p, q, v)
    BY OnIs DEF Remembers
  <2>2. /\ Len(p.writes[q]) \in Nat
        /\ \A j \in 1..Len(p.writes[q]) : p.writes[q][j] \in Events(D, p)
    BY WritesAre
  <2>3. ASSUME NEW j \in 1..Len(p.writes[q])
        PROVE  Happened(p.writes[q][j])
    <3>1. PICK n \in DOMAIN D.host : \/ p.writes[q][j] = HostEvent(n)
                                     \/ Before(p, p.writes[q][j], HostEvent(n))
      BY WriteIs
    <3>2. n < pc["host"]
      BY OnIs, HostSeqIs DEF HostDone, FollowsHost
    <3>3. HostEvent(n) \in Events(D, p) /\ Happened(HostEvent(n))
      BY <3>2, HostHappened
    <3> QED
      BY <2>2, <3>1, <3>3, BeforeHappened
  <2>4. v = Len(p.writes[q])
    <3>1. CASE Len(p.writes[q]) = 0
      BY <2>2, <3>1
    <3>2. CASE Len(p.writes[q]) # 0
      <4>1. Len(p.writes[q]) \in 1..Len(p.writes[q])
        BY <2>2, <3>2
      <4>2. Len(p.writes[q]) <= v
        BY <2>1, <2>3, <4>1 DEF AtVersion
      <4> QED
        BY <2>2, <4>2
    <3> QED
      BY <3>1, <3>2
  <2>5. p.values[q][Len(p.writes[q]) + 1] = D.result[q]
    BY OnIs DEF IsPlan, Values
  <2> QED
    BY <2>1, <2>4, <2>5 DEF AtVersion
<1>2. D.result = [q \in DOMAIN D.mem |-> D.result[q]]
  BY OnIs DEF IsPlan, Values
<1>3. mem = [q \in DOMAIN D.mem |-> mem[q]]
  BY OnIs DEF Remembers
<1>4. [q \in DOMAIN D.mem |-> mem[q]] = [q \in DOMAIN D.mem |-> D.result[q]]
  BY <1>1
<1> QED
  BY <1>2, <1>3, <1>4

LEMMA PlanShows ==
    DataflowInv /\ PlanInv => OperandsMatch /\ ResultsInPlace /\ ReturnMeansDone
<1> SUFFICES ASSUME DataflowInv, PlanInv
             PROVE  OperandsMatch /\ ResultsInPlace /\ ReturnMeansDone
  OBVIOUS
<1>1. PICK p : On(p)
  BY DEF PlanInv, On
<1> QED
  BY <1>1, OnOperands, OnResults, OnReturn

\* Every call finds the operands it is written for, in any design with a plan
\* and under every schedule of its workers, links, DMAs and host.
THEOREM DataflowOperandsMatch == HasPlan /\ Spec => []OperandsMatch
<1>1. DataflowInv /\ PlanInv => OperandsMatch
  BY PlanShows
<1> QED
  BY <1>1, DataflowInit, DataflowStep, PlanInit, PlanStep, PTL DEF Spec

\* Whatever the schedule, the host finds the results of the design in DDR.
THEOREM DataflowResultsInPlace == HasPlan /\ Spec => []ResultsInPlace
<1>1. DataflowInv /\ PlanInv => ResultsInPlace
  BY PlanShows
<1> QED
  BY <1>1, DataflowInit, DataflowStep, PlanInit, PlanStep, PTL DEF Spec

\* Whatever the schedule, nothing that a dispatch computes is still to come
\* when it has returned.
THEOREM DataflowReturnMeansDone == HasPlan /\ Spec => []ReturnMeansDone
<1>1. DataflowInv /\ PlanInv => ReturnMeansDone
  BY PlanShows
<1> QED
  BY <1>1, DataflowInit, DataflowStep, PlanInit, PlanStep, PTL DEF Spec

-----------------------------------------------------------------------------
\* A next event whose needs have happened can happen.
LEMMA LeastRank ==
    ASSUME NEW T \in SUBSET Nat, T # {}
    PROVE  \E x \in T : \A y \in T : x <= y
<1>1. PICK x \in T : \A y \in T : ~(<<y, x>> \in OpToRel(<, Nat))
  BY WFMin, NatLessThanWellFounded, Zenon
<1> SUFFICES ASSUME NEW y \in T PROVE x <= y
  OBVIOUS
<1>2. <<y, x>> \in Nat \X Nat /\ <<y, x>>[1] = y /\ <<y, x>>[2] = x
  OBVIOUS
<1>3. ~(y < x)
  BY <1>1, <1>2 DEF OpToRel
<1> QED
  BY <1>3

\* Once the events that bring an object have happened, it is there.
LEMMA HappenedMade ==
    ASSUME NEW p, On(p), NEW f \in Fifos, NEW n \in Nat, 1 <= n, n <= Len(p.hist[f]),
           \A c \in Making(D, p, f, n) : Happened(c)
    PROVE  n <= Len(sent[f])
<1>0. Len(sent[f]) \in Nat /\ f \in DOMAIN D.depth
  BY OnIs
<1>1. PICK c : c \in Making(D, p, f, n)
  <2>1. Ranks(D, p) /\ Len(p.hist[f]) \in Nat /\ DOMAIN p.hist[f] = 1..Len(p.hist[f])
    BY <1>0, OnIs, HistIs DEF IsPlan
  <2>2. n \in DOMAIN p.hist[f]
    BY <2>1
  <2>3. \A m \in DOMAIN p.hist[f] : Making(D, p, f, m) # {}
    BY <1>0, <2>1 DEF Ranks
  <2> QED
    BY <2>2, <2>3
<1>2. Happened(c)
  BY <1>1
<1>3. CASE \E w \in DOMAIN D.prog : \E i \in DOMAIN D.prog[w] :
               /\ c = KernelEvent(w, i)
               /\ p.made[w][i][f] < n
               /\ n <= p.made[w][i + 1][f]
  <2>0. PICK w \in DOMAIN D.prog : \E i \in DOMAIN D.prog[w] :
            /\ c = KernelEvent(w, i)
            /\ p.made[w][i][f] < n
            /\ n <= p.made[w][i + 1][f]
    BY <1>3
  <2>1. PICK i \in DOMAIN D.prog[w] : /\ c = KernelEvent(w, i)
                                      /\ p.made[w][i][f] < n
                                      /\ n <= p.made[w][i + 1][f]
    BY <2>0
  <2>2. i \in 1..Len(D.prog[w]) /\ Len(D.prog[w]) \in Nat /\ w \in Workers
    BY <2>1, OnIs, ProgramIs
  <2>3. /\ \A k \in 1..(Len(D.prog[w]) + 1) : p.made[w][k][f] \in Nat
        /\ p.made[w][i + 1][f] =
               p.made[w][i][f] + (IF f \in Names(D.prog[w][i].out) THEN 1 ELSE 0)
        /\ \A k, j \in 1..(Len(D.prog[w]) + 1) :
                k <= j => p.made[w][k][f] <= p.made[w][j][f]
    BY <1>0, <2>2, MadeIs, OnIs
  <2>4. p.made[w][i][f] \in Nat /\ p.made[w][i + 1][f] \in Nat
    BY <2>2, <2>3
  <2>5. f \in Names(D.prog[w][i].out)
    BY <2>1, <2>3, <2>4
  <2>6. <<"kernel", w>> \in Producers(D, f)
    BY <2>1, <2>5 DEF Producers, Calls
  <2>7. Len(sent[f]) = p.made[w][pc[w]][f] /\ pc[w] \in 1..(Len(D.prog[w]) + 1)
    BY <2>2, <2>6, OnIs DEF FollowsCalls
  <2>8. i + 1 <= pc[w]
    <3>1. i <= pc[w] - 1
      BY <1>2, <2>1, CountIs DEF Happened, KernelEvent
    <3> QED
      BY <2>2, <2>7, <3>1
  <2>9. i + 1 \in 1..(Len(D.prog[w]) + 1)
    BY <2>2
  <2>10. p.made[w][i + 1][f] <= p.made[w][pc[w]][f]
    BY <2>3, <2>7, <2>8, <2>9
  <2> QED
    BY <1>0, <2>1, <2>4, <2>7, <2>10
<1>4. CASE c = SplitEvent(f, n) \/ c = FillEvent(f, n)
  BY <1>2, <1>4, CountIs DEF Happened, SplitEvent, FillEvent
<1>5. CASE f \in DOMAIN D.join /\ \E b \in Parts(D.join, f) : c = JoinEvent(b, n)
  <2>1. PICK b \in Parts(D.join, f) : Len(sent[f]) = got[b]["link"]
    BY <1>5, OnIs DEF FollowsLinks
  <2>2. JoinEvent(b, n) \in Making(D, p, f, n)
    BY <1>5, <2>1 DEF Making
  <2>3. n <= got[b]["link"]
    BY <2>2, CountIs DEF Happened, JoinEvent
  <2> QED
    BY <2>1, <2>3
<1> QED
  BY <1>1, <1>3, <1>4, <1>5, MakingIs

LEMMA HappenedReleased ==
    ASSUME NEW p, On(p), NEW f \in Fifos, NEW r \in Readers(f), NEW n \in Nat, 1 <= n,
           NEW c \in Releasing(D, p, f, r, n), Happened(c)
    PROVE  n <= got[f][r]
<1>0. got[f][r] \in Nat /\ f \in DOMAIN D.depth
  BY OnIs
<1>1. CASE r \in DOMAIN D.prog
  <2>1. PICK i \in DOMAIN D.prog[r] : /\ c = KernelEvent(r, i)
                                      /\ p.taken[r][i][f] < n
                                      /\ n <= p.taken[r][i + 1][f]
    BY <1>1 DEF Releasing
  <2>2. i \in 1..Len(D.prog[r]) /\ Len(D.prog[r]) \in Nat /\ r \in Workers
    BY <1>1, <2>1, OnIs, ProgramIs
  <2>3. /\ \A k \in 1..(Len(D.prog[r]) + 1) : p.taken[r][k][f] \in Nat
        /\ \A k, j \in 1..(Len(D.prog[r]) + 1) :
                k <= j => p.taken[r][k][f] <= p.taken[r][j][f]
    BY <1>0, <2>2, TakenIs, OnIs
  <2>4. i + 1 \in 1..(Len(D.prog[r]) + 1)
    BY <2>2
  <2>5. got[f][r] = p.taken[r][pc[r]][f] /\ pc[r] \in 1..(Len(D.prog[r]) + 1)
    BY <2>2, OnIs DEF FollowsCalls
  <2>6. i + 1 <= pc[r]
    <3>1. i <= pc[r] - 1
      BY <2>1, CountIs DEF Happened, KernelEvent
    <3> QED
      BY <2>2, <2>5, <3>1
  <2>7. p.taken[r][i + 1][f] <= p.taken[r][pc[r]][f] /\ p.taken[r][i + 1][f] \in Nat
    BY <2>3, <2>4, <2>5, <2>6
  <2> QED
    BY <1>0, <2>1, <2>5, <2>7
<1>2. CASE r \notin DOMAIN D.prog /\ r = "link"
  BY <1>2, CountIs DEF Releasing, Happened, JoinEvent
<1>3. CASE r \notin DOMAIN D.prog /\ r = "ddr"
  BY <1>3, CountIs DEF Releasing, Happened, DrainEvent
<1>4. CASE r \notin DOMAIN D.prog /\ r # "link" /\ r # "ddr"
  <2>1. c = SplitEvent(r, n)
    BY <1>4 DEF Releasing
  <2>2. f \in DOMAIN D.split /\ r \in Parts(D.split, f)
    BY <1>4, OnIs DEF ReadersOf
  <2>3. r \in Children(D.split) /\ ParentOf(D.split, r) = f
    BY <2>2, OnIs DEF Children, IsPlan, Histories
  <2>4. Len(sent[r]) = got[f][r]
    BY <2>3, OnIs DEF FollowsLinks
  <2> QED
    BY <2>1, <2>4, CountIs DEF Happened, SplitEvent
<1> QED
  BY <1>1, <1>2, <1>3, <1>4

LEMMA HappenedTold ==
    ASSUME NEW p, On(p), NEW f \in Fifos, NEW n \in Nat, 1 <= n, n <= Len(p.places[f]),
           \A c \in Telling(D, p, f, n) : Happened(c)
    PROVE  n <= Len(issued[f])
<1>0. Len(issued[f]) \in Nat /\ f \in DOMAIN D.depth
  BY OnIs
<1>1. PICK c : c \in Telling(D, p, f, n)
  <2>1. Ranks(D, p) /\ Len(p.places[f]) \in Nat
    BY <1>0, OnIs, ToldIs DEF IsPlan
  <2>2. \A m \in 1..Len(p.places[f]) : Telling(D, p, f, m) # {}
    BY <1>0, <2>1 DEF Ranks
  <2> QED
    BY <2>1, <2>2
<1>2. PICK i \in DOMAIN D.host : /\ c = HostEvent(i)
                                 /\ p.told[i][f] < n
                                 /\ n <= p.told[i + 1][f]
  BY <1>1 DEF Telling
<1>3. i \in 1..Len(D.host) /\ Len(D.host) \in Nat
  BY <1>2, OnIs, HostSeqIs
<1>4. /\ \A k \in 1..(Len(D.host) + 1) : p.told[k][f] \in Nat
      /\ \A k, j \in 1..(Len(D.host) + 1) : k <= j => p.told[k][f] <= p.told[j][f]
  BY <1>0, ToldIs, OnIs
<1>5. Len(issued[f]) = p.told[pc["host"]][f] /\ pc["host"] \in 1..(Len(D.host) + 1)
  BY OnIs DEF FollowsHost
<1>6. i + 1 <= pc["host"]
  <2>1. i <= pc["host"] - 1
    BY <1>1, <1>2, CountIs DEF Happened, HostEvent
  <2> QED
    BY <1>3, <1>5, <2>1
<1>7. i + 1 \in 1..(Len(D.host) + 1)
  BY <1>3
<1>8. p.told[i + 1][f] <= p.told[pc["host"]][f] /\ p.told[i + 1][f] \in Nat
  BY <1>4, <1>5, <1>6, <1>7
<1> QED
  BY <1>0, <1>2, <1>5, <1>8

LEMMA HappenedFreed ==
    ASSUME NEW p, On(p), NEW f \in Fifos, NEW n \in Nat, n <= Len(p.hist[f]) + 1,
           \A c \in Freeing(D, p, f, n) : Happened(c)
    PROVE  RoomFor(f, n)
<1> SUFFICES ASSUME NEW r \in Readers(f) PROVE n <= got[f][r] + D.depth[f]
  BY DEF RoomFor
<1>0. /\ D.depth[f] \in Nat /\ got[f][r] \in Nat /\ r \in ReadersOf(D, f)
      /\ f \in DOMAIN D.depth /\ Len(p.hist[f]) \in Nat
  BY OnIs, Lengths, HistIs
<1>1. CASE n <= D.depth[f]
  BY <1>0, <1>1
<1>2. CASE ~(n <= D.depth[f])
  <2>1. PICK m : m = n - D.depth[f]
    OBVIOUS
  <2>2. m \in Nat /\ 1 <= m /\ m \in 1..(Len(p.hist[f]) + 1 - D.depth[f])
    BY <1>0, <1>2, <2>1
  <2>3. PICK c : c \in Releasing(D, p, f, r, m)
    <3>1. Ranks(D, p)
      BY OnIs DEF IsPlan
    <3>2. \A k \in 1..(Len(p.hist[f]) + 1 - D.depth[f]) : Releasing(D, p, f, r, k) # {}
      BY <1>0, <3>1 DEF Ranks
    <3> QED
      BY <2>2, <3>2
  <2>4. c \in Freeing(D, p, f, n)
    BY <1>0, <1>2, <2>1, <2>3 DEF Freeing
  <2>5. m <= got[f][r]
    BY <2>2, <2>3, <2>4, HappenedReleased
  <2> QED
    BY <1>0, <2>1, <2>5
<1> QED
  BY <1>1, <1>2

-----------------------------------------------------------------------------
\* The next event of an actor, when all it needs has happened.
NextUp(p, e) ==
    /\ e \in Events(D, p)
    /\ e[2] = Count(e[1]) + 1
    /\ \A c \in Needs(D, p, e) : Happened(c)

LEMMA KernelCan ==
    ASSUME NEW p, On(p), NEW w \in DOMAIN D.prog, NEW n, NextUp(p, KernelEvent(w, n))
    PROVE  w \in Workers /\ CanRun(w)
<1>1. <<"kernel", w>> \in ActorsOf(D) /\ n \in 1..p.moves[<<"kernel", w>>]
  BY EventIs DEF NextUp, KernelEvent
<1>2. /\ w \in Workers /\ n \in 1..Len(D.prog[w]) /\ n \in DOMAIN D.prog[w]
      /\ Len(D.prog[w]) \in Nat
  BY <1>1, OnIs, ProgramIs
<1>3. n = pc[w]
  <2>1. n = pc[w] - 1 + 1 /\ pc[w] \in Nat
    BY <1>2, CountIs, CallIs DEF NextUp, KernelEvent
  <2> QED
    BY <1>2, <2>1
<1>4. PICK call : call = D.prog[w][n]
  OBVIOUS
<1>5. call = NextCall(w) /\ call \in Calls(D, w)
  BY <1>2, <1>3, <1>4 DEF NextCall, Calls
<1>6. Names(call.in) \subseteq Fifos /\ call.room \subseteq Fifos
  BY <1>2, <1>5, OnIs DEF WellFormed
<1>7. \A c \in KernelNeeds(D, p, w, n) : Happened(c)
  <2>1. Needs(D, p, KernelEvent(w, n)) =
            (IF n > 1 THEN {KernelEvent(w, n - 1)} ELSE {}) \cup KernelNeeds(D, p, w, n)
    BY NeedsAre
  <2> QED
    BY <2>1 DEF NextUp
<1>8. ASSUME NEW f \in Names(call.in)
      PROVE  HasObject(f, w)
  <2>1. f \in Fifos /\ w \in Readers(f)
    BY <1>2, <1>5, <1>6, OnIs DEF ReadersOf
  <2>2. got[f][w] = p.taken[w][n][f] /\ got[f][w] \in Nat /\ Len(sent[f]) \in Nat
    BY <1>2, <1>3, <2>1, OnIs DEF FollowsCalls
  <2>3. PICK m : m = p.taken[w][n][f] + 1
    OBVIOUS
  <2>4. m \in DOMAIN p.hist[f]
    <3>1. PICK port \in call.in : port[1] = f
      BY DEF Names
    <3>2. \A i \in DOMAIN D.prog[w] : \A q \in D.prog[w][i].in :
            p.taken[w][i][q[1]] + 1 \in DOMAIN p.hist[q[1]]
      <4>1. Histories(D, p)
        BY OnIs DEF IsPlan
      <4> QED
        BY <4>1 DEF Histories
    <3> QED
      BY <1>2, <1>4, <2>3, <3>1, <3>2
  <2>5. m \in Nat /\ 1 <= m /\ m <= Len(p.hist[f])
    BY <2>1, <2>4, OnIs, HistIs
  <2>6. \A c \in Making(D, p, f, m) : Happened(c)
    BY <1>4, <1>7, <2>3 DEF KernelNeeds
  <2>7. m <= Len(sent[f])
    BY <2>1, <2>5, <2>6, HappenedMade
  <2> QED
    BY <2>2, <2>3, <2>7 DEF HasObject
<1>9. ASSUME NEW f \in call.room
      PROVE  HasRoom(f)
  <2>1. f \in Fifos
    BY <1>6
  <2>2. PICK other \in Calls(D, w) : f \in Names(other.out)
    BY <1>2, <1>5, <1>9, OnIs DEF WellFormed
  <2>3. <<"kernel", w>> \in Producers(D, f)
    BY <1>2, <2>2 DEF Producers
  <2>4. Len(sent[f]) = p.made[w][n][f] /\ Len(sent[f]) \in Nat
    BY <1>2, <1>3, <2>1, <2>3, OnIs DEF FollowsCalls
  <2>5. PICK m : m = p.made[w][n][f] + 1
    OBVIOUS
  <2>6. m \in Nat /\ m = Len(sent[f]) + 1 /\ m <= Len(p.hist[f]) + 1
    BY <2>1, <2>4, <2>5, OnIs, HistIs DEF Carries
  <2>7. \A c \in Freeing(D, p, f, m) : Happened(c)
    BY <1>4, <1>7, <1>9, <2>5 DEF KernelNeeds
  <2>8. RoomFor(f, m)
    BY <2>1, <2>6, <2>7, HappenedFreed
  <2> QED
    BY <2>6, <2>8 DEF HasRoom
<1> QED
  BY <1>2, <1>3, <1>5, <1>8, <1>9 DEF CanRun

LEMMA SplitCan ==
    ASSUME NEW p, On(p), NEW child \in Children(D.split), NEW n,
           NextUp(p, SplitEvent(child, n))
    PROVE  CanSplit(child)
<1>0. PICK parent : parent = ParentOf(D.split, child)
  OBVIOUS
<1>1. /\ child \in Fifos /\ parent \in Fifos /\ child \in Readers(parent)
      /\ parent \in DOMAIN D.split
  BY <1>0, ChildIs, OnIs DEF WellFormed, ReadersOf
<1>2. /\ Len(sent[child]) \in Nat /\ Len(sent[parent]) \in Nat
      /\ Len(sent[child]) = got[parent][child]
      /\ Len(p.hist[parent]) \in Nat
  BY <1>0, <1>1, OnIs, HistIs DEF FollowsLinks
<1>3. n \in 1..p.moves[<<"split", child>>]
  BY EventIs DEF NextUp, SplitEvent
<1>4. p.moves[<<"split", child>>] = Len(p.hist[parent])
      /\ Len(p.hist[child]) = Len(p.hist[parent])
  BY <1>0, OnIs DEF IsPlan, MovesKnown, Histories
<1>5. n = Len(sent[child]) + 1
  BY CountIs DEF NextUp, SplitEvent
<1>6. n \in Nat /\ 1 <= n /\ n <= Len(p.hist[parent]) /\ n <= Len(p.hist[child]) + 1
  BY <1>2, <1>3, <1>4
<1>7. \A c \in SplitNeeds(D, p, child, n) : Happened(c)
  <2>1. Needs(D, p, SplitEvent(child, n)) =
            (IF n > 1 THEN {SplitEvent(child, n - 1)} ELSE {}) \cup SplitNeeds(D, p, child, n)
    BY NeedsAre
  <2> QED
    BY <2>1 DEF NextUp
<1>8. n <= Len(sent[parent])
  BY <1>0, <1>1, <1>6, <1>7, HappenedMade DEF SplitNeeds
<1>9. RoomFor(child, n)
  BY <1>1, <1>6, <1>7, HappenedFreed DEF SplitNeeds
<1> QED
  BY <1>0, <1>2, <1>5, <1>8, <1>9 DEF CanSplit, HasObject, HasRoom

LEMMA JoinCan ==
    ASSUME NEW p, On(p), NEW child \in Children(D.join), NEW n,
           NextUp(p, JoinEvent(child, n))
    PROVE  CanJoin(child)
<1>0. PICK parent : parent = ParentOf(D.join, child)
  OBVIOUS
<1>1. /\ parent \in DOMAIN D.join /\ child \in Parts(D.join, parent)
  BY <1>0, ChildIs
<1>2. /\ parent \in Fifos /\ child \in Fifos /\ "link" \in Readers(child)
      /\ Len(p.hist[child]) = Len(p.hist[parent])
  BY <1>1, PartIs
<1>3. got[child]["link"] \in Nat /\ Len(sent[child]) \in Nat /\ Len(p.hist[child]) \in Nat
  BY <1>2, OnIs, HistIs
<1>4. n \in 1..p.moves[<<"join", child>>]
  BY EventIs DEF NextUp, JoinEvent
<1>5. p.moves[<<"join", child>>] = Len(p.hist[child])
  BY OnIs DEF IsPlan, MovesKnown
<1>6. n = got[child]["link"] + 1
  BY CountIs DEF NextUp, JoinEvent
<1>7. n \in Nat /\ 1 <= n /\ n <= Len(p.hist[child]) /\ n <= Len(p.hist[parent]) + 1
  BY <1>2, <1>3, <1>4, <1>5
<1>8. \A c \in JoinNeeds(D, p, child, n) : Happened(c)
  <2>1. Needs(D, p, JoinEvent(child, n)) =
            (IF n > 1 THEN {JoinEvent(child, n - 1)} ELSE {}) \cup JoinNeeds(D, p, child, n)
    BY NeedsAre
  <2> QED
    BY <2>1 DEF NextUp
<1>9. n <= Len(sent[child])
  BY <1>2, <1>7, <1>8, HappenedMade DEF JoinNeeds
<1>10. RoomFor(parent, n)
  BY <1>0, <1>2, <1>7, <1>8, HappenedFreed DEF JoinNeeds
<1> QED
  BY <1>0, <1>3, <1>6, <1>9, <1>10 DEF CanJoin, HasObject

LEMMA FillCan ==
    ASSUME NEW p, On(p), NEW f \in Filled(D), NEW n, NextUp(p, FillEvent(f, n))
    PROVE  f \in Fifos /\ CanFill(f)
<1>1. f \in Fifos /\ "ddr" \notin Readers(f)
  BY OnIs, ReaderKinds DEF WellFormed
<1>2. Len(sent[f]) \in Nat /\ Len(p.hist[f]) \in Nat /\ Len(issued[f]) \in Nat
  BY <1>1, OnIs, HistIs
<1>3. n \in 1..p.moves[<<"fill", f>>]
  BY EventIs DEF NextUp, FillEvent
<1>4. p.moves[<<"fill", f>>] = Len(p.hist[f]) /\ Len(p.hist[f]) = Len(p.places[f])
  BY OnIs DEF IsPlan, MovesKnown
<1>5. n = Len(sent[f]) + 1
  BY CountIs DEF NextUp, FillEvent
<1>6. n \in Nat /\ 1 <= n /\ n <= Len(p.places[f]) /\ n <= Len(p.hist[f]) + 1
  BY <1>2, <1>3, <1>4
<1>7. \A c \in FillNeeds(D, p, f, n) : Happened(c)
  <2>1. Needs(D, p, FillEvent(f, n)) =
            (IF n > 1 THEN {FillEvent(f, n - 1)} ELSE {}) \cup FillNeeds(D, p, f, n)
    BY NeedsAre
  <2> QED
    BY <2>1 DEF NextUp
<1>8. n <= Len(issued[f])
  BY <1>1, <1>6, <1>7, HappenedTold DEF FillNeeds
<1>9. RoomFor(f, n)
  BY <1>1, <1>6, <1>7, HappenedFreed DEF FillNeeds
<1> QED
  BY <1>1, <1>2, <1>5, <1>8, <1>9 DEF CanFill, HasRoom

LEMMA DrainCan ==
    ASSUME NEW p, On(p), NEW f \in DrainedBy(D), NEW n, NextUp(p, DrainEvent(f, n))
    PROVE  f \in Fifos /\ CanDrain(f)
<1>1. f \in Fifos /\ "ddr" \in Readers(f)
  BY OnIs DEF WellFormed, ReadersOf
<1>2. /\ Len(sent[f]) \in Nat /\ Len(p.hist[f]) \in Nat /\ Len(issued[f]) \in Nat
      /\ got[f]["ddr"] \in Nat /\ Len(p.places[f]) \in Nat
  BY <1>1, OnIs, HistIs, IssuedBound
<1>3. n \in 1..p.moves[<<"drain", f>>]
  BY EventIs DEF NextUp, DrainEvent
<1>4. p.moves[<<"drain", f>>] = Len(p.places[f]) /\ Len(p.places[f]) <= Len(p.hist[f])
  BY OnIs DEF IsPlan, MovesKnown
<1>5. n = got[f]["ddr"] + 1
  BY CountIs DEF NextUp, DrainEvent
<1>6. n \in Nat /\ 1 <= n /\ n <= Len(p.places[f]) /\ n <= Len(p.hist[f])
  BY <1>2, <1>3, <1>4
<1>7. \A c \in DrainNeeds(D, p, f, n) : Happened(c)
  <2>1. Needs(D, p, DrainEvent(f, n)) =
            (IF n > 1 THEN {DrainEvent(f, n - 1)} ELSE {}) \cup DrainNeeds(D, p, f, n)
    BY NeedsAre
  <2> QED
    BY <2>1 DEF NextUp
<1>8. n <= Len(issued[f])
  BY <1>1, <1>6, <1>7, HappenedTold DEF DrainNeeds
<1>9. n <= Len(sent[f])
  BY <1>1, <1>6, <1>7, HappenedMade DEF DrainNeeds
<1> QED
  BY <1>1, <1>2, <1>5, <1>8, <1>9 DEF CanDrain, HasObject

LEMMA HostCan ==
    ASSUME NEW p, On(p), NEW n, NextUp(p, HostEvent(n))
    PROVE  CanGoOn
<1>1. n \in 1..p.moves[<<"host", "host">>]
  BY EventIs DEF NextUp, HostEvent
<1>2. n \in DOMAIN D.host /\ Len(D.host) \in Nat /\ n \in 1..Len(D.host)
  BY <1>1, OnIs, HostSeqIs
<1>3. n = pc["host"]
  <2>1. n = pc["host"] - 1 + 1 /\ pc["host"] \in 1..(Len(D.host) + 1)
    BY OnIs, CountIs DEF NextUp, HostEvent, FollowsHost
  <2> QED
    BY <1>2, <2>1
<1>4. ASSUME D.host[n].op = "await"
      PROVE  Drained(D.host[n].fifo)
  <2>1. PICK f : f = D.host[n].fifo
    OBVIOUS
  <2>2. f \in DrainedBy(D)
    BY <1>2, <1>4, <2>1, OnIs DEF WellFormed
  <2>3. f \in Fifos /\ "ddr" \in Readers(f)
    BY <2>2, OnIs DEF WellFormed, ReadersOf
  <2>4. /\ Len(issued[f]) = p.told[n][f]
        /\ got[f]["ddr"] <= Len(issued[f])
        /\ Len(issued[f]) \in Nat /\ got[f]["ddr"] \in Nat
    BY <1>3, <2>2, <2>3, OnIs DEF FollowsHost
  <2>5. p.told[n][f] > 0 => p.told[n][f] <= got[f]["ddr"]
    <3> SUFFICES ASSUME p.told[n][f] > 0 PROVE p.told[n][f] <= got[f]["ddr"]
      OBVIOUS
    <3>1. DrainEvent(f, p.told[n][f]) \in HostNeeds(D, p, n)
      BY <1>4, <2>1 DEF HostNeeds
    <3>2. Happened(DrainEvent(f, p.told[n][f]))
      BY <3>1, NeedsAre DEF NextUp
    <3> QED
      BY <3>2, CountIs DEF Happened, DrainEvent
  <2> QED
    BY <2>1, <2>4, <2>5 DEF Drained
<1> QED
  BY <1>2, <1>3, <1>4 DEF CanGoOn

\* Of the events that are left, one of the least rank can happen.
LEMMA NextUpIs ==
    ASSUME NEW p, On(p), ~HostDone
    PROVE  \E e : NextUp(p, e)
<1> DEFINE left == {e \in Events(D, p) : ~Happened(e)}
           ranks == {p.rank[e] : e \in left}
<1>1. Ranks(D, p)
  BY OnIs DEF IsPlan
<1>2. \A e \in Events(D, p) :
        /\ p.rank[e] \in Nat
        /\ \A c \in Needs(D, p, e) : c \in Events(D, p) /\ p.rank[c] < p.rank[e]
  BY <1>1 DEF Ranks
<1>3. left # {}
  <2>1. /\ pc["host"] \in 1..Len(D.host) /\ Len(D.host) \in Nat
        /\ p.moves[<<"host", "host">>] = Len(D.host)
    BY OnIs, HostSeqIs DEF FollowsHost, HostDone
  <2>2. <<"host", "host">> \in ActorsOf(D)
    BY DEF ActorsOf
  <2>3. HostEvent(pc["host"]) \in Events(D, p)
    BY <2>1, <2>2, EventIs DEF HostEvent
  <2>4. ~Happened(HostEvent(pc["host"]))
    BY <2>1, CountIs DEF Happened, HostEvent
  <2> QED
    BY <2>3, <2>4
<1>4. ranks \in SUBSET Nat /\ ranks # {}
  BY <1>2, <1>3
<1>5. PICK least \in ranks : \A y \in ranks : least <= y
  BY <1>4, LeastRank
<1>6. PICK e \in left : p.rank[e] = least
  BY <1>5
<1>7. ASSUME NEW c \in Needs(D, p, e)
      PROVE  Happened(c)
  <2>1. c \in Events(D, p) /\ p.rank[c] < p.rank[e] /\ p.rank[c] \in Nat /\ p.rank[e] \in Nat
    BY <1>2, <1>6
  <2>2. ~(c \in left)
    BY <1>5, <1>6, <2>1
  <2> QED
    BY <2>1, <2>2
<1>8. /\ e \in Events(D, p) /\ ~Happened(e)
      /\ e[1] \in ActorsOf(D) /\ e[2] \in Nat /\ 1 <= e[2] /\ e = <<e[1], e[2]>>
  BY <1>6, EventNat
<1>9. Count(e[1]) \in Nat /\ ~(e[2] <= Count(e[1]))
  BY <1>8, CountNat DEF Happened
<1>10. e[2] > 1 => e[2] - 1 <= Count(e[1])
  <2> SUFFICES ASSUME e[2] > 1 PROVE e[2] - 1 <= Count(e[1])
    OBVIOUS
  <2>1. <<e[1], e[2] - 1>> \in Needs(D, p, e)
    BY DEF Needs
  <2> QED
    BY <1>7, <2>1 DEF Happened
<1>11. e[2] = Count(e[1]) + 1
  BY <1>8, <1>9, <1>10
<1> QED
  BY <1>7, <1>8, <1>11 DEF NextUp

LEMMA OnNeverStuck ==
    ASSUME NEW p, On(p)
    PROVE  NeverStuck
<1> SUFFICES ASSUME ~HostDone PROVE NeverStuck
  BY DEF NeverStuck
<1>1. PICK e : NextUp(p, e)
  BY NextUpIs
<1>2. PICK a, n : e = <<a, n>> /\ a \in ActorsOf(D)
  BY <1>1, EventIs DEF NextUp
<1>3. ASSUME NEW w \in DOMAIN D.prog, a = <<"kernel", w>>
      PROVE  NeverStuck
  <2>1. NextUp(p, KernelEvent(w, n))
    BY <1>1, <1>2, <1>3 DEF KernelEvent
  <2> QED
    BY <2>1, KernelCan DEF NeverStuck
<1>4. ASSUME NEW c \in Children(D.split), a = <<"split", c>>
      PROVE  NeverStuck
  <2>1. NextUp(p, SplitEvent(c, n))
    BY <1>1, <1>2, <1>4 DEF SplitEvent
  <2> QED
    BY <2>1, SplitCan DEF NeverStuck
<1>5. ASSUME NEW c \in Children(D.join), a = <<"join", c>>
      PROVE  NeverStuck
  <2>1. NextUp(p, JoinEvent(c, n))
    BY <1>1, <1>2, <1>5 DEF JoinEvent
  <2> QED
    BY <2>1, JoinCan DEF NeverStuck
<1>6. ASSUME NEW f \in Filled(D), a = <<"fill", f>>
      PROVE  NeverStuck
  <2>1. NextUp(p, FillEvent(f, n))
    BY <1>1, <1>2, <1>6 DEF FillEvent
  <2> QED
    BY <2>1, FillCan DEF NeverStuck
<1>7. ASSUME NEW f \in DrainedBy(D), a = <<"drain", f>>
      PROVE  NeverStuck
  <2>1. NextUp(p, DrainEvent(f, n))
    BY <1>1, <1>2, <1>7 DEF DrainEvent
  <2> QED
    BY <2>1, DrainCan DEF NeverStuck
<1>8. ASSUME a = <<"host", "host">>
      PROVE  NeverStuck
  <2>1. NextUp(p, HostEvent(n))
    BY <1>1, <1>2, <1>8 DEF HostEvent
  <2> QED
    BY <2>1, HostCan DEF NeverStuck
<1> QED
  BY <1>2, <1>3, <1>4, <1>5, <1>6, <1>7, <1>8, ActorIs

\* No schedule locks up: until the host has done everything, a worker, a link,
\* a DMA or the host can move.
THEOREM DataflowNeverStuck == HasPlan /\ Spec => []NeverStuck
<1>1. DataflowInv /\ PlanInv => NeverStuck
  <2> SUFFICES ASSUME DataflowInv, PlanInv PROVE NeverStuck
    OBVIOUS
  <2>1. PICK p : On(p)
    BY DEF PlanInv, On
  <2> QED
    BY <2>1, OnNeverStuck
<1> QED
  BY <1>1, DataflowInit, DataflowStep, PlanInit, PlanStep, PTL DEF Spec

-----------------------------------------------------------------------------
LEMMA NextAdvances ==
    ASSUME NEW p, On(p), Next
    PROVE  \E a : Advances(p, a)
<1>1. ASSUME NEW w \in Workers, Kernel(w)
      PROVE  \E a : Advances(p, a)
  BY <1>1, KernelAdvances
<1>2. ASSUME NEW c \in Children(D.split), SplitMove(c)
      PROVE  \E a : Advances(p, a)
  BY <1>2, SplitAdvances
<1>3. ASSUME NEW c \in Children(D.join), JoinMove(c)
      PROVE  \E a : Advances(p, a)
  BY <1>3, JoinAdvances
<1>4. ASSUME NEW f \in Fifos, FillMove(f)
      PROVE  \E a : Advances(p, a)
  BY <1>4, FillAdvances
<1>5. ASSUME NEW f \in Fifos, DrainMove(f)
      PROVE  \E a : Advances(p, a)
  BY <1>5, DrainAdvances
<1>6. CASE Host
  BY <1>6, HostAdvances
<1> QED
  BY <1>1, <1>2, <1>3, <1>4, <1>5, <1>6 DEF Next

\* A step leaves the plan and the actors of a design as they are.
LEMMA PlanStays ==
    ASSUME NEW p, On(p), [Next]_vars
    PROVE  /\ ActorsOf(D)' = ActorsOf(D)
           /\ IsPlan(D, p)' <=> IsPlan(D, p)
<1>1. UNCHANGED design
  <2>1. CASE Next
    BY <2>1, NextAdvances DEF Advances
  <2>2. CASE UNCHANGED vars
    BY <2>2 DEF vars
  <2> QED
    BY <2>1, <2>2
<1> QED
  BY <1>1, SameDesign

Within(p) == \A a \in ActorsOf(D) : Count(a) \in 0..p.moves[a]

LEMMA WithinInit ==
    ASSUME NEW p, Init, IsPlan(D, p)
    PROVE  Within(p)
<1>1. p.moves \in [ActorsOf(D) -> Nat]
  BY DEF IsPlan, MovesKnown
<1>2. \A a \in ActorsOf(D) : Count(a) = 0
  BY InitCount
<1> QED
  BY <1>1, <1>2 DEF Within

LEMMA WithinStep ==
    ASSUME NEW p, On(p), Within(p), [Next]_vars
    PROVE  Within(p)'
<1>1. CASE Next
  <2>1. PICK a : Advances(p, a)
    BY <1>1, NextAdvances
  <2>2. a \in ActorsOf(D) /\ Count(a) \in Nat /\ Count(a)' = Count(a) + 1
    BY <2>1 DEF Advances
  <2>3. <<a, Count(a) + 1>> \in Events(D, p)
    BY <2>1 DEF Advances, Ready
  <2>4. Count(a) + 1 \in 1..p.moves[a]
    BY <2>3, EventIs
  <2>5. Count(a)' \in 0..p.moves[a]
    BY <2>2, <2>4
  <2>6. \A b \in ActorsOf(D) : b # a => Count(b)' = Count(b)
    BY <2>1 DEF Advances
  <2>7. \A b \in ActorsOf(D) : Count(b)' \in 0..p.moves[b]
    BY <2>5, <2>6 DEF Within
  <2> QED
    BY <2>7, PlanStays DEF On, Within
<1>2. CASE UNCHANGED vars
  <2>1. pc' = pc /\ sent' = sent /\ got' = got
    BY <1>2 DEF vars
  <2>2. \A b : Count(b)' = Count(b)
    BY <2>1 DEF Count
  <2> QED
    BY <2>2, PlanStays DEF On, Within
<1> QED
  BY <1>1, <1>2

BoundedInv == \E p : IsPlan(D, p) /\ Follows(p) /\ Within(p)

\* Every actor makes the moves of the plan and no more, one actor at a time, so a
\* schedule of a design with a plan has a last move (after which, by
\* DataflowNeverStuck, the host has done everything).
THEOREM DataflowEnds == HasPlan /\ Spec => []Bounded /\ [][OneMove]_vars
<1>1. Init /\ HasPlan => BoundedInv
  <2> SUFFICES ASSUME Init, HasPlan PROVE BoundedInv
    OBVIOUS
  <2>1. PICK p : IsPlan(D, p)
    BY DEF HasPlan
  <2> QED
    BY <2>1, InitOn, WithinInit DEF On, BoundedInv
<1>2. DataflowInv /\ BoundedInv /\ [Next]_vars => BoundedInv'
  <2> SUFFICES ASSUME DataflowInv, BoundedInv, [Next]_vars PROVE BoundedInv'
    OBVIOUS
  <2>1. PICK p : On(p) /\ Within(p)
    BY DEF BoundedInv, On
  <2>2. On(p)' /\ Within(p)'
    BY <2>1, StepOn, WithinStep
  <2>3. IsPlan(D, p)' /\ Follows(p)' /\ Within(p)'
    BY <2>2 DEF On
  <2> QED
    BY <2>3 DEF BoundedInv
<1>3. BoundedInv => Bounded
  BY DEF BoundedInv, Bounded, Within
<1>4. DataflowInv /\ BoundedInv /\ [Next]_vars => [OneMove]_vars
  <2> SUFFICES ASSUME DataflowInv, BoundedInv, Next PROVE OneMove
    OBVIOUS
  <2>1. PICK p : On(p)
    BY DEF BoundedInv, On
  <2>2. PICK a : Advances(p, a)
    BY <2>1, NextAdvances
  <2> QED
    BY <2>2 DEF Advances, OneMove
<1> QED
  BY <1>1, <1>2, <1>3, <1>4, DataflowInit, DataflowStep, PTL DEF Spec
=============================================================================
