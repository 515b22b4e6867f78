---------------------------- MODULE DataflowPlan ----------------------------
(***************************************************************************)
(* A plan of a design: what every FIFO will carry and every DMA move, which *)
(* moves come before which in every schedule, and the values every place   *)
(* in DDR goes through.  A plan is checked against the design alone,       *)
(* without running it.  Dataflow_proofs shows that a design with a plan    *)
(* does the same under every schedule, with the operands its programs      *)
(* name, and never locks up.                                               *)
(*                                                                         *)
(*   hist    [FIFO -> Seq(object)], places [FIFO -> Seq(place)]            *)
(*   taken   [worker -> [call -> [FIFO -> objects released before it]]]    *)
(*   made    [worker -> [call -> [FIFO -> objects produced before it]]]    *)
(*   told    [operation of the host -> [FIFO -> places issued before it]]  *)
(*   moves   [actor -> number of its moves]                                *)
(*   clock   [event -> [actor -> moves of it that come before]]            *)
(*   rank    [event -> Nat], which grows along what an event needs         *)
(*   writes  [place -> Seq(event)] and values [place -> Seq(object)]       *)
(*                                                                         *)
(* An event <<a, n>> is the n-th move of actor a.                          *)
(***************************************************************************)
EXTENDS Dataflow

ActorsOf(d) ==
    {<<"kernel", w>> : w \in DOMAIN d.prog}
    \cup {<<"split", c>> : c \in Children(d.split)}
    \cup {<<"join", c>> : c \in Children(d.join)}
    \cup {<<"fill", f>> : f \in Filled(d)}
    \cup {<<"drain", f>> : f \in DrainedBy(d)}
    \cup {<<"host", "host">>}
Events(d, p) == UNION {{a} \X (1..p.moves[a]) : a \in ActorsOf(d)}

KernelEvent(w, n) == <<<<"kernel", w>>, n>>
SplitEvent(c, n) == <<<<"split", c>>, n>>
JoinEvent(c, n) == <<<<"join", c>>, n>>
FillEvent(f, n) == <<<<"fill", f>>, n>>
DrainEvent(f, n) == <<<<"drain", f>>, n>>
HostEvent(n) == <<<<"host", "host">>, n>>

-----------------------------------------------------------------------------
IsList(s) == Len(s) \in Nat /\ DOMAIN s = 1..Len(s)

\* A table counts from 0 what each of n steps adds.
IsCount(table, gain, n, fifos) ==
    /\ \A i \in 1..(n + 1) : table[i] \in [fifos -> Nat]
    /\ \A f \in fifos : table[1][f] = 0
    /\ \A i \in 1..n : \A f \in fifos : table[i + 1][f] = table[i][f] + gain[i][f]
    /\ \A i, j \in 1..(n + 1) : i <= j => \A f \in fifos : table[i][f] <= table[j][f]

Ones(set, fifos) == [f \in fifos |-> IF f \in set THEN 1 ELSE 0]
Issues(o, f) == o.op \in {"fill", "drain"} /\ o.fifo = f
Tells(o, f) == IF Issues(o, f) THEN Len(o.places) ELSE 0

Tables(d, p) ==
    LET fifos == DOMAIN d.depth IN
    /\ \A w \in DOMAIN d.prog :
        LET calls == d.prog[w] IN
        /\ IsList(calls)
        /\ IsCount(p.taken[w], [i \in DOMAIN calls |-> Ones(calls[i].free, fifos)],
                   Len(calls), fifos)
        /\ IsCount(p.made[w], [i \in DOMAIN calls |-> Ones(Names(calls[i].out), fifos)],
                   Len(calls), fifos)
    /\ IsList(d.host)
    /\ IsCount(p.told, [i \in DOMAIN d.host |-> [f \in fifos |-> Tells(d.host[i], f)]],
               Len(d.host), fifos)
    /\ \A f \in fifos :
        /\ Len(p.places[f]) = p.told[Len(d.host) + 1][f]
        /\ \A i \in DOMAIN d.host : Issues(d.host[i], f) =>
            \A k \in DOMAIN d.host[i].places :
                p.places[f][p.told[i][f] + k] = d.host[i].places[k]

\* Every actor makes the moves the plan knows, and no other.
MovesKnown(d, p) ==
    /\ p.moves \in [ActorsOf(d) -> Nat]
    /\ \A w \in DOMAIN d.prog : p.moves[<<"kernel", w>>] = Len(d.prog[w])
    /\ \A c \in Children(d.split) : p.moves[<<"split", c>>] = Len(p.hist[c])
    /\ \A c \in Children(d.join) : p.moves[<<"join", c>>] = Len(p.hist[c])
    /\ \A f \in Filled(d) : p.moves[<<"fill", f>>] = Len(p.hist[f])
                            /\ Len(p.hist[f]) = Len(p.places[f])
    /\ \A f \in DrainedBy(d) : p.moves[<<"drain", f>>] = Len(p.places[f])
                               /\ Len(p.places[f]) <= Len(p.hist[f])
    /\ p.moves[<<"host", "host">>] = Len(d.host)

-----------------------------------------------------------------------------
\* The events that bring the n-th object into a FIFO, release the n-th one by a
\* reader, tell a DMA of its n-th place, and make room for an n-th object.
Making(d, p, f, n) ==
    (UNION {{KernelEvent(w, i) : i \in {j \in DOMAIN d.prog[w] :
                 p.made[w][j][f] < n /\ n <= p.made[w][j + 1][f]}} : w \in DOMAIN d.prog})
    \cup {SplitEvent(c, n) : c \in Children(d.split) \cap {f}}
    \cup {JoinEvent(c, n) : c \in IF f \in DOMAIN d.join THEN Parts(d.join, f) ELSE {}}
    \cup {FillEvent(g, n) : g \in Filled(d) \cap {f}}

Releasing(d, p, f, r, n) ==
    IF r \in DOMAIN d.prog
    THEN {KernelEvent(r, i) : i \in {j \in DOMAIN d.prog[r] :
              p.taken[r][j][f] < n /\ n <= p.taken[r][j + 1][f]}}
    ELSE CASE r = "link" -> {JoinEvent(f, n)}
           [] r = "ddr" -> {DrainEvent(f, n)}
           [] OTHER -> {SplitEvent(r, n)}

Telling(d, p, f, n) ==
    {HostEvent(i) : i \in {j \in DOMAIN d.host : p.told[j][f] < n /\ n <= p.told[j + 1][f]}}

Freeing(d, p, f, n) ==
    IF n > d.depth[f]
    THEN UNION {Releasing(d, p, f, r, n - d.depth[f]) : r \in ReadersOf(d, f)} ELSE {}

\* What must have happened when an event happens.
KernelNeeds(d, p, w, n) ==
    LET call == d.prog[w][n] IN
    (UNION {Making(d, p, f, p.taken[w][n][f] + 1) : f \in Names(call.in)})
    \cup (UNION {Freeing(d, p, f, p.made[w][n][f] + 1) : f \in call.room})
SplitNeeds(d, p, c, n) == Making(d, p, ParentOf(d.split, c), n) \cup Freeing(d, p, c, n)
JoinNeeds(d, p, c, n) == Making(d, p, c, n) \cup Freeing(d, p, ParentOf(d.join, c), n)
FillNeeds(d, p, f, n) == Telling(d, p, f, n) \cup Freeing(d, p, f, n)
DrainNeeds(d, p, f, n) == Telling(d, p, f, n) \cup Making(d, p, f, n)
HostNeeds(d, p, n) ==
    LET o == d.host[n] IN
    IF o.op = "await" /\ p.told[n][o.fifo] > 0
    THEN {DrainEvent(o.fifo, p.told[n][o.fifo])} ELSE {}

Needs(d, p, e) ==
    (IF e[2] > 1 THEN {<<e[1], e[2] - 1>>} ELSE {})
    \cup CASE e[1][1] = "kernel" -> KernelNeeds(d, p, e[1][2], e[2])
           [] e[1][1] = "split" -> SplitNeeds(d, p, e[1][2], e[2])
           [] e[1][1] = "join" -> JoinNeeds(d, p, e[1][2], e[2])
           [] e[1][1] = "fill" -> FillNeeds(d, p, e[1][2], e[2])
           [] e[1][1] = "drain" -> DrainNeeds(d, p, e[1][2], e[2])
           [] OTHER -> HostNeeds(d, p, e[2])

\* What comes before an event comes before, or is, something it needs.
Clocks(d, p) ==
    LET events == Events(d, p)
        actors == ActorsOf(d)
    IN
    /\ DOMAIN p.clock = events
    /\ \A e \in events :
        LET needs == Needs(d, p, e) IN
        /\ p.clock[e] \in [actors -> Nat]
        /\ \A a \in actors : p.clock[e][a] = 0 \/ \E c \in needs :
            /\ c \in events
            /\ \/ c[1] = a /\ p.clock[e][a] <= c[2]
               \/ p.clock[e][a] <= p.clock[c][a]

Before(p, c, e) == c[2] <= p.clock[e][c[1]]

-----------------------------------------------------------------------------
\* A place has its value number v + 1 when the event happens.
Finds(p, e, q, v) ==
    /\ v \in 0..Len(p.writes[q])
    /\ v > 0 => Before(p, p.writes[q][v], e)
    /\ v < Len(p.writes[q]) => LET c == p.writes[q][v + 1] IN c = e \/ Before(p, e, c)

\* What a fill reads at a place.
Reads(d, p, e, q, object) ==
    IF q \in DOMAIN d.mem
    THEN \E v \in 0..Len(p.writes[q]) : Finds(p, e, q, v) /\ object = p.values[q][v + 1]
    ELSE object = q

\* What the programs, the links and the fills put into the FIFOs.
Histories(d, p) ==
    /\ \A f \in DOMAIN d.depth : IsList(p.hist[f])
    /\ \A w \in DOMAIN d.prog : \A i \in DOMAIN d.prog[w] :
        /\ \A port \in d.prog[w][i].in :
            LET n == p.taken[w][i][port[1]] + 1
            IN  n \in DOMAIN p.hist[port[1]] /\ p.hist[port[1]][n] = port[2]
        /\ \A f \in Names(d.prog[w][i].out) :
            LET n == p.made[w][i][f] + 1
            IN  /\ n \in DOMAIN p.hist[f]
                /\ p.hist[f][n] = (CHOOSE q \in d.prog[w][i].out : q[1] = f)[2]
    /\ \A f \in DOMAIN d.split : \A c \in Parts(d.split, f) : ParentOf(d.split, c) = f
    /\ \A c \in Children(d.split) :
        LET parent == ParentOf(d.split, c) IN
        /\ Len(p.hist[c]) = Len(p.hist[parent])
        /\ \A n \in DOMAIN p.hist[c] : p.hist[c][n] = p.hist[parent][n][IndexOf(d.split, c)]
    /\ \A f \in DOMAIN d.join :
        /\ \A c \in Parts(d.join, f) : Len(p.hist[c]) = Len(p.hist[f])
                                       /\ ParentOf(d.join, c) = f
        /\ \A n \in DOMAIN p.hist[f] :
            p.hist[f][n] = [i \in DOMAIN d.join[f] |-> p.hist[d.join[f][i]][n]]
    /\ \A f \in Filled(d) : \A n \in DOMAIN p.hist[f] :
        LET place == p.places[f][n]
            object == p.hist[f][n]
        IN  IF f \in DOMAIN d.split
            THEN /\ object = [i \in DOMAIN place |-> object[i]]
                 /\ \A i \in DOMAIN place : Reads(d, p, FillEvent(f, n), place[i], object[i])
            ELSE Reads(d, p, FillEvent(f, n), place, object)

\* The places an event writes.
Targets(d, p, e) ==
    DOMAIN d.mem \cap
    CASE e[1][1] = "drain" ->
            (LET f == e[1][2]
                 place == p.places[f][e[2]]
             IN  IF f \in DOMAIN d.join THEN {place[i] : i \in DOMAIN place} ELSE {place})
      [] e[1][1] = "host" ->
            (LET o == d.host[e[2]]
             IN  CASE o.op = "write" -> DOMAIN o.values
                   [] o.op = "append" -> DOMAIN o.from
                   [] OTHER -> {})
      [] OTHER -> {}

\* What an event writes at a place that held old.
Writes(d, p, e, q, old, new) ==
    IF e[1][1] = "drain"
    THEN LET f == e[1][2]
             place == p.places[f][e[2]]
             object == p.hist[f][e[2]]
         IN  new = IF f \in DOMAIN d.join
                   THEN object[CHOOSE i \in DOMAIN place : place[i] = q] ELSE object
    ELSE LET o == d.host[e[2]]
         IN  IF o.op = "write" THEN new = o.values[q]
             ELSE /\ o.from[q] \in DOMAIN d.mem
                  /\ \E object \in {p.values[o.from[q]][i] : i \in DOMAIN p.values[o.from[q]]} :
                        Reads(d, p, e, o.from[q], object) /\ new = Append(old, object)

\* The writes of a place are ordered, and end before the host does.
Values(d, p) ==
    LET events == Events(d, p) IN
    /\ d.mem = [q \in DOMAIN d.mem |-> d.mem[q]]
    /\ d.result = [q \in DOMAIN d.mem |-> d.result[q]]
    /\ \A q \in DOMAIN d.mem :
        LET writes == p.writes[q] IN
        /\ writes \in Seq(events)
        /\ DOMAIN p.values[q] = 1..(Len(writes) + 1)
        /\ p.values[q][1] = d.mem[q]
        /\ p.values[q][Len(writes) + 1] = d.result[q]
        /\ \A e \in events : q \in Targets(d, p, e) <=> e \in {writes[v] : v \in DOMAIN writes}
        /\ \A v \in DOMAIN writes :
            /\ \A u \in 1..(v - 1) : writes[u] # writes[v] /\ Before(p, writes[u], writes[v])
            /\ Writes(d, p, writes[v], q, p.values[q][v], p.values[q][v + 1])
            /\ \E n \in DOMAIN d.host : \/ writes[v] = HostEvent(n)
                                        \/ Before(p, writes[v], HostEvent(n))

\* A dispatch returns after all calls of it that produce something.
Returns(d, p) ==
    \A n \in 1..(Len(d.host) + 1) :
        LET returned == Cardinality({i \in DOMAIN d.host : i < n /\ d.host[i].op = "return"})
        IN  returned > 0 =>
            \A w \in DOMAIN d.prog :
                /\ d.ends[w][returned] \in 0..Len(d.prog[w])
                /\ \A i \in 1..d.ends[w][returned] :
                    \/ d.prog[w][i].out = {}
                    \/ \E h \in DOMAIN d.host :
                        h < n /\ Before(p, KernelEvent(w, i), HostEvent(h))

\* An event can wait for no event that waits for it, or for one that never comes.
Ranks(d, p) ==
    LET events == Events(d, p) IN
    /\ \A e \in events :
        /\ p.rank[e] \in Nat
        /\ \A c \in Needs(d, p, e) : c \in events /\ p.rank[c] < p.rank[e]
    /\ \A f \in DOMAIN d.depth :
        /\ \A n \in DOMAIN p.hist[f] : Making(d, p, f, n) # {}
        /\ \A n \in 1..Len(p.places[f]) : Telling(d, p, f, n) # {}
        /\ \A r \in ReadersOf(d, f) : \A n \in 1..(Len(p.hist[f]) + 1 - d.depth[f]) :
            Releasing(d, p, f, r, n) # {}

IsPlan(d, p) ==
    /\ Tables(d, p) /\ MovesKnown(d, p) /\ Clocks(d, p)
    /\ Histories(d, p) /\ Values(d, p) /\ Returns(d, p) /\ Ranks(d, p)

-----------------------------------------------------------------------------
\* The moves an actor has made.
Count(a) ==
    CASE a[1] = "kernel" -> pc[a[2]] - 1
      [] a[1] \in {"split", "fill"} -> Len(sent[a[2]])
      [] a[1] = "join" -> got[a[2]]["link"]
      [] a[1] = "drain" -> got[a[2]]["ddr"]
      [] OTHER -> pc["host"] - 1
Happened(e) == e[2] <= Count(e[1])

\* A run that follows a plan: every cursor is where the programs put it.
FollowsCalls(p) ==
    \A w \in Workers :
        /\ pc[w] \in 1..(Len(D.prog[w]) + 1)
        /\ \A f \in Fifos : w \in Readers(f) => got[f][w] = p.taken[w][pc[w]][f]
        /\ \A f \in Fifos :
            <<"kernel", w>> \in Producers(D, f) => Len(sent[f]) = p.made[w][pc[w]][f]
FollowsLinks ==
    /\ \A c \in Children(D.split) : Len(sent[c]) = got[ParentOf(D.split, c)][c]
    /\ \A f \in DOMAIN D.join : \A b \in Parts(D.join, f) :
        \E c \in Parts(D.join, f) : Len(sent[f]) = got[c]["link"]
FollowsHost(p) ==
    /\ pc["host"] \in 1..(Len(D.host) + 1)
    /\ \A f \in Fifos :
        /\ Len(issued[f]) = p.told[pc["host"]][f]
        /\ \A n \in 1..Len(issued[f]) : issued[f][n] = p.places[f][n]
    /\ \A f \in Filled(D) : Len(sent[f]) <= Len(issued[f])
    /\ \A f \in DrainedBy(D) : got[f]["ddr"] <= Len(issued[f])

\* The FIFOs carry what the plan says.
Carries(p) ==
    \A f \in Fifos : /\ Len(sent[f]) <= Len(p.hist[f])
                     /\ \A n \in 1..Len(sent[f]) : sent[f][n] = p.hist[f][n]

\* What comes before an event that has happened has happened.
Ordered(p) ==
    \A e \in Events(D, p) : Happened(e) => \A a \in ActorsOf(D) : p.clock[e][a] <= Count(a)

\* Every place holds the value that the last of its writes gave it.
AtVersion(p, q, v) ==
    /\ \A j \in 1..Len(p.writes[q]) : Happened(p.writes[q][j]) <=> j <= v
    /\ mem[q] = p.values[q][v + 1]
Remembers(p) ==
    /\ mem = [q \in DOMAIN D.mem |-> mem[q]]
    /\ \A q \in DOMAIN D.mem : \E v \in 0..Len(p.writes[q]) : AtVersion(p, q, v)

Follows(p) ==
    /\ FollowsCalls(p) /\ FollowsLinks /\ FollowsHost(p)
    /\ Carries(p) /\ Ordered(p) /\ Remembers(p)

HasPlan == \E p : IsPlan(D, p)
PlanInv == \E p : IsPlan(D, p) /\ Follows(p)

\* No actor makes more moves than its plan has, and a step is a move of one actor:
\* with NeverStuck, every schedule that does not idle ends.
Bounded == \E p : IsPlan(D, p) /\ \A a \in ActorsOf(D) : Count(a) \in 0..p.moves[a]
OneMove ==
    \E a \in ActorsOf(D) : /\ Count(a)' = Count(a) + 1
                          /\ \A b \in ActorsOf(D) \ {a} : Count(b)' = Count(b)

\* Something can move until the host has done everything.
NeverStuck ==
    \/ HostDone
    \/ \E w \in Workers : CanRun(w)
    \/ \E c \in Children(D.split) : CanSplit(c)
    \/ \E c \in Children(D.join) : CanJoin(c)
    \/ \E f \in Fifos : CanFill(f) \/ CanDrain(f)
    \/ CanGoOn
=============================================================================
