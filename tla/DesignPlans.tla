----------------------------- MODULE DesignPlans -----------------------------
(***************************************************************************)
(* A plan for a design, computed: the programs in their order, with what   *)
(* the workers expect of the DMAs, and the clocks of a run in which        *)
(* whatever can move moves at once.  Nothing is taken from here: TLC       *)
(* checks IsPlan of what comes out.                                        *)
(***************************************************************************)
EXTENDS DataflowPlan, SequencesExt

\* (TLC evaluates the values of a function it merges once, others at every use.)
Table(f) == f @@ <<>>

\* The number of calls before the i-th that have the FIFO in their set.
CountOf(sets, f, i) == Cardinality({j \in 1..(i - 1) : f \in sets[j]})
CountsOf(d, sets) ==
    [i \in 1..(Len(sets) + 1) |-> [f \in DOMAIN d.depth |-> CountOf(sets, f, i)]]

\* What the host has issued for a FIFO before its i-th operation.
IssuedBefore(d, f, i) ==
    FlattenSeq([j \in 1..(i - 1) |-> IF Issues(d.host[j], f) THEN d.host[j].places ELSE <<>>])

-----------------------------------------------------------------------------
\* The objects of a FIFO as its writer's, or as its reader's, program has them.
AsMade(d, made, f) ==
    LET w == CHOOSE v \in DOMAIN d.prog : \E call \in Calls(d, v) : f \in Names(call.out)
        call(n) == CHOOSE i \in DOMAIN d.prog[w] : made[w][i][f] < n /\ n <= made[w][i + 1][f]
    IN  [n \in 1..made[w][Len(d.prog[w]) + 1][f] |->
            (CHOOSE q \in d.prog[w][call(n)].out : q[1] = f)[2]]
AsTaken(d, taken, f) ==
    LET w == CHOOSE v \in DOMAIN d.prog : \E call \in Calls(d, v) : f \in Names(call.in)
        call(n) == CHOOSE i \in DOMAIN d.prog[w] : taken[w][i][f] < n /\ n <= taken[w][i + 1][f]
    IN  [n \in 1..taken[w][Len(d.prog[w]) + 1][f] |->
            (CHOOSE q \in d.prog[w][call(n)].in : q[1] = f)[2]]
Side(parts, history(_)) ==
    [n \in 1..Len(history(parts[1])) |-> [i \in DOMAIN parts |-> history(parts[i])[n]]]

HistoryOf(d, taken, made, f) ==
    IF \E w \in DOMAIN d.prog : \E call \in Calls(d, w) : f \in Names(call.out)
    THEN AsMade(d, made, f)
    ELSE IF f \in DOMAIN d.join THEN Side(d.join[f], LAMBDA c : AsMade(d, made, c))
    ELSE IF f \in DOMAIN d.split THEN Side(d.split[f], LAMBDA c : AsTaken(d, taken, c))
    ELSE AsTaken(d, taken, f)

\* Events that need only what has happened happen, round after round.
RECURSIVE Timed(_, _, _, _)
Timed(moves, needs, count, times) ==
    LET next == {<<a, count[a] + 1>> : a \in {b \in DOMAIN count : count[b] < moves[b]}}
        ready == {e \in next : needs[e] \subseteq DOMAIN times.clock}
        clockOf(e) ==
            Table([a \in DOMAIN count |->
                LET seen == {0} \cup {times.clock[c][a] : c \in needs[e]}
                                \cup {c[2] : c \in {b \in needs[e] : b[1] = a}}
                IN  CHOOSE n \in seen : \A m \in seen : m <= n])
    IN  IF ready = {} THEN times
        ELSE Timed(moves, needs,
                   [a \in {e[1] : e \in ready} |-> count[a] + 1] @@ count,
                   [clock |-> [e \in ready |-> clockOf(e)] @@ times.clock,
                    rank |-> [e \in ready |-> times.round] @@ times.rank,
                    round |-> times.round + 1])

\* The operation of the host that makes an event write.
IssuedAt(d, p, e) ==
    IF e[1][1] = "host" THEN e[2]
    ELSE CHOOSE i \in DOMAIN d.host :
            p.told[i][e[1][2]] < e[2] /\ e[2] <= p.told[i + 1][e[1][2]]

Add(d, p, values, q, e) ==
    Append(values, LET old == values[Len(values)] IN
        IF e[1][1] = "drain"
        THEN LET f == e[1][2]
                 place == p.places[f][e[2]]
             IN  IF f \in DOMAIN d.join
                 THEN p.hist[f][e[2]][CHOOSE i \in DOMAIN place : place[i] = q]
                 ELSE p.hist[f][e[2]]
        ELSE LET o == d.host[e[2]] IN
             IF o.op = "write" THEN o.values[q]
             ELSE LET from == o.from[q]
                      writes == {c \in Events(d, p) : from \in Targets(d, p, c)
                                                      /\ IssuedAt(d, p, c) < e[2]}
                      last == CHOOSE c \in writes : \A b \in writes :
                                  IssuedAt(d, p, b) <= IssuedAt(d, p, c)
                  IN  Append(old, p.hist[last[1][2]][last[2]]))

PlanOf(d) ==
    LET fifos == DOMAIN d.depth
        released(w) == [i \in DOMAIN d.prog[w] |-> d.prog[w][i].free]
        produced(w) == [i \in DOMAIN d.prog[w] |-> Names(d.prog[w][i].out)]
        taken == Table([w \in DOMAIN d.prog |-> CountsOf(d, released(w))])
        made == Table([w \in DOMAIN d.prog |-> CountsOf(d, produced(w))])
        hist == Table([f \in fifos |-> HistoryOf(d, taken, made, f)])
        places == Table([f \in fifos |-> IssuedBefore(d, f, Len(d.host) + 1)])
        movesOf(a) ==
            CASE a[1] = "kernel" -> Len(d.prog[a[2]])
              [] a[1] = "host" -> Len(d.host)
              [] a[1] = "drain" -> Len(places[a[2]])
              [] OTHER -> Len(hist[a[2]])
        tables == [taken |-> taken, made |-> made, hist |-> hist, places |-> places,
                   told |-> Table([i \in 1..(Len(d.host) + 1) |->
                                [f \in fifos |-> Len(IssuedBefore(d, f, i))]]),
                   moves |-> Table([a \in ActorsOf(d) |-> movesOf(a)])]
        needs == Table([e \in Events(d, tables) |-> Needs(d, tables, e)])
        times == Timed(tables.moves, needs, Table([a \in ActorsOf(d) |-> 0]),
                       [clock |-> <<>>, rank |-> <<>>, round |-> 0])
        writers == Table([e \in {c \in Events(d, tables) : Targets(d, tables, c) # {}} |->
                        Targets(d, tables, e)])
        writes == Table([q \in DOMAIN d.mem |->
            SetToSortSeq({e \in DOMAIN writers : q \in writers[e]},
                         LAMBDA b, c : IssuedAt(d, tables, b) < IssuedAt(d, tables, c))])
    IN  tables @@ [clock |-> times.clock, rank |-> times.rank, writes |-> writes,
                   values |-> Table([q \in DOMAIN d.mem |->
                       FoldLeft(LAMBDA values, e : Add(d, tables, values, q, e),
                                <<d.mem[q]>>, writes[q])])]
=============================================================================
