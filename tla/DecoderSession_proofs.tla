------------------------ MODULE DecoderSession_proofs ------------------------
(***************************************************************************)
(* Theorems about DecoderSession.  It implements both of its components,   *)
(* so what is proved of them holds here; beyond that, the lock of          *)
(* CompletionEngine makes every generation of the server the only one that *)
(* writes, which is what PrefixCache needs for fresh logits.               *)
(***************************************************************************)
EXTENDS DecoderSession, TLAPS

C == INSTANCE PrefixCache_proofs

-----------------------------------------------------------------------------
(***************************************************************************)
(* CompletionEngine by itself, for any callers, models and number of loads:*)
(* the inductive invariant says who holds the lock and, for the holder,    *)
(* what the engine's two fields mean in the phase it is in.                *)
(***************************************************************************)
Held == {"load", "build", "warmup", "generate"}

OneHolder == \A c \in Callers : cpc[c] \in Held <=> lock = c

\* A model id is recorded only beside the warm, open decoder built from it.
NamedMeansWarm ==
    activeModel # NoOne =>
        /\ activeDecoder \in open /\ activeDecoder \in warm
        /\ modelOf[activeDecoder] = activeModel

PhaseFacts(c) ==
    /\ cpc[c] # "idle" => want[c] \in Models
    /\ cpc[c] = "build" => activeDecoder = 0 /\ activeModel = NoOne
    /\ cpc[c] = "warmup" =>
          /\ activeModel = NoOne /\ activeDecoder \in open
          /\ modelOf[activeDecoder] = want[c]
    /\ cpc[c] = "generate" =>
          using[c] = activeDecoder /\ activeModel = want[c]

SessionInv ==
    /\ Session!TypeOK
    /\ OneHolder
    /\ NamedMeansWarm
    /\ Session!OneOpenDecoder
    /\ \A c \in Callers : PhaseFacts(c)

LEMMA InitSession == Session!Init => SessionInv
BY SessionAssumption
DEF Session!Init, SessionInv, Session!TypeOK, Session!Labels, Held, OneHolder,
    NamedMeansWarm,
    Session!OneOpenDecoder, PhaseFacts, Session!Decoders

\* Steps in which the engine's fields stay as they are.
LEMMA QuietStep ==
  ASSUME SessionInv, NEW c \in Callers,
         \/ Session!Request(c) \/ Session!Acquire(c) \/ Session!Reuse(c)
         \/ Session!BuildFails(c) \/ Session!WarmupFails(c) \/ Session!Finish(c)
  PROVE  SessionInv'
<1>1. UNCHANGED <<activeModel, activeDecoder, loads, modelOf, open, warm>>
  BY DEF Session!Request, Session!Acquire, Session!Reuse, Session!BuildFails,
         Session!WarmupFails, Session!Finish
<1>2. NamedMeansWarm' /\ Session!OneOpenDecoder'
  BY <1>1 DEF SessionInv, NamedMeansWarm, Session!OneOpenDecoder
<1>3. CASE Session!Request(c)
  BY <1>1, <1>2, <1>3, SessionAssumption
  DEF SessionInv, Session!TypeOK, Session!Labels, Held, OneHolder, PhaseFacts,
      Session!Request, Session!Goto
<1>4. CASE Session!Acquire(c)
  BY <1>1, <1>2, <1>4, SessionAssumption
  DEF SessionInv, Session!TypeOK, Session!Labels, Held, OneHolder, PhaseFacts,
      Session!Acquire, Session!Goto
<1>5. CASE Session!Reuse(c)
  BY <1>1, <1>2, <1>5, SessionAssumption
  DEF SessionInv, Session!TypeOK, Session!Labels, Held, OneHolder, PhaseFacts,
      Session!Reuse, Session!Goto
<1>6. CASE Session!BuildFails(c) \/ Session!WarmupFails(c) \/ Session!Finish(c)
  <2>1. Session!End(c) /\ lock = c
    BY <1>6
    DEF Session!BuildFails, Session!WarmupFails, Session!Finish, SessionInv,
        OneHolder, Held
  <2> QED
    BY <1>1, <1>2, <2>1, SessionAssumption
    DEF SessionInv, Session!TypeOK, Session!Labels, Held, OneHolder, PhaseFacts,
        Session!End, Session!Goto
<1> QED
  BY <1>3, <1>4, <1>5, <1>6

LEMMA ReleaseStep ==
  ASSUME SessionInv, NEW c \in Callers, Session!Release(c)
  PROVE  SessionInv'
<1>1. \A d \in Callers : cpc[d] \in Held => d = c
  BY DEF SessionInv, OneHolder, Session!Release, Held
<1>2. Session!TypeOK'
  BY DEF SessionInv, Session!TypeOK, Session!Labels, Session!Release,
         Session!CloseActive, Session!Goto
<1>3. OneHolder'
  BY DEF SessionInv, Session!TypeOK, OneHolder, Held, Session!Release,
         Session!Goto
<1>4. NamedMeansWarm' /\ Session!OneOpenDecoder'
  BY DEF SessionInv, NamedMeansWarm, Session!OneOpenDecoder, Session!Release,
         Session!CloseActive
<1>5. \A d \in Callers : PhaseFacts(d)'
  BY <1>1
  DEF SessionInv, Session!TypeOK, Held, PhaseFacts, Session!Release,
      Session!CloseActive, Session!Goto
<1> QED
  BY <1>2, <1>3, <1>4, <1>5 DEF SessionInv

LEMMA BuildStep ==
  ASSUME SessionInv, NEW c \in Callers, Session!Build(c)
  PROVE  SessionInv'
<1>1. \A d \in Callers : cpc[d] \in Held => d = c
  BY DEF SessionInv, OneHolder, Session!Build, Held
<1>2. /\ loads \in Nat /\ loads + 1 \in Session!Decoders /\ loads' = loads + 1
      /\ want[c] \in Models /\ activeDecoder = 0 /\ activeModel = NoOne
      /\ open = {}
  <2>1. activeDecoder = 0 /\ activeModel = NoOne /\ want[c] \in Models
    BY DEF SessionInv, PhaseFacts, Session!Build
  <2>2. loads \in Nat /\ loads + 1 \in Session!Decoders /\ loads' = loads + 1
    BY SessionAssumption
    DEF SessionInv, Session!TypeOK, Session!Build, Session!Decoders
  <2>3. 0 \notin open
    BY <2>2 DEF SessionInv, Session!TypeOK
  <2> QED
    BY <2>1, <2>2, <2>3 DEF SessionInv, Session!OneOpenDecoder
<1>3. Session!TypeOK'
  <2>1. modelOf' \in [Session!Decoders -> Models \cup {NoOne}]
    BY <1>2 DEF SessionInv, Session!TypeOK, Session!Build
  <2>2. open' \subseteq 1..loads' /\ warm' \subseteq 1..loads' /\ loads' \in 0..MaxLoads
        /\ activeDecoder' \in 0..loads' /\ using' \in [Callers -> 0..loads']
    BY <1>2, SessionAssumption DEF SessionInv, Session!TypeOK, Session!Build
  <2> QED
    BY <2>1, <2>2
    DEF SessionInv, Session!TypeOK, Session!Build, Session!Labels, Session!Goto
<1>4. OneHolder'
  BY DEF SessionInv, Session!TypeOK, OneHolder, Held, Session!Build, Session!Goto
<1>5. NamedMeansWarm' /\ Session!OneOpenDecoder'
  BY <1>2 DEF NamedMeansWarm, Session!OneOpenDecoder, Session!Build
<1>6. \A d \in Callers : PhaseFacts(d)'
  BY <1>1, <1>2
  DEF SessionInv, Session!TypeOK, Held, PhaseFacts, Session!Build, Session!Goto
<1> QED
  BY <1>3, <1>4, <1>5, <1>6 DEF SessionInv

LEMMA WarmupStep ==
  ASSUME SessionInv, NEW c \in Callers, Session!Warmup(c)
  PROVE  SessionInv'
<1>1. \A d \in Callers : cpc[d] \in Held => d = c
  BY DEF SessionInv, OneHolder, Session!Warmup, Held
<1>2. /\ activeDecoder \in open /\ modelOf[activeDecoder] = want[c]
      /\ want[c] \in Models
  BY DEF SessionInv, PhaseFacts, Session!Warmup
<1>3. Session!TypeOK'
  BY <1>2
  DEF SessionInv, Session!TypeOK, Session!Labels, Session!Warmup, Session!Goto
<1>4. OneHolder'
  BY DEF SessionInv, Session!TypeOK, OneHolder, Held, Session!Warmup, Session!Goto
<1>5. NamedMeansWarm' /\ Session!OneOpenDecoder'
  BY <1>2 DEF SessionInv, NamedMeansWarm, Session!OneOpenDecoder, Session!Warmup
<1>6. \A d \in Callers : PhaseFacts(d)'
  BY <1>1
  DEF SessionInv, Session!TypeOK, Held, PhaseFacts, Session!Warmup, Session!Goto
<1> QED
  BY <1>3, <1>4, <1>5, <1>6 DEF SessionInv

LEMMA CloseStep ==
  ASSUME SessionInv, Session!Close
  PROVE  SessionInv'
<1>1. Session!TypeOK'
  BY DEF SessionInv, Session!TypeOK, Session!Close, Session!CloseActive
<1>2. OneHolder' /\ NamedMeansWarm' /\ Session!OneOpenDecoder'
  BY DEF SessionInv, OneHolder, NamedMeansWarm, Session!OneOpenDecoder,
         Session!Close, Session!CloseActive
<1>3. \A d \in Callers : PhaseFacts(d)'
  BY DEF SessionInv, PhaseFacts, Session!Close
<1> QED
  BY <1>1, <1>2, <1>3 DEF SessionInv

LEMMA NextSession == SessionInv /\ [Session!Next]_(Session!vars) => SessionInv'
<1> SUFFICES ASSUME SessionInv, [Session!Next]_(Session!vars) PROVE SessionInv'
    OBVIOUS
<1>1. ASSUME NEW c \in Callers, Session!CallerStep(c) PROVE SessionInv'
  BY <1>1, QuietStep, ReleaseStep, BuildStep, WarmupStep DEF Session!CallerStep
<1>2. CASE Session!Close
  BY <1>2, CloseStep
<1>3. CASE UNCHANGED Session!vars
  BY <1>3
  DEF Session!vars, SessionInv, Session!TypeOK, OneHolder, NamedMeansWarm,
      Session!OneOpenDecoder, PhaseFacts
<1> QED
  BY <1>1, <1>2, <1>3 DEF Session!Next

\* CompletionEngine alone opens no decoder beside the one the next load or
\* close() would close, whatever loads and warm-ups failed before.
THEOREM OneDecoder == Session!Spec => []Session!OneOpenDecoder
<1>1. SessionInv => Session!OneOpenDecoder
  BY DEF SessionInv
<1> QED
  BY <1>1, InitSession, NextSession, PTL DEF Session!Spec

LEMMA InvMeansRight == SessionInv => Session!RightDecoder
BY SessionAssumption
DEF SessionInv, NamedMeansWarm, PhaseFacts, Session!RightDecoder

\* Every request of CompletionEngine is generated by an open, warm decoder of
\* its own model.
THEOREM RequestsGetTheirModel == Session!Spec => []Session!RightDecoder
BY InvMeansRight, InitSession, NextSession, PTL DEF Session!Spec

-----------------------------------------------------------------------------
(***************************************************************************)
(* The composition takes only steps of its two components.                 *)
(***************************************************************************)
LEMMA SessionStep == [Next]_vars => [Session!Next]_(Session!vars)
<1> USE DEF Session!Next, Session!CallerStep, Session!vars, sessionVars
<1> SUFFICES ASSUME [Next]_vars PROVE Session!Next \/ UNCHANGED sessionVars
  OBVIOUS
<1>1. CASE UNCHANGED vars
  BY <1>1 DEF vars
<1>2. CASE Direct
  BY <1>2 DEF Direct
<1>3. CASE Close
  BY <1>3 DEF Close
<1>4. ASSUME NEW c \in Callers, Prepare(c)
      PROVE  Session!Next
  BY <1>4 DEF Prepare
<1>5. ASSUME NEW c \in Callers, Build(c) \/ Warmup(c)
      PROVE  Session!Next
  BY <1>5 DEF Build, Warmup
<1>6. ASSUME NEW c \in Callers, Generate(c)
      PROVE  Session!Next \/ UNCHANGED sessionVars
  BY <1>6 DEF Generate
<1> QED
  BY <1>1, <1>2, <1>3, <1>4, <1>5, <1>6 DEF Next, Serve

LEMMA AlwaysSession == Spec => []SessionInv
BY InitSession, SessionStep, NextSession, PTL DEF Spec, Init

-----------------------------------------------------------------------------
LEMMA SameGenStep ==
  ASSUME NEW g, Cache!GenStep(g)
  PROVE  C!GenStep(g)
<1>1. CASE Cache!Start(g)
  BY <1>1 DEF Cache!Start, C!Start, Cache!Prompts, C!Prompts,
     Cache!Vocabulary, C!Vocabulary, Cache!Reusable, C!Reusable,
     Cache!Shares, C!Shares, Cache!Prefix, C!Prefix, Cache!Max, C!Max,
     C!GenStep
<1>2. CASE Cache!Prefill(g)
  BY <1>2 DEF Cache!Prefill, C!Prefill, Cache!Decode, C!Decode,
     Cache!NewRow, C!NewRow, Cache!Coherent, C!Coherent, Cache!Recorded,
     C!Recorded, Cache!Kept, C!Kept, Cache!Prefix, C!Prefix,
     Cache!Vocabulary, C!Vocabulary, Cache!Mixed, C!Mixed, C!GenStep
<1>3. CASE Cache!ChooseEos(g)
  BY <1>3 DEF Cache!ChooseEos, C!ChooseEos, Cache!Finish, C!Finish,
     Cache!devVars, C!devVars, C!GenStep
<1>4. CASE Cache!ChooseLast(g)
  BY <1>4 DEF Cache!ChooseLast, C!ChooseLast, Cache!Finish, C!Finish,
     Cache!devVars, C!devVars, C!GenStep
<1>5. CASE Cache!ChooseToken(g)
  BY <1>5 DEF Cache!ChooseToken, C!ChooseToken, Cache!devVars, C!devVars,
     C!GenStep
<1>6. CASE Cache!Resume(g)
  BY <1>6 DEF Cache!Resume, C!Resume, Cache!Finish, C!Finish, Cache!devVars,
     C!devVars, C!GenStep
<1>7. CASE Cache!Abandon(g)
  BY <1>7 DEF Cache!Abandon, C!Abandon, Cache!Finish, C!Finish,
     Cache!devVars, C!devVars, C!GenStep
<1>8. CASE Cache!Step(g)
  BY <1>8 DEF Cache!Step, C!Step, Cache!Decode, C!Decode, Cache!NewRow,
     C!NewRow, Cache!Coherent, C!Coherent, Cache!Recorded, C!Recorded,
     Cache!Kept, C!Kept, Cache!Prefix, C!Prefix, Cache!Vocabulary,
     C!Vocabulary, Cache!Mixed, C!Mixed, C!GenStep
<1>9. CASE Cache!StepFails(g)
  BY <1>9 DEF Cache!StepFails, C!StepFails, Cache!Finish, C!Finish,
     Cache!Leavings, C!Leavings, Cache!NewRow, C!NewRow, Cache!Coherent,
     C!Coherent, Cache!Kept, C!Kept, Cache!Prefix, C!Prefix, Cache!Mixed,
     C!Mixed, C!GenStep
<1> QED
  BY <1>1, <1>2, <1>3, <1>4, <1>5, <1>6, <1>7, <1>8, <1>9 DEF Cache!GenStep

LEMMA SameWarmup == Cache!Warmup => C!Warmup
BY SMT DEF Cache!Warmup, C!Warmup, Cache!Positions, C!Positions,
     Cache!Mixed, C!Mixed, Cache!genVars, C!genVars

LEMMA SameDirect == Cache!Next => C!Next
<1>1. CASE \E g \in Gens : Cache!GenStep(g)
  BY <1>1, SameGenStep DEF C!Next
<1>2. ASSUME NEW token \in Cache!Vocabulary, NEW p \in Cache!Positions,
             Cache!DecodeToken(token, p)
      PROVE  C!Next
  <2>1. C!DecodeToken(token, p)
    BY <1>2 DEF Cache!DecodeToken, C!DecodeToken, Cache!Kept, C!Kept,
     Cache!Leavings, C!Leavings, Cache!NewRow, C!NewRow, Cache!Coherent,
     C!Coherent, Cache!Prefix, C!Prefix, Cache!Mixed, C!Mixed,
     Cache!genVars, C!genVars
  <2> QED
    BY <2>1 DEF C!Next, Cache!Vocabulary, C!Vocabulary, Cache!Positions, C!Positions
<1>3. CASE Cache!Warmup
  BY <1>3, SameWarmup DEF C!Next
<1>4. CASE Cache!ResetPrefix
  BY <1>4 DEF Cache!ResetPrefix, C!ResetPrefix, Cache!genVars, C!genVars,
     C!Next
<1> QED
  BY <1>1, <1>2, <1>3, <1>4 DEF Cache!Next

LEMMA SameCacheVars == UNCHANGED cacheVars => UNCHANGED C!vars
BY DEF cacheVars, C!vars, C!devVars, C!genVars

LEMMA SameCacheInit == Cache!Init => C!Init
BY DEF Cache!Init, C!Init, Cache!Positions, C!Positions, Cache!Mixed, C!Mixed

LEMMA CacheStep == [Next]_vars => [C!Next]_C!vars
<1> SUFFICES ASSUME [Next]_vars PROVE C!Next \/ UNCHANGED C!vars
  OBVIOUS
<1>1. CASE UNCHANGED vars
  BY <1>1, SameCacheVars DEF vars
<1>2. CASE Direct
  BY <1>2, SameDirect DEF Direct
<1>3. CASE Close
  BY <1>3, SameCacheVars DEF Close
<1>4. ASSUME NEW c \in Callers, Prepare(c)
      PROVE  UNCHANGED C!vars
  BY <1>4, SameCacheVars DEF Prepare
<1>5. ASSUME NEW c \in Callers, Build(c) \/ Warmup(c)
      PROVE  C!Next
  BY <1>5, SameWarmup DEF Build, Warmup, C!Next
<1>6. ASSUME NEW c \in Callers, Generate(c)
      PROVE  C!Next
  BY <1>6, SameGenStep, DecoderAssumption DEF Generate, C!Next
<1> QED
  BY <1>1, <1>2, <1>3, <1>4, <1>5, <1>6 DEF Next, Serve

LEMMA AlwaysCache == Spec => []C!FreshInv
<1>1. Spec => C!Spec
  BY SameCacheInit, CacheStep, PTL DEF Spec, Init, C!Spec
<1> QED
  BY <1>1, C!AlwaysFresh, CacheAssumption, PTL DEF C!CacheAssumption

-----------------------------------------------------------------------------
\* A generation of the server runs under the lock, and nobody wrote a row
\* since it started.
Alone ==
    served => \A c \in Callers :
                 phase[c] # "idle" => cpc[c] = "generate" /\ c \in sole

Facts == SessionInv /\ C!FreshInv /\ Alone

LEMMA Types ==
  ASSUME Facts
  PROVE  /\ phase \in [Callers -> C!Phases]
         /\ cpc \in [Callers -> Session!Labels]
         /\ \A c, d \in Callers :
               cpc[c] \in Held /\ cpc[d] \in Held => c = d
BY DecoderAssumption
DEF Facts, SessionInv, Session!TypeOK, OneHolder, C!FreshInv, C!CacheInv, C!GenTypes

LEMMA InitAlone == Init => Alone
BY DecoderAssumption DEF Init, Cache!Init, Alone

\* A frame of the generator that goes on or starts is still alone.
LEMMA GenStepAlone ==
  ASSUME NEW c \in Callers, Cache!GenStep(c),
         phase \in [Callers -> C!Phases], phase[c] # "idle" => c \in sole
  PROVE  /\ phase'[c] # "idle" => c \in sole'
         /\ \A d \in Callers \ {c} : phase'[d] = phase[d]
BY DEF Cache!GenStep, Cache!Start, Cache!Prefill, Cache!ChooseEos,
       Cache!ChooseLast, Cache!ChooseToken, Cache!Resume, Cache!Abandon,
       Cache!Step, Cache!StepFails, Cache!Finish

LEMMA NextAlone == Facts /\ [Next]_vars => Alone'
<1> SUFFICES ASSUME Facts, [Next]_vars, served' PROVE Alone'
  BY DEF Alone
<1>0. CASE UNCHANGED vars
  BY <1>0 DEF Facts, Alone, vars, cacheVars, sessionVars
<1>1. ASSUME NEW c \in Callers, Prepare(c), served
      PROVE  Alone'
  <2>1. /\ phase' = phase /\ sole' = sole
        /\ \A d \in Callers \ {c} : cpc'[d] = cpc[d]
        /\ cpc[c] # "generate"
    BY <1>1, Types
    DEF Prepare, cacheVars, Session!Request, Session!Acquire, Session!Reuse,
        Session!Release, Session!BuildFails, Session!WarmupFails, Session!Goto,
        Session!End
  <2> QED
    BY <1>1, <2>1 DEF Facts, Alone
<1>2. ASSUME NEW c \in Callers, Build(c) \/ Warmup(c), served
      PROVE  Alone'
  <2>1. phase' = phase /\ cpc[c] \in {"build", "warmup"}
    BY <1>2 DEF Build, Warmup, Session!Build, Session!Warmup, Cache!Warmup,
                Cache!genVars
  <2>2. \A d \in Callers : cpc[d] # "generate"
    BY <2>1, Types DEF Held
  <2> QED
    BY <1>2, <2>1, <2>2 DEF Facts, Alone
<1>3. ASSUME NEW c \in Callers, Generate(c), served
      PROVE  Alone'
  <2>1. cpc[c] = "generate" /\ Cache!GenStep(c)
    BY <1>3 DEF Generate
  <2>2. \A d \in Callers \ {c} : phase[d] = "idle"
    BY <1>3, <2>1, Types DEF Held, Facts, Alone
  <2>3. /\ phase'[c] # "idle" => c \in sole'
        /\ \A d \in Callers \ {c} : phase'[d] = "idle"
    BY <1>3, <2>1, <2>2, Types, GenStepAlone DEF Facts, Alone
  <2>4. phase'[c] # "idle" => cpc' = cpc
    BY <1>3 DEF Generate, sessionVars
  <2> QED
    BY <2>1, <2>3, <2>4 DEF Alone
<1>4. ASSUME Close, served
      PROVE  Alone'
  <2>1. UNCHANGED <<phase, sole, cpc>>
    BY <1>4 DEF Close, Session!Close, cacheVars
  <2> QED
    BY <1>4, <2>1 DEF Facts, Alone
<1> QED
  BY <1>0, <1>1, <1>2, <1>3, <1>4 DEF Next, Serve

LEMMA AlwaysFacts == Spec => []Facts
<1>1. Init => Alone
  BY InitAlone
<1>2. SessionInv /\ C!FreshInv /\ Alone /\ [Next]_vars => Alone'
  BY NextAlone DEF Facts
<1>3. SessionInv /\ C!FreshInv /\ Alone => Facts
  BY DEF Facts
<1> QED
  BY <1>1, <1>2, <1>3, AlwaysSession, AlwaysCache, PTL DEF Spec

\* Every answer of the server is generated from fresh logits: the lock gives
\* each generation the cache to itself, and what earlier requests, models,
\* failures and abandoned streams left there is never taken for its own.
THEOREM ServedAnswersFresh == Spec => []ServedFresh
<1>1. Facts => ServedFresh
  <2> SUFFICES ASSUME Facts, served, NEW c \in Callers, phase[c] = "choose"
               PROVE  basis[c] = text[c]
    BY DEF ServedFresh
  <2>1. c \in sole
    BY DEF Facts, Alone
  <2> QED
    BY <2>1 DEF Facts, C!FreshInv, C!FreshLogits
<1> QED
  BY <1>1, AlwaysFacts, PTL

\* When its generations run step by step on the cache, CompletionEngine still
\* opens one decoder at a time.
THEOREM OneDecoderInUse == Spec => []OneOpenDecoder
<1>1. SessionInv => OneOpenDecoder
  BY DEF SessionInv, OneOpenDecoder
<1> QED
  BY <1>1, AlwaysSession, PTL

\* And every request is generated, from its first token to its last, by an
\* open, warm decoder of its own model.
THEOREM RightDecoderInUse == Spec => []RightDecoder
<1>1. SessionInv => RightDecoder
  BY InvMeansRight DEF RightDecoder
<1> QED
  BY <1>1, AlwaysSession, PTL

\* The recorded prefix stays exact when decoders are built, warmed and closed
\* around it, and when a program drives a decoder directly.
THEOREM PrefixStaysExact == Spec => []PrefixExact
<1>1. C!FreshInv => PrefixExact
  BY DEF C!FreshInv, C!CacheInv, C!PrefixExact, C!Prefix,
         PrefixExact, Cache!PrefixExact, Cache!Prefix
<1> QED
  BY <1>1, AlwaysCache, PTL

\* So do the logits of every generation nobody else wrote into.
THEOREM LogitsStayFresh == Spec => []FreshLogits
<1>1. C!FreshInv => FreshLogits
  BY DEF C!FreshInv, C!FreshLogits, FreshLogits, Cache!FreshLogits
<1> QED
  BY <1>1, AlwaysCache, PTL

\* And no generation decodes at a position outside the window.
THEOREM WindowSuffices == Spec => []InsideWindow
<1>1. C!InsideWindow => InsideWindow
  BY DEF C!InsideWindow, InsideWindow, Cache!InsideWindow
<1>2. Spec => C!Spec
  BY SameCacheInit, CacheStep, PTL DEF Spec, Init, C!Spec
<1>3. Spec => []C!InsideWindow
  BY <1>2, C!StepsInsideWindow, CacheAssumption, PTL DEF C!CacheAssumption
<1> QED
  BY <1>1, <1>3, PTL
=============================================================================
