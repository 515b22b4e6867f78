-------------------------- MODULE XdnaBackend_proofs ------------------------
(***************************************************************************)
(* Theorems about XdnaBackend for any models, sizes, limits and batch.     *)
(* For the slots nothing about the caches' books is needed: whatever an    *)
(* eviction takes away, the record of a slot names the cached object or    *)
(* none, and where tiles are streamed there is no record (GateKept).  The  *)
(* books themselves are BudgetInv: each list names each entry of*)
(* its map once, and what was asked for finds its room made.               *)
(***************************************************************************)
EXTENDS XdnaBackend, SequenceTheorems, FiniteSetTheorems, WellFoundedInduction, TLAPS

ExpertSteps == {"slots", "run"}
DenseSteps == {"tiles", "stream"}

SlotType ==
    /\ step \in {"idle"} \cup ExpertSteps \cup DenseSteps
    /\ at \in Nat \ {0}
    /\ dirty \subseteq Slots
    /\ \A b \in Buffers : DOMAIN up[b] = Slots /\ DOMAIN dev[b] = Slots
    /\ DOMAIN up = Buffers /\ DOMAIN dev = Buffers /\ DOMAIN doubt = Buffers
    /\ step \in ExpertSteps =>
          Buffer \in Buffers /\ Len(call.chosen) \in 1..Batch

Recorded(b, s) == up[b][s] # Empty /\ up[b][s] # Orphan
InCall(b) == step \in ExpertSteps /\ Buffer = b

\* Outside doubt, a record names what the device holds; in the call that made
\* the record, from the slot's transfer on.
RecordsHold ==
    \A b \in Buffers, s \in Slots :
        Recorded(b, s) /\ s \notin doubt[b] /\ ~(InCall(b) /\ s \in dirty)
            => dev[b][s] = up[b][s]

\* The slots behind the call: to be transferred, doubtful, or right.
Behind ==
    step \in ExpertSteps =>
        \A s \in Slots : s < at =>
            /\ s \in Chosen => s \in dirty \/ s \in doubt[Buffer] \/ Right(s)
            /\ s \in dirty /\ s \in Chosen => up[Buffer][s] \in {Orphan, Wanted(s)}
            /\ s \in dirty /\ s \notin Chosen => up[Buffer][s] \in {Empty, Orphan}

CallFacts ==
    /\ step \notin ExpertSteps => dirty = {}
    /\ \A s \in dirty : s < at
    /\ step = "run" => at > Batch /\ dirty = {}
    /\ stage # "idle" =>
          \/ step = "slots" /\ at \in Chosen /\ wanted = <<Buffer, Wanted(at)>>
          \/ step = "tiles" /\ at <= Tiles

\* The sums are those of the tiles before this one, once each.
Sums ==
    added = [t \in 1..Tiles |-> IF step \in DenseSteps /\ t < at THEN 1 ELSE 0]

SlotInv == SlotType /\ RecordsHold /\ Behind /\ CallFacts

\* Where dense products are let through, no slot has a record of an expert.
GateKept ==
    /\ model \in Models
    /\ step \in DenseSteps => SupportsDenseQwen(model)
    /\ SupportsDenseQwen(model) =>
          step \notin ExpertSteps /\ \A b \in Buffers, s \in Slots : ~Recorded(b, s)

-----------------------------------------------------------------------------
\* Facts about data

LEMMA MinIsIn ==
  ASSUME NEW S \in SUBSET Nat, S # {}
  PROVE  Min(S) \in S
<1>1. PICK x \in S : \A y \in S : ~(<<y, x>> \in OpToRel(<, Nat))
  BY WFMin, NatLessThanWellFounded, Zenon
<1>2. \A y \in S : x <= y
  <2>1. SUFFICES ASSUME NEW y \in S PROVE x <= y
    OBVIOUS
  <2>2. <<y, x>> \in Nat \X Nat /\ <<y, x>>[1] = y /\ <<y, x>>[2] = x
    OBVIOUS
  <2>3. ~(y < x)
    BY <1>1, <2>2 DEF OpToRel
  <2> QED
    BY <2>3
<1> QED
  BY <1>2 DEF Min

LEMMA KeyIsNoMark ==
  ASSUME NEW x, NEW y
  PROVE  <<x, y>> # Empty /\ <<x, y>> # Orphan
<1>1. Len(<<x, y>>) = 2 /\ Len(Empty) = 0 /\ Len(Orphan) = 1
  BY DEF Empty, Orphan
<1> QED
  BY <1>1

LEMMA MarksDiffer == Empty # Orphan
<1>1. Len(Empty) = 0 /\ Len(Orphan) = 1
  BY DEF Empty, Orphan
<1> QED
  BY <1>1

LEMMA StreamedBuffer == "expert" \in Buffers
<1>1. Order[1] = "expert" /\ 1 \in DOMAIN Order
  BY DEF Order
<1> QED
  BY <1>1 DEF Buffers, Kinds, Range, Dense

LEMMA InitSlots == Init => SlotInv /\ Sums
BY MarksDiffer, BackendAssumption
DEF Init, CacheInit, SlotInv, SlotType, RecordsHold, Behind, CallFacts, Sums,
    Same, Slots, ExpertSteps, DenseSteps, Nothing, Recorded, InCall

LEMMA InitGate == Init => GateKept
BY DEF Init, GateKept, Same, Slots, ExpertSteps, DenseSteps, Recorded

-----------------------------------------------------------------------------
\* Expert products

LEMMA StartStep ==
  ASSUME SlotInv, NEW b \in Buffers, NEW w, NEW chosen \in Selections,
         StartExperts(b, w, chosen)
  PROVE  SlotInv'
<1>1. Len(chosen) \in 1..Batch
  BY BackendAssumption DEF Selections, Slots
<1>2. Buffer' = b /\ Chosen' = 1..Len(chosen) /\ dirty = {} /\ dirty' = {} /\ at' = 1
  BY DEF StartExperts, Buffer, Chosen, SlotInv, CallFacts, ExpertSteps
<1>3. SlotType'
  BY <1>1, <1>2, StreamedBuffer
  DEF SlotInv, SlotType, StartExperts, ExpertSteps, Buffer
<1>4. RecordsHold'
  BY <1>2 DEF SlotInv, SlotType, RecordsHold, StartExperts, Recorded, InCall, ExpertSteps
<1>5. Behind' /\ CallFacts'
  BY <1>2 DEF SlotInv, Behind, CallFacts, StartExperts, ExpertSteps, Slots, cacheVars
<1> QED
  BY <1>3, <1>4, <1>5 DEF SlotInv

LEMMA EmptySlotStep ==
  ASSUME SlotInv, EmptySlot
  PROVE  SlotInv'
<1>1. Buffer' = Buffer /\ Chosen' = Chosen /\ step' = step /\ Buffer \in Buffers /\ at \in Slots
      /\ (\A s : Wanted(s)' = Wanted(s)) /\ at \notin Chosen
  BY BackendAssumption
  DEF EmptySlot, InSlots, Buffer, Chosen, Wanted, SlotInv, SlotType, ExpertSteps, Slots
<1>2. SlotType'
  BY <1>1 DEF SlotInv, SlotType, EmptySlot, InSlots, Buffer, ExpertSteps
<1>3. RecordsHold'
  BY <1>1 DEF SlotInv, SlotType, RecordsHold, EmptySlot, Recorded, InCall
<1>4. Behind'
  <2>1. SUFFICES ASSUME NEW s \in Slots, s < at'
                 PROVE  /\ s \in Chosen => s \in dirty' \/ s \in doubt'[Buffer] \/ Right(s)'
                        /\ s \in dirty' /\ s \in Chosen => up'[Buffer][s] \in {Orphan, Wanted(s)}
                        /\ s \in dirty' /\ s \notin Chosen => up'[Buffer][s] \in {Empty, Orphan}
    BY <1>1 DEF Behind
  <2>2. CASE s = at
    BY <1>1, <2>2 DEF SlotInv, SlotType, EmptySlot
  <2>3. CASE s # at
    <3>1. s < at
      BY <2>1, <2>3 DEF EmptySlot, SlotInv, SlotType, Slots
    <3> QED
      BY <1>1, <2>3, <3>1 DEF SlotInv, SlotType, Behind, EmptySlot, InSlots, Right, ExpertSteps
  <2> QED
    BY <2>2, <2>3
<1>5. CallFacts'
  BY <1>1 DEF SlotInv, SlotType, CallFacts, EmptySlot, InSlots, ExpertSteps, cacheVars, Slots
<1> QED
  BY <1>2, <1>3, <1>4, <1>5 DEF SlotInv

LEMMA AskExpertStep ==
  ASSUME SlotInv, AskExpert
  PROVE  SlotInv'
<1>1. UNCHANGED <<callVars, slotVars>> /\ step = "slots" /\ at \in Chosen
      /\ wanted' = <<Buffer, Wanted(at)>>
  BY DEF AskExpert, InSlots, Ask, Hit, Miss, SlotInv, SlotType, Chosen, Buffer, ExpertSteps
<1> QED
  BY <1>1
  DEF callVars, slotVars, SlotInv, SlotType, RecordsHold, Behind, CallFacts, Recorded,
      InCall, Right, Chosen, Buffer, Wanted

LEMMA TakeExpertStep ==
  ASSUME SlotInv, TakeExpert
  PROVE  SlotInv'
<1>1. /\ Buffer' = Buffer /\ Chosen' = Chosen /\ step' = step /\ step = "slots"
      /\ \A s : Wanted(s)' = Wanted(s)
      /\ Buffer \in Buffers /\ at \in Slots /\ at \in Chosen
      /\ Key = Wanted(at) /\ stage' = "idle" /\ at' = at + 1
      /\ UNCHANGED <<dev, doubt>>
  BY BackendAssumption
  DEF TakeExpert, Take, Buffer, Chosen, Wanted, Key, SlotInv, SlotType, CallFacts,
      ExpertSteps, Slots
<1>2. Key # Empty /\ Key # Orphan
  BY <1>1, KeyIsNoMark DEF Wanted
<1>3. at \notin dirty
  BY DEF SlotInv, SlotType, CallFacts, Slots
<1>4. CASE UNCHANGED <<up, dirty>> /\ up[Buffer][at] = Key
  <2>1. at \in doubt[Buffer] \/ Right(at)
    BY <1>1, <1>2, <1>3, <1>4 DEF SlotInv, RecordsHold, Recorded, Right
  <2>2. SlotType' /\ RecordsHold' /\ CallFacts'
    BY <1>1, <1>4
    DEF SlotInv, SlotType, RecordsHold, CallFacts, Recorded, InCall, ExpertSteps, TakeExpert, Slots
  <2>3. Behind'
    BY <1>1, <1>3, <1>4, <2>1 DEF SlotInv, SlotType, Behind, Right, Slots, ExpertSteps
  <2> QED
    BY <2>2, <2>3 DEF SlotInv
<1>5. CASE /\ up' = [up EXCEPT ![Buffer][at] = IF stage = "cached" THEN Key ELSE Orphan]
           /\ dirty' = dirty \cup {at}
  <2>1. SlotType' /\ CallFacts'
    BY <1>1, <1>5 DEF SlotInv, SlotType, CallFacts, ExpertSteps, Slots, TakeExpert
  <2>2. RecordsHold'
    BY <1>1, <1>5
    DEF SlotInv, SlotType, RecordsHold, Recorded, InCall, ExpertSteps
  <2>3. Behind'
    <3>1. SUFFICES ASSUME NEW s \in Slots, s < at'
                   PROVE  /\ s \in Chosen => s \in dirty' \/ s \in doubt[Buffer] \/ Right(s)
                          /\ s \in dirty' /\ s \in Chosen => up'[Buffer][s] \in {Orphan, Wanted(s)}
                          /\ s \in dirty' /\ s \notin Chosen => up'[Buffer][s] \in {Empty, Orphan}
      BY <1>1 DEF Behind, Right
    <3>2. CASE s = at
      BY <1>1, <1>5, <3>2 DEF SlotInv, SlotType
    <3>3. CASE s # at
      <4>1. s < at
        BY <1>1, <3>1, <3>3 DEF SlotInv, SlotType, Slots
      <4> QED
        BY <1>1, <1>5, <3>3, <4>1 DEF SlotInv, SlotType, Behind, ExpertSteps
    <3> QED
      BY <3>2, <3>3
  <2> QED
    BY <2>1, <2>2, <2>3 DEF SlotInv
<1> QED
  BY <1>4, <1>5 DEF TakeExpert

LEMMA SyncSlotStep ==
  ASSUME SlotInv, SyncSlot
  PROVE  SlotInv'
<1> DEFINE m == Min(dirty)
<1>1. m \in dirty
  BY MinIsIn DEF SyncSlot, SlotInv, SlotType, Slots
<1> HIDE DEF m
<1>2. /\ Buffer' = Buffer /\ Chosen' = Chosen /\ step' = step /\ step = "slots"
      /\ \A s : Wanted(s)' = Wanted(s)
      /\ Buffer \in Buffers /\ at' = at /\ up' = up /\ at > Batch
      /\ dev' = [dev EXCEPT ![Buffer][m] = IF m \in Chosen THEN Wanted(m) ELSE Zero]
      /\ doubt' = [doubt EXCEPT ![Buffer] = @ \ {m}]
      /\ dirty' = dirty \ {m}
  BY DEF SyncSlot, Buffer, Chosen, Wanted, SlotInv, SlotType, ExpertSteps, m
<1>3. SlotType' /\ CallFacts'
  BY <1>2 DEF SlotInv, SlotType, CallFacts, ExpertSteps, SyncSlot, cacheVars
<1>4. m \in Slots /\ m < at
  BY <1>1 DEF SlotInv, SlotType, CallFacts
<1>5. IF m \in Chosen THEN up[Buffer][m] \in {Orphan, Wanted(m)} ELSE up[Buffer][m] \in {Empty, Orphan}
  BY <1>1, <1>2, <1>4 DEF SlotInv, Behind, ExpertSteps
<1>6. RecordsHold'
  BY <1>1, <1>2, <1>4, <1>5
  DEF SlotInv, SlotType, RecordsHold, Recorded, InCall, ExpertSteps
<1>7. Behind'
  BY <1>1, <1>2, <1>4 DEF SlotInv, SlotType, Behind, Right, ExpertSteps
<1> QED
  BY <1>3, <1>6, <1>7 DEF SlotInv

LEMMA DispatchStep ==
  ASSUME SlotInv, Dispatch
  PROVE  SlotInv'
<1>1. /\ Buffer' = Buffer /\ Chosen' = Chosen /\ at' = at /\ dirty = {} /\ dirty' = {}
      /\ \A s : Wanted(s)' = Wanted(s)
      /\ step = "slots" /\ step' = "run" /\ at > Batch /\ UNCHANGED slotVars
  BY DEF Dispatch, Buffer, Chosen, Wanted
<1>2. stage' = "idle"
  BY BackendAssumption
  DEF Dispatch, SlotInv, SlotType, CallFacts, cacheVars, Chosen, Slots, ExpertSteps
<1>3. SlotType' /\ CallFacts'
  BY <1>1, <1>2 DEF Dispatch, slotVars, SlotInv, SlotType, CallFacts, ExpertSteps
<1>4. RecordsHold' /\ Behind'
  BY <1>1
  DEF slotVars, SlotInv, RecordsHold, Behind, Recorded, InCall, Right, ExpertSteps
<1> QED
  BY <1>3, <1>4 DEF SlotInv

\* The end of a call that recorded nothing it did not transfer
LEMMA EndStep ==
  ASSUME SlotInv, dirty = {}, EndCall, UNCHANGED slotVars, stage' = "idle"
  PROVE  SlotInv'
BY DEF EndCall, slotVars, SlotInv, SlotType, RecordsHold, Behind, CallFacts, Recorded,
       InCall, ExpertSteps, Slots

LEMMA ExpertsFailStep ==
  ASSUME SlotInv, ExpertsFail
  PROVE  SlotInv'
<1>1. SlotType' /\ Behind' /\ CallFacts'
  BY DEF ExpertsFail, EndCall, Take, cacheVars, SlotInv, SlotType, Behind, CallFacts, ExpertSteps
<1>2. RecordsHold'
  BY DEF ExpertsFail, EndCall, SlotInv, SlotType, RecordsHold, Recorded, InCall, ExpertSteps
<1> QED
  BY <1>1, <1>2 DEF SlotInv

-----------------------------------------------------------------------------
\* Dense products

LEMMA OverwriteStep ==
  ASSUME SlotInv, GateKept, Overwrite, step \in DenseSteps, UNCHANGED <<up, owner, doubt>>,
         step' \notin ExpertSteps, step' \in {"idle"} \cup DenseSteps,
         at' \in Nat \ {0}, dirty' = dirty \/ dirty' = {}, stage' = "idle"
  PROVE  SlotInv'
<1>1. dirty = {} /\ dirty' = {}
  BY DEF SlotInv, CallFacts, DenseSteps, ExpertSteps
<1>2. SlotType'
  BY <1>1, StreamedBuffer DEF Overwrite, SlotInv, SlotType
<1>3. RecordsHold'
  BY DEF GateKept, RecordsHold, Recorded
<1>4. Behind' /\ CallFacts'
  BY <1>1 DEF Behind, CallFacts, ExpertSteps
<1> QED
  BY <1>2, <1>3, <1>4 DEF SlotInv

\* A step of a dense product that leaves the slots alone
LEMMA DenseStep ==
  ASSUME SlotInv, step \notin ExpertSteps, step' \in {"idle"} \cup DenseSteps,
         at' \in Nat \ {0}, dirty' = dirty \/ dirty' = {}, UNCHANGED slotVars,
         stage' = "idle" \/ (step' = "tiles" /\ at' <= Tiles)
  PROVE  SlotInv'
BY DEF slotVars, SlotInv, SlotType, RecordsHold, Behind, CallFacts, Recorded, InCall,
       ExpertSteps, DenseSteps

\* The cache's own steps: records turn into Orphan, and nothing else moves.
LEMMA CacheStep ==
  ASSUME SlotInv, CacheWork
  PROVE  SlotInv'
<1>1. /\ UNCHANGED <<callVars, owner, dev, doubt>>
      /\ stage # "idle" /\ wanted' = wanted
      /\ \A b \in Buffers, s \in Slots : up'[b][s] = up[b][s] \/ (up'[b][s] = Orphan /\ up[b][s] = Head(lru[Victim]))
      /\ DOMAIN up' = Buffers /\ \A b \in Buffers : DOMAIN up'[b] = Slots
  BY DEF CacheWork, EvictUnderCall, Quiet, Evict, PackExpert, PackTile, PackFails, Evicted,
         InsertExpert, MakeTile, SlotInv, SlotType
<1>2. /\ Buffer' = Buffer /\ Chosen' = Chosen /\ step' = step /\ at' = at /\ dirty' = dirty
      /\ \A s : Wanted(s)' = Wanted(s)
  BY <1>1 DEF callVars, Buffer, Chosen, Wanted
<1>3. SlotType' /\ CallFacts'
  <2>1. Wanted(at)' = Wanted(at)
    BY <1>1 DEF callVars, Wanted
  <2> QED
    BY <1>1, <1>2, <2>1 DEF SlotInv, SlotType, CallFacts, ExpertSteps, callVars
<1>4. RecordsHold'
  BY <1>1, <1>2 DEF SlotInv, SlotType, RecordsHold, Recorded, InCall
<1>5. Behind'
  BY <1>1, <1>2 DEF SlotInv, SlotType, Behind, Right
<1> QED
  BY <1>3, <1>4, <1>5 DEF SlotInv

-----------------------------------------------------------------------------
\* The theorems

LEMMA NextKeepsSlots == SlotInv /\ GateKept /\ [Next]_vars => SlotInv'
<1> SUFFICES ASSUME SlotInv, GateKept, [Next]_vars PROVE SlotInv'
  OBVIOUS
<1>1. ASSUME NEW b \in Buffers, NEW w \in model.tensors[b], NEW chosen \in Selections,
             StartExperts(b, w, chosen)
      PROVE  SlotInv'
  BY <1>1, StartStep
<1>2. CASE EmptySlot \/ AskExpert \/ TakeExpert \/ SyncSlot \/ Dispatch \/ ExpertsFail
  BY <1>2, EmptySlotStep, AskExpertStep, TakeExpertStep, SyncSlotStep, DispatchStep,
     ExpertsFailStep
<1>3. CASE Return
  <2>1. dirty = {} /\ EndCall /\ UNCHANGED slotVars /\ stage' = "idle"
    BY <1>3 DEF Return, SlotInv, CallFacts, ExpertSteps, cacheVars
  <2> QED
    BY <2>1, EndStep
<1>4. ASSUME NEW k \in Dense, NEW d \in model.tensors[k], StartDense(k, d)
      PROVE  SlotInv'
  <2>1. /\ step \notin ExpertSteps /\ step' \in {"idle"} \cup DenseSteps /\ at' \in Nat \ {0}
        /\ dirty' = dirty /\ UNCHANGED slotVars /\ stage' = "idle"
    BY <1>4 DEF StartDense, ExpertSteps, DenseSteps, SlotInv, CallFacts, cacheVars
  <2> QED
    BY <2>1, DenseStep
<1>5. CASE AskTile \/ TakeTile \/ Fallback
  <2>1. /\ step \notin ExpertSteps /\ step' \in {"idle"} \cup DenseSteps /\ at' \in Nat \ {0}
        /\ dirty' = dirty /\ UNCHANGED slotVars
        /\ stage' = "idle" \/ (step' = "tiles" /\ at' <= Tiles)
    BY <1>5
    DEF AskTile, TakeTile, Fallback, Take, ExpertSteps, DenseSteps, SlotInv, SlotType, callVars
  <2> QED
    BY <2>1, DenseStep
<1>6. CASE TileFails \/ Deliver
  <2>1. dirty = {} /\ EndCall /\ UNCHANGED slotVars /\ stage' = "idle"
    BY <1>6, BackendAssumption
    DEF TileFails, Deliver, Take, SlotInv, SlotType, CallFacts, ExpertSteps, cacheVars
  <2> QED
    BY <2>1, EndStep
<1>7. CASE StreamTile
  <2>1. /\ Overwrite /\ step \in DenseSteps /\ UNCHANGED <<up, owner, doubt>> /\ stage' = "idle"
        /\ step' \notin ExpertSteps /\ step' \in {"idle"} \cup DenseSteps
        /\ at' \in Nat \ {0} /\ dirty' = dirty
    BY <1>7
    DEF StreamTile, SlotInv, SlotType, CallFacts, ExpertSteps, DenseSteps, cacheVars
  <2> QED
    BY <2>1, OverwriteStep
<1>8. CASE StreamFails
  <2>1. /\ step \in DenseSteps /\ step \notin ExpertSteps /\ step' = "idle" /\ stage' = "idle"
        /\ step' \notin ExpertSteps /\ step' \in {"idle"} \cup DenseSteps
        /\ at' \in Nat \ {0} /\ dirty' = {} /\ UNCHANGED <<up, owner, doubt>>
        /\ Overwrite \/ UNCHANGED slotVars
    BY <1>8
    DEF StreamFails, EndCall, SlotInv, CallFacts, ExpertSteps, DenseSteps, cacheVars, slotVars
  <2> QED
    BY <2>1, OverwriteStep, DenseStep
<1>9. CASE CacheWork
  BY <1>9, CacheStep
<1>10. CASE UNCHANGED vars
  BY <1>10
  DEF vars, cacheVars, callVars, slotVars, SlotInv, SlotType, RecordsHold, Behind, CallFacts,
      Recorded, InCall, Right, Chosen, Buffer, Wanted, ExpertSteps
<1> QED
  BY <1>1, <1>2, <1>3, <1>4, <1>5, <1>6, <1>7, <1>8, <1>9, <1>10 DEF Next

\* Expert products need a model with experts, which the gate keeps from dense
\* products; the dense products themselves leave the records alone.
LEMMA NextKeepsGate == SlotInv /\ GateKept /\ [Next]_vars => GateKept'
<1> SUFFICES ASSUME SlotInv, GateKept, [Next]_vars PROVE GateKept'
  OBVIOUS
<1>1. ASSUME model' = model, step' \notin DenseSteps, ~SupportsDenseQwen(model)
      PROVE  GateKept'
  BY <1>1 DEF GateKept
<1>2. ASSUME model' = model, up' = up, step' \notin ExpertSteps,
             step' \in DenseSteps => SupportsDenseQwen(model)
      PROVE  GateKept'
  BY <1>2 DEF GateKept, Recorded
<1>3. ASSUME NEW b \in Buffers, NEW w \in model.tensors[b], NEW chosen \in Selections,
             StartExperts(b, w, chosen)
      PROVE  GateKept'
  <2>1. ~SupportsDenseQwen(model)
    BY <1>3, ModelAssumption DEF GateKept, SupportsDenseQwen
  <2> QED
    BY <1>1, <1>3, <2>1 DEF StartExperts, DenseSteps
<1>4. CASE EmptySlot \/ AskExpert \/ TakeExpert \/ SyncSlot \/ Dispatch \/ Return \/ ExpertsFail
  <2>1. model' = model /\ step \in ExpertSteps /\ step' \notin DenseSteps
    BY <1>4
    DEF EmptySlot, AskExpert, InSlots, TakeExpert, SyncSlot, Dispatch, Return, ExpertsFail,
        EndCall, callVars, ExpertSteps, DenseSteps
  <2> QED
    BY <1>1, <2>1 DEF GateKept
<1>5. ASSUME NEW k \in Dense, NEW d \in model.tensors[k], StartDense(k, d)
      PROVE  GateKept'
  BY <1>2, <1>5 DEF StartDense, slotVars, ExpertSteps
<1>6. CASE AskTile \/ TakeTile \/ Fallback \/ StreamTile \/ StreamFails \/ TileFails \/ Deliver
  <2>1. model' = model /\ up' = up /\ step \in DenseSteps /\ step' \notin ExpertSteps
    BY <1>6
    DEF AskTile, TakeTile, Fallback, StreamTile, StreamFails, TileFails, Deliver, EndCall,
        callVars, slotVars, ExpertSteps, DenseSteps
  <2> QED
    BY <1>2, <2>1 DEF GateKept
<1>7. CASE CacheWork
  <2>1. /\ UNCHANGED <<model, step>>
        /\ \A b \in Buffers, s \in Slots : up'[b][s] = up[b][s] \/ up'[b][s] = Orphan
    BY <1>7 DEF CacheWork, EvictUnderCall, Quiet, callVars
  <2> QED
    BY <2>1 DEF GateKept, Recorded
<1>8. CASE UNCHANGED vars
  BY <1>8 DEF vars, callVars, slotVars, GateKept, Recorded
<1> QED
  BY <1>3, <1>4, <1>5, <1>6, <1>7, <1>8 DEF Next

LEMMA RunsOnRightSlots == SlotInv => OnlyDoubtfulSlotsStale
BY BackendAssumption
DEF SlotInv, SlotType, Behind, CallFacts, OnlyDoubtfulSlotsStale, Chosen, Slots, ExpertSteps

\* For any models, caches and batch, an expert product runs on the chosen
\* weights except in slots that a failed call left behind: comparing packed
\* objects, not keys, is enough under every eviction, and the test of the
\* architecture's name is enough against the tiles streamed through the slots.
THEOREM StaleOnlyInDoubt == Spec => []OnlyDoubtfulSlotsStale
<1>1. Init => SlotInv /\ GateKept
  BY InitSlots, InitGate
<1> QED
  BY <1>1, NextKeepsSlots, NextKeepsGate, RunsOnRightSlots, PTL DEF Spec

LEMMA NextKeepsSums == SlotInv /\ Sums /\ [Next]_vars => Sums'
<1> SUFFICES ASSUME SlotInv, Sums, [Next]_vars PROVE Sums'
  OBVIOUS
<1>1. ASSUME UNCHANGED added, step' = step, at' = at \/ step \notin DenseSteps
      PROVE  Sums'
  BY <1>1 DEF Sums
<1>2. ASSUME UNCHANGED added, step \notin DenseSteps, step' \notin DenseSteps \/ at' = 1
      PROVE  Sums'
  BY <1>2 DEF Sums
<1>3. ASSUME added' = Nothing, step' \notin DenseSteps \/ at' = 1
      PROVE  Sums'
  BY <1>3 DEF Sums, Nothing
<1>4. ASSUME step \in DenseSteps, step' = step, at \in 1..Tiles, at' = at + 1,
             added' = [added EXCEPT ![at] = @ + 1]
      PROVE  Sums'
  BY <1>4, BackendAssumption DEF Sums
<1>5. ASSUME NEW b \in Buffers, NEW w \in model.tensors[b], NEW chosen \in Selections,
             StartExperts(b, w, chosen)
      PROVE  Sums'
  BY <1>2, <1>5 DEF StartExperts, DenseSteps
<1>6. CASE EmptySlot \/ TakeExpert \/ SyncSlot \/ Dispatch \/ Return \/ ExpertsFail
  BY <1>2, <1>6
  DEF EmptySlot, InSlots, TakeExpert, SyncSlot, Dispatch, Return, ExpertsFail, EndCall, DenseSteps
<1>7. CASE AskExpert \/ AskTile \/ CacheWork \/ UNCHANGED vars
  BY <1>1, <1>7
  DEF AskExpert, AskTile, CacheWork, EvictUnderCall, Quiet, vars, callVars
<1>8. ASSUME NEW k \in Dense, NEW d \in model.tensors[k], StartDense(k, d)
      PROVE  Sums'
  BY <1>2, <1>8 DEF StartDense, DenseSteps
<1>9. CASE TakeTile \/ StreamTile
  <2>1. step \in DenseSteps /\ step' = step /\ at \in 1..Tiles /\ at' = at + 1
        /\ added' = [added EXCEPT ![at] = @ + 1]
    BY <1>9, BackendAssumption
    DEF TakeTile, StreamTile, SlotInv, SlotType, CallFacts, DenseSteps
  <2> QED
    BY <1>4, <2>1
<1>10. CASE Fallback \/ StreamFails \/ TileFails \/ Deliver
  BY <1>3, <1>10
  DEF Fallback, StreamFails, TileFails, Deliver, EndCall, DenseSteps
<1> QED
  BY <1>5, <1>6, <1>7, <1>8, <1>9, <1>10 DEF Next

LEMMA SumsAreComplete == SlotInv /\ Sums => EachTileOnce
BY BackendAssumption DEF SlotInv, SlotType, Sums, EachTileOnce, DenseSteps

\* A dense product sums every tile once, for any number of tiles and wherever
\* the cache gives up and the product starts over.
THEOREM SumsExact == Spec => []EachTileOnce
<1>1. Init => SlotInv /\ GateKept /\ Sums
  BY InitSlots, InitGate
<1> QED
  BY <1>1, NextKeepsSlots, NextKeepsGate, NextKeepsSums, SumsAreComplete, PTL DEF Spec

-----------------------------------------------------------------------------
\* Lists of distinct entries

\* s names each member of S exactly once.
Lists(s, S) ==
    /\ s \in Seq(S)
    /\ \A x \in S : \E i \in 1..Len(s) : s[i] = x
    /\ \A i, j \in 1..Len(s) : s[i] = s[j] => i = j

LEMMA ListsEmpty ==
  /\ Lists(<<>>, {})
  /\ \A s : Lists(s, {}) => Len(s) = 0
<1>1. Lists(<<>>, {})
  BY EmptySeq DEF Lists
<1>2. ASSUME NEW s, Lists(s, {})
      PROVE  Len(s) = 0
  <2>1. s \in Seq({}) /\ Len(s) \in Nat
    BY <1>2, LenProperties DEF Lists
  <2>2. 1 \notin 1..Len(s)
    BY <2>1, ElementOfSeq
  <2> QED
    BY <2>1, <2>2
<1> QED
  BY <1>1, <1>2

LEMMA ListsCount ==
  ASSUME NEW s, NEW S, Lists(s, S)
  PROVE  /\ ToSet(s) = S
         /\ Len(s) \in Nat
         /\ Cardinality(S) = Len(s)
<1>1. /\ Len(s) \in Nat /\ s \in [1..Len(s) -> S] /\ DOMAIN s = 1..Len(s)
  BY LenProperties DEF Lists
<1>2. ToSet(s) = S
  BY <1>1 DEF ToSet, Lists
<1>3. s \in Bijection(1..Len(s), S)
  BY <1>1 DEF Lists, Bijection, Injection, Surjection, IsInjective
<1>4. ExistsBijection(1..Len(s), S)
  BY <1>3 DEF ExistsBijection
<1>5. IsFiniteSet(1..Len(s)) /\ Cardinality(1..Len(s)) = Len(s)
  <2>1. Cardinality(1..Len(s)) = IF 1 > Len(s) THEN 0 ELSE Len(s) - 1 + 1
    BY <1>1, FS_Interval, SMTT(40)
  <2> QED
    BY <1>1, <2>1, FS_Interval, SMTT(40)
<1> QED
  BY <1>1, <1>2, <1>4, <1>5, FS_Bijection

LEMMA ListsAppend ==
  ASSUME NEW s, NEW S, Lists(s, S), NEW x, x \notin S
  PROVE  /\ Lists(Append(s, x), S \cup {x})
         /\ Len(Append(s, x)) = Len(s) + 1
<1> DEFINE n == Len(s)  T == S \cup {x}  r == Append(s, x)
<1>1. s \in Seq(S) /\ n \in Nat /\ \A i \in 1..n : s[i] \in S
  BY LenProperties, ElementOfSeq DEF Lists
<1>2. s \in Seq(T)
  BY <1>1, SeqMonotonic
<1>3. /\ r \in Seq(T) /\ Len(r) = n + 1
      /\ \A i \in 1..n : r[i] = s[i]
      /\ r[n + 1] = x
  BY <1>2, AppendProperties
<1> HIDE DEF n, r
<1>4. \A i \in 1..(n + 1) : i \in 1..n \/ i = n + 1
  BY <1>1
<1>5. \A y \in T : \E i \in 1..(n + 1) : r[i] = y
  <2> SUFFICES ASSUME NEW y \in T PROVE \E i \in 1..(n + 1) : r[i] = y
    OBVIOUS
  <2>1. CASE y = x
    BY <1>1, <1>3, <2>1
  <2>2. CASE y \in S
    <3>1. PICK i \in 1..n : s[i] = y
      BY <2>2 DEF Lists, n
    <3>2. i \in 1..(n + 1)
      BY <1>1
    <3> QED
      BY <1>3, <3>1, <3>2
  <2> QED
    BY <2>1, <2>2
<1>6. \A i, j \in 1..(n + 1) : r[i] = r[j] => i = j
  <2> SUFFICES ASSUME NEW i \in 1..(n + 1), NEW j \in 1..(n + 1), r[i] = r[j]
               PROVE  i = j
    OBVIOUS
  <2>1. CASE i \in 1..n /\ j \in 1..n
    BY <1>3, <2>1 DEF Lists, n
  <2>2. CASE i = n + 1 /\ j \in 1..n
    BY <1>1, <1>3, <2>2
  <2>3. CASE i \in 1..n /\ j = n + 1
    BY <1>1, <1>3, <2>3
  <2> QED
    BY <1>4, <2>1, <2>2, <2>3
<1> QED
  BY <1>3, <1>5, <1>6 DEF Lists, n, r

\* Without the entry at place p
LEMMA ListsRemoveAt ==
  ASSUME NEW s, NEW S, Lists(s, S), NEW p \in 1..Len(s)
  PROVE  /\ Lists(RemoveAt(s, p), S \ {s[p]})
         /\ Len(RemoveAt(s, p)) = Len(s) - 1
<1> DEFINE n == Len(s)  T == S \ {s[p]}  a == SubSeq(s, 1, p - 1)  b == SubSeq(s, p + 1, n)
           r == RemoveAt(s, p)
           old(i) == IF i < p THEN i ELSE i + 1
<1>1. s \in Seq(S) /\ n \in Nat /\ \A i \in 1..n : s[i] \in S
  BY LenProperties, ElementOfSeq DEF Lists
<1>2. \A i, j \in 1..n : s[i] = s[j] => i = j
  BY DEF Lists
<1>3. \A i \in 1..n : i # p => s[i] \in T
  BY <1>1, <1>2
<1>4. /\ a \in Seq(T) /\ Len(a) = p - 1
      /\ \A i \in 1..(p - 1) : a[i] = s[i]
  <2>1. p - 1 \in Int /\ \A i \in 1..(p - 1) : s[i] \in T
    BY <1>1, <1>3
  <2>2. /\ a \in Seq(T)
        /\ Len(a) = IF 1 <= p - 1 THEN (p - 1) - 1 + 1 ELSE 0
        /\ \A i \in 1..((p - 1) - 1 + 1) : a[i] = s[1 + i - 1]
    BY <2>1, SubSeqProperties
  <2> HIDE DEF a
  <2>3. /\ (IF 1 <= p - 1 THEN (p - 1) - 1 + 1 ELSE 0) = p - 1
        /\ \A i \in 1..(p - 1) : i \in 1..((p - 1) - 1 + 1) /\ 1 + i - 1 = i
    BY <1>1
  <2> QED
    BY <2>2, <2>3
<1>5. /\ b \in Seq(T) /\ Len(b) = n - p
      /\ \A i \in 1..(n - p) : b[i] = s[p + i]
  <2>1. p + 1 \in Int /\ n \in Int /\ \A i \in (p + 1)..n : s[i] \in T
    BY <1>1, <1>3
  <2>2. /\ b \in Seq(T)
        /\ Len(b) = IF p + 1 <= n THEN n - (p + 1) + 1 ELSE 0
        /\ \A i \in 1..(n - (p + 1) + 1) : b[i] = s[(p + 1) + i - 1]
    BY <2>1, SubSeqProperties
  <2> HIDE DEF b, n
  <2>3. /\ (IF p + 1 <= n THEN n - (p + 1) + 1 ELSE 0) = n - p
        /\ \A i \in 1..(n - p) : i \in 1..(n - (p + 1) + 1) /\ (p + 1) + i - 1 = p + i
    BY <1>1 DEF n
  <2> QED
    BY <2>2, <2>3
<1>6. r = a \o b
  BY DEF RemoveAt
<1> HIDE DEF a, b, r, n
<1>7. p \in 1..n
  BY DEF n
<1>8. r \in Seq(T) /\ Len(r) = n - 1
  <2>1. r \in Seq(T) /\ Len(r) = Len(a) + Len(b)
    BY <1>4, <1>5, <1>6, ConcatProperties
  <2>2. (p - 1) + (n - p) = n - 1
    BY <1>1, <1>7
  <2> QED
    BY <1>4, <1>5, <2>1, <2>2
<1>9. \A i \in 1..(n - 1) : old(i) \in 1..n /\ old(i) # p /\ r[i] = s[old(i)]
  <2> SUFFICES ASSUME NEW i \in 1..(n - 1)
               PROVE  old(i) \in 1..n /\ old(i) # p /\ r[i] = s[old(i)]
    OBVIOUS
  <2>1. i \in 1..(Len(a) + Len(b))
    BY <1>1, <1>4, <1>5, <1>7
  <2>2. r[i] = IF i <= Len(a) THEN a[i] ELSE b[i - Len(a)]
    BY <1>4, <1>5, <1>6, <2>1, ConcatProperties
  <2>3. CASE i < p
    <3>1. i <= p - 1 /\ i \in 1..(p - 1) /\ i \in 1..n /\ i # p
      BY <1>1, <1>7, <2>3
    <3> QED
      BY <1>4, <2>2, <2>3, <3>1
  <2>4. CASE ~(i < p)
    <3>1. ~(i <= p - 1) /\ i - (p - 1) \in 1..(n - p) /\ p + (i - (p - 1)) = i + 1
          /\ i + 1 \in 1..n /\ i + 1 # p
      BY <1>1, <1>7, <2>4
    <3> QED
      BY <1>4, <1>5, <2>2, <2>4, <3>1
  <2> QED
    BY <2>3, <2>4
<1>10. \A x \in T : \E i \in 1..(n - 1) : r[i] = x
  <2> SUFFICES ASSUME NEW x \in T PROVE \E i \in 1..(n - 1) : r[i] = x
    OBVIOUS
  <2>1. PICK j \in 1..n : s[j] = x
    BY DEF Lists, n
  <2>2. j # p
    BY <2>1
  <2> DEFINE i == IF j < p THEN j ELSE j - 1
  <2>3. i \in 1..(n - 1) /\ old(i) = j
    BY <1>1, <1>7, <2>2
  <2> HIDE DEF i
  <2> QED
    BY <1>9, <2>1, <2>3
<1>11. \A i, j \in 1..(n - 1) : r[i] = r[j] => i = j
  <2> SUFFICES ASSUME NEW i \in 1..(n - 1), NEW j \in 1..(n - 1), r[i] = r[j]
               PROVE  i = j
    OBVIOUS
  <2>1. old(i) = old(j)
    BY <1>2, <1>9
  <2> QED
    BY <1>1, <1>7, <2>1
<1> QED
  BY <1>8, <1>10, <1>11 DEF Lists, r, n

LEMMA ListsTouched ==
  ASSUME NEW s, NEW S, Lists(s, S), NEW x \in S
  PROVE  /\ Lists(Append(RemoveFirst(s, x), x), S)
         /\ Len(Append(RemoveFirst(s, x), x)) = Len(s)
<1> DEFINE I == {i \in 1..Len(s) : s[i] = x}
<1>1. Len(s) \in Nat
  BY LenProperties DEF Lists
<1>2. \E i \in 1..Len(s) : s[i] = x
  BY DEF Lists
<1>3. I # {} /\ I \in SUBSET Nat
  BY <1>2
<1> DEFINE p == Min(I)
<1>4. p \in 1..Len(s) /\ s[p] = x
  <2>1. p \in I
    BY <1>3, MinIsIn
  <2> QED
    BY <2>1
<1>5. RemoveFirst(s, x) = RemoveAt(s, p)
  BY <1>2, <1>3 DEF RemoveFirst, SelectInSeq
<1> HIDE DEF p, I
<1> DEFINE r == RemoveAt(s, p)
<1>6. Lists(r, S \ {x}) /\ Len(r) = Len(s) - 1
  BY <1>4, ListsRemoveAt
<1> HIDE DEF r
<1>7. /\ Lists(Append(r, x), (S \ {x}) \cup {x})
      /\ Len(Append(r, x)) = Len(r) + 1
  BY <1>6, ListsAppend
<1>8. (S \ {x}) \cup {x} = S
  OBVIOUS
<1>9. Len(Append(r, x)) = Len(s)
  BY <1>1, <1>6, <1>7
<1> QED
  BY <1>5, <1>7, <1>8, <1>9 DEF r

LEMMA ListsTail ==
  ASSUME NEW s, NEW S, Lists(s, S), S # {}
  PROVE  /\ Head(s) \in S
         /\ Lists(Tail(s), S \ {Head(s)})
         /\ Len(Tail(s)) = Len(s) - 1
         /\ Len(s) \in Nat \ {0}
<1>1. s \in Seq(S) /\ Len(s) \in Nat
  BY LenProperties DEF Lists
<1>2. Len(s) # 0 /\ s # <<>>
  <2>1. PICK x \in S : TRUE
    OBVIOUS
  <2>2. \E i \in 1..Len(s) : s[i] = x
    BY DEF Lists
  <2> QED
    BY <1>1, <2>2, EmptySeq
<1>3. 1 \in 1..Len(s) /\ Head(s) = s[1] /\ Head(s) \in S
  BY <1>1, <1>2, HeadTailProperties
<1>4. Tail(s) = RemoveAt(s, 1)
  <2>1. Tail(s) = SubSeq(s, 2, Len(s)) /\ Tail(s) \in Seq(S)
    BY <1>1, <1>2, TailIsSubSeq, HeadTailProperties
  <2>2. SubSeq(s, 1, 1 - 1) = <<>>
    BY SubSeqEmpty
  <2>3. <<>> \o Tail(s) = Tail(s)
    BY <2>1, ConcatEmptySeq
  <2> QED
    BY <2>1, <2>2, <2>3 DEF RemoveAt
<1>5. Lists(RemoveAt(s, 1), S \ {s[1]}) /\ Len(RemoveAt(s, 1)) = Len(s) - 1
  BY <1>3, ListsRemoveAt
<1> QED
  BY <1>1, <1>2, <1>3, <1>4, <1>5

-----------------------------------------------------------------------------
\* The caches and their budget

BookTypes ==
    /\ limit \in Nat
    /\ held = [k \in Kinds |-> held[k]]
    /\ lru = [k \in Kinds |-> lru[k]]
    /\ bytes \in [Kinds -> Nat]
    /\ cursor \in 0..3
    /\ stage \in {"idle", "pack", "evict", "cached", "uncached", "none"}
    /\ stage # "idle" => Kind \in Kinds
    /\ step = "tiles" => call.kind \in Kinds

Listed == \A k \in Kinds : Lists(lru[k], held[k]) /\ bytes[k] = Size[k] * Len(lru[k])

\* What is packed or waits for room is not in its map yet, fits the budget by
\* itself and, once the evictions are over, with everything else.
RoomMade ==
    /\ Total <= limit
    /\ stage \in {"pack", "evict"} => Key \notin held[Kind]
    /\ stage = "evict" => Cacheable(Kind)
    /\ stage = "pack" /\ Kind \in Dense => ~TooFull

BudgetInv == BookTypes /\ Listed /\ RoomMade

LEMMA KindsAre == Kinds = {"expert", "dense", "native_expert", "native_dense"}
BY DEF Kinds, Order, Range

LEMMA TotalIs ==
  ASSUME BookTypes
  PROVE  /\ Total \in Nat
         /\ \A k \in Kinds : bytes[k] \in Nat /\ Size[k] \in Nat \ {0} /\ bytes[k] <= Total
BY KindsAre, CacheAssumption DEF BookTypes, Total

LEMMA TotalChanges ==
  ASSUME BookTypes, NEW k \in Kinds, NEW n \in Int, bytes' = [bytes EXCEPT ![k] = n]
  PROVE  Total' = Total + n - bytes[k]
BY KindsAre DEF BookTypes, Total

LEMMA OneMore ==
  ASSUME NEW a \in Nat, NEW n \in Nat
  PROVE  a * (n + 1) = a * n + a /\ (n > 0 => a * (n - 1) = a * n - a /\ a * n >= a)
OBVIOUS

LEMMA InitBudget == Init => BudgetInv
<1> SUFFICES ASSUME Init PROVE BudgetInv
  OBVIOUS
<1>1. BookTypes
  BY CacheAssumption DEF Init, CacheInit, BookTypes
<1>2. Listed
  <2> SUFFICES ASSUME NEW k \in Kinds
               PROVE  Lists(lru[k], held[k]) /\ bytes[k] = Size[k] * Len(lru[k])
    BY DEF Listed
  <2>1. lru[k] = <<>> /\ held[k] = {} /\ bytes[k] = 0
    BY DEF Init, CacheInit
  <2>2. Lists(<<>>, {}) /\ Len(<<>>) = 0
    BY ListsEmpty
  <2>3. Size[k] * 0 = 0
    BY CacheAssumption
  <2> QED
    BY <2>1, <2>2, <2>3
<1>3. RoomMade
  <2>1. Total = 0 /\ limit \in Nat /\ stage = "idle"
    BY KindsAre, CacheAssumption DEF Init, CacheInit, Total
  <2> QED
    BY <2>1 DEF RoomMade
<1> QED
  BY <1>1, <1>2, <1>3 DEF BudgetInv

LEMMA HitStep ==
  ASSUME BudgetInv, NEW k \in Kinds, NEW key, Hit(k, key), step' = step, call' = call
  PROVE  BudgetInv'
<1>1. key \in held[k] /\ lru' = [lru EXCEPT ![k] = Touched(k, key)] /\ stage' = "cached"
      /\ UNCHANGED <<limit, held, bytes, cursor>> /\ Kind' = k
  BY DEF Hit, Kind
<1>2. /\ Lists(Touched(k, key), held[k])
      /\ Len(Touched(k, key)) = Len(lru[k])
  BY <1>1, ListsTouched DEF BudgetInv, Listed, Touched
<1>3. BookTypes'
  BY <1>1 DEF BudgetInv, BookTypes
<1>4. Listed'
  BY <1>1, <1>2 DEF BudgetInv, BookTypes, Listed
<1>5. RoomMade'
  BY <1>1 DEF BudgetInv, RoomMade, Total
<1> QED
  BY <1>3, <1>4, <1>5 DEF BudgetInv

LEMMA MissStep ==
  ASSUME BudgetInv, NEW k \in Kinds, NEW key, Miss(k, key), step' = step, call' = call
  PROVE  BudgetInv'
<1>1. /\ key \notin held[k] /\ Kind' = k /\ Key' = key
      /\ UNCHANGED <<limit, held, lru, bytes, cursor>>
      /\ stage' \in {"pack", "evict", "none"}
      /\ stage' = "pack" => k \notin Dense
      /\ stage' = "evict" => Cacheable(k)
  BY DEF Miss, Kind, Key
<1>2. BookTypes' /\ Listed'
  BY <1>1 DEF BudgetInv, BookTypes, Listed
<1>3. RoomMade'
  BY <1>1 DEF BudgetInv, RoomMade, Total, Cacheable
<1> QED
  BY <1>2, <1>3 DEF BudgetInv

\* The caches and what is asked of them stay as they are.
LEMMA BooksUntouched ==
  ASSUME BudgetInv, UNCHANGED <<limit, held, lru, bytes, cursor>>,
         \/ stage' \in {"idle", "none"} /\ (stage' # "idle" => wanted' = wanted /\ stage # "idle")
         \/ UNCHANGED <<stage, wanted>>,
         step' = "tiles" => call'.kind \in Kinds
  PROVE  BudgetInv'
<1>1. BookTypes' /\ Listed'
  BY DEF BudgetInv, BookTypes, Listed, Kind
<1>2. RoomMade'
  BY DEF BudgetInv, RoomMade, Total, Cacheable, Kind, Key, TooFull
<1> QED
  BY <1>1, <1>2 DEF BudgetInv

LEMMA VictimIsOccupied ==
  ASSUME BookTypes, Occupied # {}
  PROVE  Victim \in Occupied /\ Victim \in Kinds /\ Rank(Victim) \in 0..3
<1>1. \A k \in Kinds : Rank(k) \in 0..3
  <2> SUFFICES ASSUME NEW k \in Kinds PROVE Rank(k) \in 0..3
    OBVIOUS
  <2>1. \E i \in 1..4 : Order[i] = k
    BY KindsAre DEF Order
  <2> DEFINE p == CHOOSE i \in 1..4 : Order[i] = k
  <2>2. p \in 1..4
    BY <2>1
  <2> HIDE DEF p
  <2>3. (p + 3 - cursor) % 4 \in 0..3
    BY <2>2 DEF BookTypes
  <2> QED
    BY <2>3 DEF Rank, p
<1> DEFINE ranks == {Rank(k) : k \in Occupied}
<1>2. Occupied \subseteq Kinds
  BY DEF Occupied
<1>3. ranks # {} /\ ranks \in SUBSET Nat
  BY <1>1, <1>2
<1>4. PICK x \in ranks : \A y \in ranks : ~(<<y, x>> \in OpToRel(<, Nat))
  BY <1>3, WFMin, NatLessThanWellFounded, Zenon
<1>5. PICK k \in Occupied : x = Rank(k)
  OBVIOUS
<1>6. \A j \in Occupied : Rank(k) <= Rank(j)
  <2> SUFFICES ASSUME NEW j \in Occupied PROVE Rank(k) <= Rank(j)
    OBVIOUS
  <2>1. Rank(j) \in ranks /\ Rank(j) \in Nat /\ Rank(k) \in Nat
    BY <1>1, <1>2
  <2> HIDE DEF ranks
  <2>2. ~(<<Rank(j), Rank(k)>> \in OpToRel(<, Nat))
    BY <1>4, <1>5, <2>1
  <2> DEFINE u == Rank(j)  v == Rank(k)
  <2>3. u \in Nat /\ v \in Nat /\ ~(<<u, v>> \in OpToRel(<, Nat))
    BY <2>1, <2>2
  <2> HIDE DEF u, v
  <2>4. <<u, v>> \in Nat \X Nat /\ <<u, v>>[1] = u /\ <<u, v>>[2] = v
    BY <2>3
  <2>5. ~(u < v)
    BY <2>3, <2>4 DEF OpToRel
  <2>6. u \in Nat /\ v \in Nat
    BY <2>3
  <2>7. v <= u
    BY <2>5, <2>6
  <2> QED
    BY <2>7 DEF u, v
<1>7. Victim \in Occupied
  BY <1>6 DEF Victim
<1> QED
  BY <1>1, <1>2, <1>7

LEMMA EvictStep ==
  ASSUME BudgetInv, Evict, step' = step, call' = call
  PROVE  BudgetInv'
<1> DEFINE v == Victim
<1>1. v \in Occupied /\ v \in Kinds /\ held[v] # {} /\ Rank(v) \in 0..3
  BY VictimIsOccupied DEF Evict, BudgetInv, Occupied
<1>2. /\ held' = [held EXCEPT ![v] = @ \ {Head(lru[v])}]
      /\ lru' = [lru EXCEPT ![v] = Tail(@)]
      /\ bytes' = [bytes EXCEPT ![v] = bytes[v] - Size[v]]
      /\ cursor' = (cursor + Rank(v) + 1) % 4
      /\ UNCHANGED <<limit, wanted, stage>> /\ stage = "evict"
  BY <1>1 DEF Evict, BudgetInv, BookTypes
<1> HIDE DEF v
<1>3. /\ Lists(Tail(lru[v]), held[v] \ {Head(lru[v])})
      /\ Len(Tail(lru[v])) = Len(lru[v]) - 1
      /\ Len(lru[v]) \in Nat \ {0}
  BY <1>1, ListsTail DEF BudgetInv, Listed
<1>4. /\ bytes[v] = Size[v] * Len(lru[v]) /\ Size[v] \in Nat \ {0} /\ bytes[v] \in Nat
      /\ Total \in Nat
  BY <1>1, TotalIs DEF BudgetInv, Listed
<1> DEFINE n == Len(lru[v])  a == Size[v]
<1>5. bytes[v] - a \in Nat /\ bytes[v] - a = a * (n - 1)
  <2>1. n \in Nat /\ n > 0 /\ a \in Nat
    BY <1>3, <1>4
  <2> HIDE DEF n, a
  <2>2. a * (n - 1) = a * n - a /\ a * n >= a /\ a * n \in Nat
    BY <2>1, OneMore
  <2> QED
    BY <1>4, <2>1, <2>2 DEF n, a
<1> HIDE DEF n, a
<1>6. BookTypes'
  <2>1. bytes' \in [Kinds -> Nat]
    BY <1>1, <1>2, <1>5 DEF BudgetInv, BookTypes, a
  <2>2. cursor' \in 0..3
    BY <1>1, <1>2 DEF BudgetInv, BookTypes
  <2>3. held' = [k \in Kinds |-> held'[k]] /\ lru' = [k \in Kinds |-> lru'[k]]
    BY <1>2 DEF BudgetInv, BookTypes
  <2> QED
    BY <1>2, <2>1, <2>2, <2>3 DEF BudgetInv, BookTypes, Kind
<1>7. Listed'
  <2> SUFFICES ASSUME NEW k \in Kinds
               PROVE  Lists(lru'[k], held'[k]) /\ bytes'[k] = Size[k] * Len(lru'[k])
    BY DEF Listed
  <2>1. CASE k = v
    <3>1. lru'[k] = Tail(lru[v]) /\ held'[k] = held[v] \ {Head(lru[v])}
          /\ bytes'[k] = bytes[v] - a
      BY <1>1, <1>2, <2>1 DEF BudgetInv, BookTypes, a
    <3> QED
      BY <1>3, <1>5, <2>1, <3>1 DEF n, a
  <2>2. CASE k # v
    BY <1>2, <2>2 DEF BudgetInv, BookTypes, Listed
  <2> QED
    BY <2>1, <2>2
<1>8. RoomMade'
  <2>1. Total' = Total + (bytes[v] - a) - bytes[v]
    <3> DEFINE m == bytes[v] - a
    <3>1. bytes' = [bytes EXCEPT ![v] = m] /\ m \in Int
      BY <1>2, <1>5 DEF a
    <3> HIDE DEF m
    <3>2. Total' = Total + m - bytes[v]
      BY <1>1, <3>1, TotalChanges DEF BudgetInv
    <3> QED
      BY <3>2 DEF m
  <2>2. Total' <= Total
    BY <1>4, <1>5, <2>1 DEF a
  <2>3. Total' <= limit'
    BY <1>2, <1>4, <1>5, <2>1, <2>2 DEF BudgetInv, BookTypes, RoomMade, a
  <2>4. Kind' = Kind /\ Key' = Key /\ \A k \in Kinds : held'[k] \subseteq held[k]
    BY <1>2 DEF BudgetInv, BookTypes, Kind, Key
  <2> QED
    BY <1>2, <2>3, <2>4 DEF BudgetInv, BookTypes, RoomMade, Cacheable
<1> QED
  BY <1>6, <1>7, <1>8 DEF BudgetInv

\* The evictions end with room: what remains when nothing is left to evict is
\* an empty cache, and what asks for room fits that.
LEMMA EvictedMakesRoom ==
  ASSUME BudgetInv, Evicted
  PROVE  ~TooFull
<1> SUFFICES ASSUME TooFull PROVE FALSE
  OBVIOUS
<1>1. Occupied = {} /\ stage = "evict" /\ Kind \in Kinds
  BY DEF Evicted, BudgetInv, BookTypes
<1>2. \A k \in Kinds : bytes[k] = 0
  <2> SUFFICES ASSUME NEW k \in Kinds PROVE bytes[k] = 0
    OBVIOUS
  <2>1. held[k] = {} /\ Lists(lru[k], held[k]) /\ bytes[k] = Size[k] * Len(lru[k])
    BY <1>1 DEF Occupied, BudgetInv, Listed
  <2>2. Len(lru[k]) = 0
    BY <2>1, ListsEmpty
  <2>3. Size[k] \in Nat /\ Size[k] * 0 = 0
    BY CacheAssumption
  <2> QED
    BY <2>1, <2>2, <2>3
<1>3. Total = 0
  BY <1>2, KindsAre DEF Total
<1>4. Size[Kind] <= limit /\ Size[Kind] \in Nat /\ limit \in Nat
  BY <1>1, CacheAssumption DEF BudgetInv, BookTypes, RoomMade, Cacheable
<1> QED
  BY <1>3, <1>4 DEF TooFull

LEMMA InsertStep ==
  ASSUME BudgetInv, Insert, stage \in {"pack", "evict"}, ~TooFull,
         UNCHANGED <<limit, cursor, wanted>>, step' = step, call' = call
  PROVE  BudgetInv'
<1> DEFINE k == Kind
<1>1. k \in Kinds /\ Key \notin held[k]
  BY DEF BudgetInv, BookTypes, RoomMade
<1>2. /\ held' = [held EXCEPT ![k] = held[k] \cup {Key}]
      /\ lru' = [lru EXCEPT ![k] = Append(lru[k], Key)]
      /\ bytes' = [bytes EXCEPT ![k] = bytes[k] + Size[k]]
      /\ stage' = "cached"
  BY <1>1 DEF Insert, BudgetInv, BookTypes
<1>3. Kind' = k
  BY DEF Kind
<1>4. /\ Lists(Append(lru[k], Key), held[k] \cup {Key})
      /\ Len(Append(lru[k], Key)) = Len(lru[k]) + 1
      /\ Len(lru[k]) \in Nat
  BY <1>1, ListsAppend, ListsCount DEF BudgetInv, Listed
<1>5. /\ bytes[k] = Size[k] * Len(lru[k]) /\ Size[k] \in Nat \ {0} /\ bytes[k] \in Nat
      /\ Total \in Nat /\ Total + Size[k] <= limit
  BY <1>1, TotalIs DEF BudgetInv, BookTypes, Listed, TooFull
<1> HIDE DEF k
<1>6. bytes[k] + Size[k] = Size[k] * (Len(lru[k]) + 1) /\ bytes[k] + Size[k] \in Nat
  <2> DEFINE n == Len(lru[k])  a == Size[k]
  <2>1. n \in Nat /\ a \in Nat
    BY <1>4, <1>5
  <2> HIDE DEF n, a
  <2>2. a * (n + 1) = a * n + a
    BY <2>1, OneMore
  <2> QED
    BY <1>5, <2>2 DEF n, a
<1>7. BookTypes'
  <2>1. bytes' \in [Kinds -> Nat]
    BY <1>1, <1>2, <1>6 DEF BudgetInv, BookTypes
  <2>2. held' = [j \in Kinds |-> held'[j]] /\ lru' = [j \in Kinds |-> lru'[j]]
    BY <1>2 DEF BudgetInv, BookTypes
  <2> QED
    BY <1>1, <1>2, <1>3, <2>1, <2>2 DEF BudgetInv, BookTypes
<1>8. Listed'
  <2> SUFFICES ASSUME NEW j \in Kinds
               PROVE  Lists(lru'[j], held'[j]) /\ bytes'[j] = Size[j] * Len(lru'[j])
    BY DEF Listed
  <2>1. CASE j = k
    <3>1. lru'[j] = Append(lru[k], Key) /\ held'[j] = held[k] \cup {Key}
          /\ bytes'[j] = bytes[k] + Size[k]
      BY <1>1, <1>2, <2>1 DEF BudgetInv, BookTypes
    <3> QED
      BY <1>4, <1>6, <2>1, <3>1
  <2>2. CASE j # k
    BY <1>2, <2>2 DEF BudgetInv, BookTypes, Listed
  <2> QED
    BY <2>1, <2>2
<1>9. RoomMade'
  <2>1. Total' = Total + (bytes[k] + Size[k]) - bytes[k]
    <3> DEFINE m == bytes[k] + Size[k]
    <3>1. bytes' = [bytes EXCEPT ![k] = m] /\ m \in Int
      BY <1>2, <1>6
    <3> HIDE DEF m
    <3>2. Total' = Total + m - bytes[k]
      BY <1>1, <3>1, TotalChanges DEF BudgetInv
    <3> QED
      BY <3>2 DEF m
  <2>2. Total' <= limit'
    BY <1>5, <2>1
  <2> QED
    BY <1>2, <2>2 DEF RoomMade
<1> QED
  BY <1>7, <1>8, <1>9 DEF BudgetInv

\* A fresh object was packed and waits for room.
LEMMA PackExpertStep ==
  ASSUME BudgetInv, PackExpert, step' = step, call' = call
  PROVE  BudgetInv'
<1>1. /\ UNCHANGED <<limit, held, lru, bytes, cursor, wanted>>
      /\ stage = "pack" /\ stage' \in {"evict", "uncached"}
      /\ stage' = "evict" => Cacheable(Kind)
  BY DEF PackExpert
<1>2. BookTypes' /\ Listed'
  BY <1>1 DEF BudgetInv, BookTypes, Listed, Kind
<1>3. RoomMade'
  BY <1>1 DEF BudgetInv, RoomMade, Total, Cacheable, Kind, Key
<1> QED
  BY <1>2, <1>3 DEF BudgetInv

LEMMA MakeTileStep ==
  ASSUME BudgetInv, MakeTile, step' = step, call' = call
  PROVE  BudgetInv'
<1>1. /\ UNCHANGED <<limit, held, lru, bytes, cursor, wanted>>
      /\ stage = "evict" /\ stage' = "pack"
  BY DEF MakeTile, Evicted
<1>2. ~TooFull /\ UNCHANGED <<Kind, Key, Total, TooFull>>
  BY <1>1, EvictedMakesRoom DEF MakeTile, Kind, Key, Total, TooFull
<1>3. BookTypes' /\ Listed'
  BY <1>1 DEF BudgetInv, BookTypes, Listed, Kind
<1>4. RoomMade'
  BY <1>1, <1>2 DEF BudgetInv, RoomMade
<1> QED
  BY <1>3, <1>4 DEF BudgetInv

LEMMA CacheWorkStep ==
  ASSUME BudgetInv, CacheWork
  PROVE  BudgetInv'
<1>1. step' = step /\ call' = call
  BY DEF CacheWork, EvictUnderCall, Quiet, callVars
<1>2. CASE EvictUnderCall
  BY <1>1, <1>2, EvictStep DEF EvictUnderCall
<1>3. CASE PackExpert
  BY <1>1, <1>3, PackExpertStep
<1>4. CASE MakeTile
  BY <1>1, <1>4, MakeTileStep
<1>5. CASE InsertExpert
  BY <1>1, <1>5, EvictedMakesRoom, InsertStep DEF InsertExpert, Evicted
<1>6. CASE PackTile
  BY <1>1, <1>6, InsertStep DEF PackTile, BudgetInv, RoomMade
<1>7. CASE PackFails
  <2>1. step' = "tiles" => call'.kind \in Kinds
    BY <1>1 DEF BudgetInv, BookTypes
  <2> QED
    BY <1>7, <2>1, BooksUntouched DEF PackFails
<1> QED
  BY <1>2, <1>3, <1>4, <1>5, <1>6, <1>7 DEF CacheWork

LEMMA NextKeepsBudget == SlotInv /\ BudgetInv /\ [Next]_vars => BudgetInv'
<1> SUFFICES ASSUME SlotInv, BudgetInv, [Next]_vars PROVE BudgetInv'
  OBVIOUS
<1>1. ASSUME NEW b \in Buffers, NEW w \in model.tensors[b], NEW chosen \in Selections,
             StartExperts(b, w, chosen)
      PROVE  BudgetInv'
  BY <1>1, BooksUntouched DEF StartExperts, cacheVars
<1>2. CASE EmptySlot \/ SyncSlot \/ Dispatch
  BY <1>2, BooksUntouched DEF EmptySlot, InSlots, SyncSlot, Dispatch, cacheVars
<1>3. CASE AskExpert
  <2>1. /\ Buffer \in Kinds /\ step' = step /\ call' = call
        /\ Hit(Buffer, Wanted(at)) \/ Miss(Buffer, Wanted(at))
    BY <1>3 DEF AskExpert, Ask, InSlots, SlotInv, SlotType, ExpertSteps, Buffers, callVars
  <2> QED
    BY <2>1, HitStep, MissStep
<1>4. CASE AskTile
  <2>1. /\ call.kind \in Kinds /\ step' = step /\ call' = call
        /\ Hit(call.kind, <<call.tensor, at>>) \/ Miss(call.kind, <<call.tensor, at>>)
    BY <1>4 DEF AskTile, Ask, BudgetInv, BookTypes, callVars
  <2> QED
    BY <2>1, HitStep, MissStep
<1>5. CASE TakeExpert \/ TakeTile \/ Fallback \/ TileFails
  <2>1. /\ UNCHANGED <<limit, held, lru, bytes, cursor>> /\ stage' = "idle"
        /\ step' = "tiles" => step = "tiles" /\ call' = call
    BY <1>5 DEF TakeExpert, TakeTile, Fallback, TileFails, Take, EndCall
  <2> QED
    BY <2>1, BooksUntouched DEF BudgetInv, BookTypes
<1>6. CASE Return \/ ExpertsFail \/ StreamFails \/ Deliver
  <2>1. /\ UNCHANGED <<limit, held, lru, bytes, cursor>>
        /\ stage' = "idle" \/ UNCHANGED <<stage, wanted>>
        /\ step' = "idle"
    BY <1>6 DEF Return, ExpertsFail, StreamFails, Deliver, Take, EndCall, cacheVars
  <2> QED
    BY <2>1, BooksUntouched
<1>7. ASSUME NEW k \in Dense, NEW d \in model.tensors[k], StartDense(k, d)
      PROVE  BudgetInv'
  BY <1>7, KindsAre, BooksUntouched DEF StartDense, cacheVars, Dense
<1>8. CASE StreamTile
  BY <1>8, BooksUntouched DEF StreamTile, cacheVars
<1>9. CASE CacheWork
  BY <1>9, CacheWorkStep
<1>10. CASE UNCHANGED vars
  BY <1>10, BooksUntouched DEF vars, cacheVars, callVars, BudgetInv, BookTypes
<1> QED
  BY <1>1, <1>2, <1>3, <1>4, <1>5, <1>6, <1>7, <1>8, <1>9, <1>10 DEF Next

\* The four caches share one budget for any sizes, limits and models: room is
\* always made for what is inserted, and the byte counts are those of the
\* entries, each of which the list of its map names exactly once.
THEOREM BudgetIsKept == Spec => []WithinBudget
<1>1. BudgetInv => WithinBudget
  BY ListsCount DEF BudgetInv, Listed, RoomMade, WithinBudget, BooksBalanced
<1>2. Init => SlotInv /\ GateKept /\ BudgetInv
  BY InitSlots, InitGate, InitBudget
<1> QED
  BY <1>1, <1>2, NextKeepsSlots, NextKeepsGate, NextKeepsBudget, PTL DEF Spec
=============================================================================
