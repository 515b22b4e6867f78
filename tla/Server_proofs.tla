---------------------------- MODULE Server_proofs ----------------------------
(***************************************************************************)
(* Theorems about Server.  It implements both of its components, so what   *)
(* is proved of them holds here; the composition adds what neither could   *)
(* promise alone: the tracker keeps callers away from a closing engine.    *)
(***************************************************************************)
EXTENDS Server, FiniteSetTheorems, TLAPS

W == INSTANCE WorkerEngine_proofs

-----------------------------------------------------------------------------
(***************************************************************************)
(* Admission in the server: the exact accounting.  The semaphore and the   *)
(* tracker's count are determined by where the handlers are.               *)
(***************************************************************************)
\* Nothing but serving goes on before the shutdown began.
DrainsOnceStopped == main # "serving" => draining

AdmissionInv ==
    /\ Gate!TypeOK
    /\ Gate!SlotsBalanced
    /\ Gate!ActiveExact
    /\ Gate!CloseOnlyIdle
    /\ Gate!NoLostWakeup
    /\ DrainsOnceStopped

\* The same operator, reached through the instance.
LEMMA SameSize == \A S : Gate!Cardinality(S) = Cardinality(S)
BY DEF Gate!Cardinality, Cardinality

LEMMA FiniteParts ==
  /\ IsFiniteSet(Gate!Holding) /\ Cardinality(Gate!Holding) \in Nat
  /\ IsFiniteSet(Gate!Admitted) /\ Cardinality(Gate!Admitted) \in Nat
BY AdmissionAssumption, FS_Subset, FS_CardinalityType DEF Gate!Holding,
                                                          Gate!Admitted

\* Moving one handler into or out of a set of handlers changes its size by one.
LEMMA OneMore ==
  ASSUME NEW S, IsFiniteSet(S), NEW h, h \notin S
  PROVE  Cardinality(S \cup {h}) = Cardinality(S) + 1
BY FS_AddElement

LEMMA OneLess ==
  ASSUME NEW S, IsFiniteSet(S), NEW h \in S
  PROVE  Cardinality(S \ {h}) = Cardinality(S) - 1
BY FS_RemoveElement

LEMMA InitAdmission == Gate!Init => AdmissionInv
<1> SUFFICES ASSUME Gate!Init PROVE AdmissionInv
    OBVIOUS
<1>1. Gate!TypeOK
  <2>1. hpc \in [Handlers -> Gate!HandlerLabels] /\ main \in Gate!MainLabels
    BY DEF Gate!Init, Gate!HandlerLabels, Gate!MainLabels
  <2>2. slots \in 0..(Capacity + 1) /\ active \in Nat
    BY AdmissionAssumption DEF Gate!Init
  <2>3. draining \in BOOLEAN
    BY DEF Gate!Init
  <2> QED
    BY <2>1, <2>2, <2>3 DEF Gate!TypeOK
<1>2. Gate!Holding = {} /\ Gate!Admitted = {}
  BY DEF Gate!Init, Gate!Holding, Gate!Admitted
<1>3. Gate!SlotsBalanced /\ Gate!ActiveExact
  BY <1>2, SameSize, FS_EmptySet, AdmissionAssumption DEF Gate!Init, Gate!SlotsBalanced,
                                                Gate!ActiveExact
<1> QED
  BY <1>1, <1>3 DEF Gate!Init, AdmissionInv, Gate!CloseOnlyIdle,
                    Gate!NoLostWakeup, DrainsOnceStopped

\* Steps that move a handler among the places where it holds nothing.
LEMMA OutsideStep ==
  ASSUME AdmissionInv, NEW h \in Handlers,
         Gate!Connect(h) \/ Gate!LookDraining(h) \/ Gate!Refuse(h) \/ Gate!QueueFull(h)
  PROVE  AdmissionInv'
<1> USE DEF AdmissionInv, Gate!TypeOK, Gate!Connect, Gate!LookDraining,
            Gate!Refuse, Gate!QueueFull, Gate!At, Gate!Move
<1>1. Gate!TypeOK'
  BY DEF Gate!HandlerLabels
<1>2. Gate!Holding' = Gate!Holding /\ Gate!Admitted' = Gate!Admitted
  BY DEF Gate!Holding, Gate!Admitted
<1> QED
  BY <1>1, <1>2 DEF Gate!SlotsBalanced, Gate!ActiveExact, Gate!CloseOnlyIdle,
                    Gate!NoLostWakeup,
                    DrainsOnceStopped

LEMMA TakeSlotStep ==
  ASSUME AdmissionInv, NEW h \in Handlers, Gate!TakeSlot(h)
  PROVE  AdmissionInv'
<1> USE DEF AdmissionInv, Gate!TypeOK, Gate!TakeSlot, Gate!At, Gate!Move
<1>1. Gate!TypeOK'
  BY AdmissionAssumption DEF Gate!HandlerLabels
<1>2. Gate!Holding' = Gate!Holding \cup {h} /\ h \notin Gate!Holding /\ Gate!Admitted' = Gate!Admitted
  BY DEF Gate!Holding, Gate!Admitted
<1>3. Gate!SlotsBalanced'
  BY <1>2, OneMore, SameSize, FiniteParts, AdmissionAssumption DEF Gate!SlotsBalanced
<1> QED
  BY <1>1, <1>2, <1>3 DEF Gate!ActiveExact, Gate!CloseOnlyIdle,
                          Gate!NoLostWakeup, DrainsOnceStopped

\* Steps that give the slot back.
LEMMA GiveSlotStep ==
  ASSUME AdmissionInv, NEW h \in Handlers, Gate!EnterRefused(h) \/ Gate!GiveSlot(h)
  PROVE  AdmissionInv'
<1> USE DEF AdmissionInv, Gate!TypeOK, Gate!EnterRefused, Gate!GiveSlot, Gate!At,
            Gate!Move
<1>1. Gate!Holding' = Gate!Holding \ {h} /\ h \in Gate!Holding /\ Gate!Admitted' = Gate!Admitted
  BY DEF Gate!Holding, Gate!Admitted
<1>2. Cardinality(Gate!Holding') = Cardinality(Gate!Holding) - 1
  BY <1>1, OneLess, SameSize, FiniteParts
<1>3. Gate!SlotsBalanced'
  BY <1>2, SameSize, FiniteParts, AdmissionAssumption DEF Gate!SlotsBalanced
<1>4. slots' \in 0..(Capacity + 1)
  <2>1. Cardinality(Gate!Holding') \in Nat
    BY <1>1, FiniteParts, FS_RemoveElement, FS_CardinalityType
  <2> QED
    BY <1>3, <2>1, SameSize, AdmissionAssumption DEF Gate!SlotsBalanced
<1>5. Gate!TypeOK'
  BY <1>4 DEF Gate!HandlerLabels
<1> QED
  BY <1>1, <1>3, <1>5 DEF Gate!ActiveExact, Gate!CloseOnlyIdle,
                          Gate!NoLostWakeup, DrainsOnceStopped

LEMMA TryEnterStep ==
  ASSUME AdmissionInv, NEW h \in Handlers, Gate!TryEnter(h)
  PROVE  AdmissionInv'
<1> USE DEF AdmissionInv, Gate!TypeOK, Gate!TryEnter, Gate!At, Gate!Move
<1>1. Gate!TypeOK'
  BY DEF Gate!HandlerLabels
<1>2. Gate!Holding' = Gate!Holding /\ Gate!Admitted' = Gate!Admitted \cup {h} /\ h \notin Gate!Admitted
  BY DEF Gate!Holding, Gate!Admitted
<1>3. Gate!SlotsBalanced' /\ Gate!ActiveExact'
  BY <1>2, OneMore, SameSize, FiniteParts DEF Gate!SlotsBalanced, Gate!ActiveExact
<1>4. main = "serving"
  BY DEF DrainsOnceStopped
<1> QED
  BY <1>1, <1>3, <1>4 DEF Gate!CloseOnlyIdle, Gate!NoLostWakeup, DrainsOnceStopped

LEMMA LeaveStep ==
  ASSUME AdmissionInv, NEW h \in Handlers, Gate!Leave(h)
  PROVE  AdmissionInv'
<1> USE DEF AdmissionInv, Gate!TypeOK, Gate!Leave, Gate!At, Gate!Move
<1>1. Gate!TypeOK'
  BY DEF Gate!HandlerLabels, Gate!MainLabels
<1>2. Gate!Holding' = Gate!Holding /\ Gate!Admitted' = Gate!Admitted \ {h} /\ h \in Gate!Admitted
  BY DEF Gate!Holding, Gate!Admitted
<1>3. Gate!SlotsBalanced' /\ Gate!ActiveExact'
  BY <1>2, OneLess, SameSize, FiniteParts DEF Gate!SlotsBalanced, Gate!ActiveExact
<1>4. Gate!CloseOnlyIdle'
  BY <1>2 DEF Gate!CloseOnlyIdle
<1> QED
  BY <1>1, <1>3, <1>4 DEF Gate!NoLostWakeup, DrainsOnceStopped

\* The thread that runs serve(): it closes only what it saw empty.
LEMMA MainStepKeeps ==
  ASSUME AdmissionInv, Gate!RequestShutdown \/ Gate!MainStep \/ Gate!EngineReleased
  PROVE  AdmissionInv'
<1> USE DEF AdmissionInv, Gate!TypeOK, Gate!RequestShutdown, Gate!MainStep,
            Gate!StopServing, Gate!Drained,
            Gate!DrainSleeps, Gate!DrainDeadline, Gate!DrainExpired, Gate!EngineReleased
<1>1. Gate!TypeOK' /\ Gate!NoLostWakeup' /\ DrainsOnceStopped'
  BY DEF Gate!MainLabels, Gate!NoLostWakeup, DrainsOnceStopped
<1>2. Gate!Holding' = Gate!Holding /\ Gate!Admitted' = Gate!Admitted
  BY DEF Gate!Holding, Gate!Admitted
<1>3. Gate!CloseOnlyIdle'
  <2>1. CASE Gate!Drained
    BY <1>2, <2>1, SameSize, FiniteParts, FS_EmptySet DEF Gate!ActiveExact, Gate!CloseOnlyIdle
  <2>2. CASE ~Gate!Drained
    BY <1>2, <2>2 DEF Gate!CloseOnlyIdle
  <2> QED
    BY <2>1, <2>2
<1> QED
  BY <1>1, <1>2, <1>3 DEF Gate!SlotsBalanced, Gate!ActiveExact

LEMMA AdmissionKept == AdmissionInv /\ [Gate!Next]_Gate!admissionVars => AdmissionInv'
<1> SUFFICES ASSUME AdmissionInv, [Gate!Next]_Gate!admissionVars PROVE AdmissionInv'
    OBVIOUS
<1>1. ASSUME NEW h \in Handlers, Gate!Connect(h) \/ Gate!HandlerStep(h) \/ Gate!Leave(h)
      PROVE  AdmissionInv'
  BY <1>1, OutsideStep, TakeSlotStep, GiveSlotStep, TryEnterStep, LeaveStep
     DEF Gate!HandlerStep
<1>2. CASE UNCHANGED Gate!admissionVars
  BY <1>2 DEF Gate!admissionVars, AdmissionInv, Gate!TypeOK, Gate!SlotsBalanced,
              Gate!ActiveExact,
              Gate!CloseOnlyIdle, Gate!NoLostWakeup, DrainsOnceStopped, Gate!Holding, Gate!Admitted
<1> QED
  BY <1>1, <1>2, MainStepKeeps DEF Gate!Next, Gate!Quiescent

LEMMA AdmissionInvariant == Gate!Spec => []AdmissionInv
BY InitAdmission, AdmissionKept, PTL DEF Gate!Spec

LEMMA GateStep == [Next]_vars => [Gate!Next]_Gate!admissionVars
<1> SUFFICES ASSUME [Next]_vars PROVE Gate!Next \/ UNCHANGED Gate!admissionVars
  OBVIOUS
<1>1. ASSUME NEW h \in Handlers, AdmissionStep(h) \/ StartChoice(h) \/ LeaveServer(h)
      PROVE  Gate!Next \/ UNCHANGED admissionVars
  BY <1>1 DEF AdmissionStep, StartChoice, LeaveServer, Gate!Next
<1>2. CASE ServeStep \/ EngineReleased
  BY <1>2 DEF ServeStep, EngineReleased, Gate!Next
<1>3. CASE Prewarm \/ ReleaseEngine \/ EngineRuns
  BY <1>3 DEF Prewarm, ReleaseEngine, EngineRuns, admissionVars, Gate!admissionVars
<1>4. CASE Over \/ UNCHANGED vars
  BY <1>4 DEF Over, vars, admissionVars, Gate!admissionVars
<1> QED
  BY <1>1, <1>2, <1>3, <1>4 DEF Next, admissionVars, Gate!admissionVars

LEMMA ImplementsAdmission == Spec => Gate!Spec
BY GateStep, PTL DEF Spec, Init, Gate!Spec

LEMMA AlwaysAdmission == Spec => []AdmissionInv
BY AdmissionInvariant, ImplementsAdmission, PTL

-----------------------------------------------------------------------------
LEMMA SameEngineInit == Engine!Init => W!Init
BY DEF Engine!Init, W!Init, Engine!Threads, W!Threads, Engine!Workers, W!Workers

LEMMA SameVars ==
  /\ Engine!callVars = W!callVars /\ Engine!engineVars = W!engineVars
  /\ Engine!workerVars = W!workerVars
  /\ (UNCHANGED Engine!callVars <=> UNCHANGED W!callVars)
  /\ (UNCHANGED Engine!engineVars <=> UNCHANGED W!engineVars)
  /\ (UNCHANGED Engine!workerVars <=> UNCHANGED W!workerVars)
BY DEF Engine!callVars, W!callVars, Engine!engineVars, W!engineVars,
       Engine!workerVars, W!workerVars

LEMMA SameEnter ==
  ASSUME NEW c, Engine!Enter(c)
  PROVE  W!Enter(c)
BY DEF Engine!Enter, W!Enter, Engine!Goto, W!Goto, Engine!callVars, W!callVars,
       Engine!engineVars, W!engineVars, Engine!workerVars, W!workerVars

LEMMA SameCallStep ==
  ASSUME NEW c, Engine!CallProgress(c) \/ Engine!Consume(c)
  PROVE  W!CallProgress(c) \/ W!Consume(c)
<1> USE DEF Engine!Goto, W!Goto, Engine!End, W!End, Engine!callVars, W!callVars,
            Engine!engineVars, W!engineVars, Engine!workerVars, W!workerVars,
            W!CallProgress
<1>1. CASE Engine!Consume(c)
  BY <1>1 DEF Engine!Consume, W!Consume, Engine!Resume, W!Resume,
              Engine!Abandon, W!Abandon
<1>2. CASE Engine!AcquireLock(c) \/ Engine!AcquireLate(c) \/ Engine!QueueTimeout(c)
  BY <1>2 DEF Engine!AcquireLock, W!AcquireLock, Engine!AcquireLate,
              W!AcquireLate, Engine!QueueTimeout, W!QueueTimeout
<1>3. CASE Engine!StartClosed(c) \/ Engine!StartKeeps(c)
  BY <1>3 DEF Engine!StartClosed, W!StartClosed, Engine!StartKeeps,
              W!StartKeeps, Engine!Alive, W!Alive
<1>4. CASE Engine!StartSpawns(c) \/ Engine!SpawnFails(c)
  BY <1>4 DEF Engine!StartSpawns, W!StartSpawns, Engine!SpawnFails,
              W!SpawnFails, Engine!Replace, W!Replace, Engine!Alive, W!Alive,
              Engine!Workers, W!Workers
<1>5. CASE Engine!Send(c) \/ Engine!SendBroken(c) \/ Engine!SendNoPipe(c)
  BY <1>5 DEF Engine!Send, W!Send, Engine!SendBroken, W!SendBroken,
              Engine!SendNoPipe, W!SendNoPipe, Engine!Alive, W!Alive,
              Engine!ClosePipe, W!ClosePipe, Engine!Workers, W!Workers
<1>6. CASE Engine!ReadRef(c) \/ Engine!ReadRefClosed(c)
  BY <1>6 DEF Engine!ReadRef, W!ReadRef, Engine!ReadRefClosed, W!ReadRefClosed
<1>7. CASE Engine!Receive(c)
  BY <1>7 DEF Engine!Receive, W!Receive
<1>8. CASE \/ Engine!SetReady(c) \/ Engine!PollTimeout(c)
           \/ Engine!PollBroken(c) \/ Engine!ReleaseLock(c)
  BY <1>8 DEF Engine!SetReady, W!SetReady, Engine!PollTimeout, W!PollTimeout,
              Engine!PollBroken, W!PollBroken, Engine!ReleaseLock,
              W!ReleaseLock, Engine!Alive, W!Alive
<1>9. CASE Engine!Terminate(c)
  BY <1>9 DEF Engine!Terminate, W!Terminate, Engine!BeginTeardown,
              W!BeginTeardown, Engine!ClosePipe, W!ClosePipe, Engine!Workers,
              W!Workers
<1>10. CASE Engine!FinishTerminate(c) \/ Engine!TerminateRaises(c)
  BY <1>10 DEF Engine!FinishTerminate, W!FinishTerminate,
               Engine!TerminateRaises, W!TerminateRaises, Engine!Killed,
               W!Killed, Engine!KillIgnored, W!KillIgnored, Engine!Workers,
               W!Workers
<1> QED
  BY <1>1, <1>2, <1>3, <1>4, <1>5, <1>6, <1>7, <1>8, <1>9, <1>10
     DEF Engine!CallProgress

LEMMA SameWorkerStep ==
  ASSUME NEW w, Engine!WorkerStep(w)
  PROVE  W!WorkerStep(w)
<1> USE DEF Engine!Become, W!Become, Engine!Reply, W!Reply, Engine!callVars,
            W!callVars, Engine!engineVars, W!engineVars, W!WorkerStep
<1>1. CASE Engine!WorkerBoot(w) \/ Engine!WorkerTakes(w)
  BY <1>1 DEF Engine!WorkerBoot, W!WorkerBoot, Engine!WorkerTakes, W!WorkerTakes
<1>2. CASE Engine!WorkerChunk(w)
  BY <1>2 DEF Engine!WorkerChunk, W!WorkerChunk, Engine!Chunk, W!Chunk
<1>3. CASE Engine!WorkerDone(w) \/ Engine!WorkerError(w)
  BY <1>3 DEF Engine!WorkerDone, W!WorkerDone, Engine!WorkerError,
              W!WorkerError, Engine!Done, W!Done, Engine!Failure, W!Failure
<1>4. CASE Engine!WorkerHangsUp(w) \/ Engine!WorkerCrash(w)
  BY <1>4 DEF Engine!WorkerHangsUp, W!WorkerHangsUp, Engine!WorkerCrash,
              W!WorkerCrash, Engine!Alive, W!Alive
<1>5. CASE Engine!WorkerSticks(w) \/ Engine!WorkerUnsticks(w)
  BY <1>5 DEF Engine!WorkerSticks, W!WorkerSticks, Engine!WorkerUnsticks,
              W!WorkerUnsticks
<1> QED
  BY <1>1, <1>2, <1>3, <1>4, <1>5 DEF Engine!WorkerStep

LEMMA SameCall ==
  /\ Engine!CallAbort => W!CallAbort
  /\ Engine!CallClose => W!CallClose
BY DEF Engine!CallAbort, W!CallAbort, Engine!CallClose, W!CallClose,
       Engine!Goto, W!Goto, Engine!callVars, W!callVars, Engine!engineVars,
       W!engineVars, Engine!workerVars, W!workerVars

LEMMA SameRelease ==
  Engine!AbortProgress \/ Engine!CloseProgress => W!AbortProgress \/ W!CloseProgress
<1> USE DEF Engine!Goto, W!Goto, Engine!callVars, W!callVars, Engine!engineVars,
            W!engineVars, Engine!workerVars, W!workerVars, Engine!Workers,
            W!Workers, Engine!BeginTeardown, W!BeginTeardown, Engine!ClosePipe,
            W!ClosePipe, Engine!Killed, W!Killed, Engine!KillIgnored,
            W!KillIgnored, W!AbortProgress, W!CloseProgress
<1>1. CASE Engine!Abort
  BY <1>1 DEF Engine!Abort, W!Abort
<1>2. CASE Engine!FinishAbort
  BY <1>2 DEF Engine!FinishAbort, W!FinishAbort
<1>3. CASE Engine!CloseLocks \/ Engine!CloseSends
  BY <1>3 DEF Engine!CloseLocks, W!CloseLocks, Engine!CloseSends, W!CloseSends
<1>4. CASE Engine!CloseTerminates
  BY <1>4 DEF Engine!CloseTerminates, W!CloseTerminates
<1>5. CASE Engine!FinishClose
  BY <1>5 DEF Engine!FinishClose, W!FinishClose
<1> QED
  BY <1>1, <1>2, <1>3, <1>4, <1>5 DEF Engine!AbortProgress, Engine!CloseProgress

LEMMA SameEngineStep == Engine!EngineStep => W!EngineStep
BY SameCallStep, SameWorkerStep, SameRelease
   DEF Engine!EngineStep, W!EngineStep, Engine!Workers, W!Workers

LEMMA EngineVars == UNCHANGED engineVars => UNCHANGED W!vars
BY DEF engineVars, W!vars, W!callVars, W!engineVars, W!workerVars

LEMMA EngineNext == [Next]_vars => [W!Next]_W!vars
<1> SUFFICES ASSUME [Next]_vars PROVE W!Next \/ UNCHANGED W!vars
  OBVIOUS
<1>1. CASE Prewarm
  BY <1>1, SameEnter, EngineAssumption DEF Prewarm, W!Next
<1>2. ASSUME NEW h \in Handlers, StartChoice(h)
      PROVE  W!Next
  <2>1. PICK i \in 1..Len(Choices[h]) : W!Enter(Choices[h][i])
    BY <1>2, SameEnter DEF StartChoice
  <2>2. Choices[h][i] \in Calls
    BY ServerAssumption
  <2> QED
    BY <2>1, <2>2 DEF W!Next
<1>3. ASSUME NEW h \in Handlers, AdmissionStep(h) \/ LeaveServer(h)
      PROVE  UNCHANGED W!vars
  BY <1>3, EngineVars DEF AdmissionStep, LeaveServer
<1>4. CASE ServeStep \/ EngineReleased
  BY <1>4, EngineVars DEF ServeStep, EngineReleased
<1>5. CASE ReleaseEngine
  BY <1>5, SameCall DEF ReleaseEngine, W!Next
<1>6. CASE EngineRuns
  BY <1>6, SameEngineStep DEF EngineRuns, W!Next
<1>7. CASE Over \/ UNCHANGED vars
  BY <1>7, EngineVars DEF Over, vars
<1> QED
  BY <1>1, <1>2, <1>3, <1>4, <1>5, <1>6, <1>7 DEF Next

LEMMA ImplementsEngine == Spec => W!Spec
BY SameEngineInit, EngineNext, PTL DEF Spec, Init, W!Spec

LEMMA AlwaysEngine == Spec => [](W!ProcessInv /\ W!CallInv)
BY ImplementsEngine, W!ProcessInvariant, W!CallInvariant, EngineAssumption, PTL
   DEF W!EngineAssumption

-----------------------------------------------------------------------------
(***************************************************************************)
(* What ties the two together: a call in progress belongs to an admitted   *)
(* request or to the prewarm, which is over before anybody is served; and  *)
(* the closing thread is where serve() says it is.                         *)
(***************************************************************************)
InProgress(c) == pc[c] \notin {"idle", "end"}

CallsAdmitted ==
    \A h \in Handlers : \A c \in CallsOf(h) : InProgress(c) => hpc[h] = "admitted"

OthersIdle ==
    \A c \in Calls \ Prewarms :
        pc[c] # "idle" => \E h \in Handlers : c \in CallsOf(h)

WarmedFirst == main # "serving" => \A c \in Prewarms : pc[c] = "end"

Serving == {"serving", "stopping", "wait", "asleep", "expired"}
CloserFollows ==
    /\ main \in Serving => pc[Closer] = "open"
    /\ main = "close" => pc[Closer] \in {"open", "closeLock", "closeSend",
                                        "closeTerm", "closeKill", "shut"}
    /\ main = "abort" => pc[Closer] \in {"open", "abort", "abortKill", "aborted"}
    /\ main = "closed" => pc[Closer] = "shut"
    /\ main = "aborted" => pc[Closer] = "aborted"

ShutWorker ==
    pc[Closer] = "shut" /\ proc # NoOne => wstate[proc] \in {"doomed", "dead"}

ServerInv ==
    /\ CallsAdmitted /\ OthersIdle /\ WarmedFirst
    /\ CloserFollows /\ ShutWorker

Facts == AdmissionInv /\ W!ProcessInv /\ W!CallInv /\ ServerInv

LEMMA Types ==
  ASSUME Facts
  PROVE  /\ pc \in [W!Threads -> W!CallLabels \cup W!CloserLabels]
         /\ lock \in W!Threads \cup {NoOne}
         /\ fate \in [Calls -> W!Fates]
         /\ proc \in Calls \cup {NoOne}
         /\ wstate \in [Calls -> W!WorkerStates]
         /\ hpc \in [Handlers -> Gate!HandlerLabels]
         /\ main \in Gate!MainLabels
BY DEF Facts, W!ProcessInv, W!TypeInv, W!TypeOK, W!ThreadTypes, W!CallTypes,
       W!EngineTypes, W!WorkerTypes, W!Workers, AdmissionInv, Gate!TypeOK

\* Every choice is a call of its own, and never the prewarm.
LEMMA ChoiceCalls ==
  /\ \A h \in Handlers : CallsOf(h) \subseteq Calls \ Prewarms
  /\ \A h \in Handlers : \A i \in 1..Len(Choices[h]) : Choices[h][i] \in Calls \ Prewarms
  /\ \A h, g \in Handlers : \A c \in CallsOf(h) \cap CallsOf(g) : h = g
<1>1. \A h \in Handlers : \A i \in 1..Len(Choices[h]) : Choices[h][i] \in Calls \ Prewarms
  BY ServerAssumption
<1>2. ASSUME NEW h \in Handlers, NEW g \in Handlers, NEW c \in CallsOf(h) \cap CallsOf(g)
      PROVE  h = g
  <2>1. PICK i \in 1..Len(Choices[h]) : c = Choices[h][i]
    BY <1>2 DEF CallsOf
  <2>2. PICK j \in 1..Len(Choices[g]) : c = Choices[g][j]
    BY <1>2 DEF CallsOf
  <2> QED
    BY <2>1, <2>2, ServerAssumption
<1> QED
  BY <1>1, <1>2 DEF CallsOf

LEMMA IdleWhenClosing == Facts => CloseFindsIdle
<1> SUFFICES ASSUME Facts, main \in {"close", "closed"}
             PROVE  /\ lock \in {NoOne, Closer}
                    /\ \A c \in Calls : pc[c] \in {"idle", "end"}
  BY DEF CloseFindsIdle
<1>1. \A h \in Handlers : hpc[h] # "admitted"
  BY DEF Facts, AdmissionInv, Gate!CloseOnlyIdle, Gate!Admitted
<1>2. \A c \in Prewarms : pc[c] = "end"
  BY DEF Facts, ServerInv, WarmedFirst
<1>3. \A c \in Calls \ Prewarms : pc[c] \in {"idle", "end"}
  BY <1>1 DEF Facts, ServerInv, CallsAdmitted, OthersIdle, InProgress
<1>4. \A c \in Calls : pc[c] \in {"idle", "end"}
  BY <1>2, <1>3
<1> QED
  BY <1>4, Types DEF Facts, W!CallInv, W!HolderInside, W!Threads

LEMMA InitServer == Init => ServerInv
<1> SUFFICES ASSUME Init PROVE ServerInv
  OBVIOUS
<1>1. /\ \A c \in Calls : pc[c] = "idle"
      /\ pc[Closer] = "open" /\ proc = NoOne /\ main = "serving"
  BY EngineAssumption DEF Init, Gate!Init, Engine!Init, Engine!Threads
<1>2. CallsAdmitted
  BY <1>1, ChoiceCalls DEF CallsAdmitted, InProgress
<1> QED
  BY <1>1, <1>2 DEF ServerInv, OthersIdle, WarmedFirst, CloserFollows, ShutWorker

-----------------------------------------------------------------------------
\* A call that goes on, or starts, is one of an admitted request or a prewarm.
LEMMA CallMoves ==
  ASSUME Facts, NEW c \in Calls, UNCHANGED admissionVars,
         \A t \in W!Threads \ {c} : pc'[t] = pc[t],
         InProgress(c) /\ pc'[c] # "idle"
  PROVE  CallsAdmitted' /\ OthersIdle' /\ WarmedFirst' /\ CloserFollows'
<1> USE EngineAssumption, Types
        DEF admissionVars, W!Threads, InProgress, Facts, ServerInv
<1>1. CallsAdmitted'
  BY ChoiceCalls DEF CallsAdmitted
<1>2. OthersIdle'
  BY DEF OthersIdle
<1>3. WarmedFirst' /\ CloserFollows'
  BY DEF WarmedFirst, CloserFollows
<1> QED
  BY <1>1, <1>2, <1>3

LEMMA CallRuns ==
  ASSUME Facts, UNCHANGED admissionVars,
         NEW c \in Calls, W!CallProgress(c) \/ W!Consume(c)
  PROVE  ServerInv'
<1>1. W!MovesAlone(c)
  BY W!CallFrame, EngineAssumption DEF Facts, W!EngineAssumption
<1>2. main \notin {"close", "closed"}
  BY <1>1, IdleWhenClosing DEF CloseFindsIdle, W!MovesAlone
<1>3. pc'[Closer] = pc[Closer] /\ pc[Closer] # "shut"
  BY <1>1, <1>2, Types, EngineAssumption
     DEF W!MovesAlone, W!Threads, Facts, ServerInv, CloserFollows, Gate!MainLabels, Serving
<1>4. ShutWorker'
  BY <1>3 DEF ShutWorker
<1> QED
  BY <1>1, <1>4, CallMoves DEF W!MovesAlone, InProgress, ServerInv

LEMMA WorkerRuns ==
  ASSUME Facts, UNCHANGED admissionVars, NEW w \in Calls, W!WorkerStep(w)
  PROVE  ServerInv'
<1>1. UNCHANGED <<pc, lock, fate>>
  BY W!WorkerFrame, EngineAssumption DEF W!Workers, W!EngineAssumption
<1>2. W!ProcessesKept \/ W!WorkerMoved(w)
  BY W!WorkerEffect, EngineAssumption
     DEF Facts, W!ProcessInv, W!Workers, W!EngineAssumption
<1>3. ShutWorker'
  BY <1>1, <1>2, Types
     DEF Facts, ServerInv, ShutWorker, W!ProcessesKept, W!WorkerMoved, W!Alive,
         W!WorkerStates
<1> QED
  BY <1>1, <1>3
     DEF admissionVars, Facts, ServerInv, CallsAdmitted, OthersIdle, WarmedFirst,
         CloserFollows, InProgress

LEMMA CloserRuns ==
  ASSUME Facts, UNCHANGED admissionVars, W!AbortProgress \/ W!CloseProgress
  PROVE  ServerInv'
<1> USE DEF Facts, ServerInv
<1>1. /\ W!CloserMoves /\ fate' = fate
      /\ \A c \in Calls : pc'[c] = pc[c]
  BY W!CloserFrame, EngineAssumption DEF W!ProcessInv, W!EngineAssumption
<1>2. CloserFollows'
  BY <1>1, Types
     DEF admissionVars, CloserFollows, W!CloserMoves, Gate!MainLabels, Serving
<1>3. ShutWorker'
  BY <1>1, Types
     DEF ShutWorker, W!CloserMoves, W!ProcessesKept, W!Killed, W!KillIgnored
<1>4. CallsAdmitted' /\ OthersIdle' /\ WarmedFirst'
  BY <1>1, ChoiceCalls, EngineAssumption
     DEF admissionVars, CallsAdmitted, OthersIdle, WarmedFirst, InProgress
<1> QED
  BY <1>2, <1>3, <1>4

LEMMA EngineRunsKeeps ==
  ASSUME Facts, EngineRuns
  PROVE  ServerInv'
BY SameEngineStep, CallRuns, WorkerRuns, CloserRuns
   DEF EngineRuns, W!EngineStep, W!Workers

\* A call is entered.
LEMMA Entering ==
  ASSUME Facts, UNCHANGED admissionVars, NEW c \in Calls, W!Enter(c)
  PROVE  /\ pc[c] = "idle" /\ pc'[c] = "lock" /\ fate' = fate
         /\ \A d \in W!Threads \ {c} : pc'[d] = pc[d]
         /\ WarmedFirst' /\ CloserFollows' /\ ShutWorker'
<1>1. /\ pc[c] = "idle" /\ pc' = [pc EXCEPT ![c] = "lock"]
      /\ UNCHANGED <<lock, fate, proc, wstate>>
  BY W!EnterFrame, EngineAssumption DEF Facts, W!CallInv, W!EngineAssumption
<1> QED
  BY <1>1, Types, EngineAssumption
     DEF admissionVars, W!Threads, Facts, ServerInv, WarmedFirst, CloserFollows,
         ShutWorker

LEMMA PrewarmKeeps ==
  ASSUME Facts, Prewarm
  PROVE  ServerInv'
<1>1. PICK c \in Prewarms : W!Enter(c)
  BY SameEnter DEF Prewarm
<1>2. c \in Calls /\ UNCHANGED admissionVars
  BY EngineAssumption DEF Prewarm
<1>3. \A d \in Calls \ Prewarms : pc'[d] = pc[d] /\ fate'[d] = fate[d]
  BY <1>1, <1>2, Entering DEF W!Threads
<1>4. CallsAdmitted' /\ OthersIdle'
  BY <1>2, <1>3, ChoiceCalls
     DEF admissionVars, Facts, ServerInv, CallsAdmitted, OthersIdle, InProgress
<1> QED
  BY <1>1, <1>2, <1>4, Entering DEF ServerInv

LEMMA StartChoiceKeeps ==
  ASSUME Facts, NEW h \in Handlers, StartChoice(h)
  PROVE  ServerInv'
<1>1. PICK i \in 1..Len(Choices[h]) :
         /\ \A j \in 1..(i - 1) : fate[Choices[h][j]] = "done"
         /\ W!Enter(Choices[h][i])
  BY SameEnter DEF StartChoice
<1> DEFINE c == Choices[h][i]
<1>2. /\ c \in Calls \ Prewarms /\ c \in CallsOf(h)
      /\ hpc[h] = "admitted" /\ UNCHANGED admissionVars
  BY ChoiceCalls DEF StartChoice, CallsOf
<1>3. /\ pc'[c] = "lock" /\ fate' = fate
      /\ \A d \in Calls \ {c} : pc'[d] = pc[d]
      /\ WarmedFirst' /\ CloserFollows' /\ ShutWorker'
  BY <1>1, <1>2, Entering DEF W!Threads
<1>4. CallsAdmitted' /\ OthersIdle'
  BY <1>2, <1>3, ChoiceCalls
     DEF admissionVars, Facts, ServerInv, CallsAdmitted, OthersIdle, InProgress
<1> QED
  BY <1>3, <1>4 DEF ServerInv

-----------------------------------------------------------------------------
\* A request leaves the guarded region only between its calls.
LEMMA HandlerKeeps ==
  ASSUME Facts, NEW h \in Handlers, AdmissionStep(h) \/ LeaveServer(h)
  PROVE  ServerInv'
<1> USE Types DEF Facts, ServerInv
<1>1. UNCHANGED engineVars
  BY DEF AdmissionStep, LeaveServer
<1>2. \/ main' = main
      \/ main = "asleep" /\ main' = "wait"
  BY DEF AdmissionStep, LeaveServer, Gate!Connect, Gate!HandlerStep, Gate!Leave,
         Gate!LookDraining, Gate!Refuse, Gate!TakeSlot, Gate!QueueFull,
         Gate!TryEnter, Gate!EnterRefused, Gate!GiveSlot
<1>3. \E label : hpc' = [hpc EXCEPT ![h] = label]
  BY DEF AdmissionStep, LeaveServer, Gate!Connect, Gate!HandlerStep, Gate!Leave,
         Gate!LookDraining, Gate!Refuse, Gate!TakeSlot, Gate!QueueFull,
         Gate!TryEnter, Gate!EnterRefused, Gate!GiveSlot, Gate!Move
<1>4. hpc[h] = "admitted" => LeaveServer(h)
  BY DEF AdmissionStep, Gate!Connect, Gate!HandlerStep, Gate!LookDraining,
         Gate!Refuse, Gate!TakeSlot, Gate!QueueFull, Gate!TryEnter,
         Gate!EnterRefused, Gate!GiveSlot, Gate!At
<1>5. CallsAdmitted'
  BY <1>1, <1>3, <1>4
     DEF engineVars, CallsAdmitted, LeaveServer, InCall, InProgress
<1>6. WarmedFirst' /\ CloserFollows'
  BY <1>1, <1>2 DEF engineVars, WarmedFirst, CloserFollows, Serving
<1>7. OthersIdle' /\ ShutWorker'
  BY <1>1 DEF engineVars, OthersIdle, ShutWorker
<1> QED
  BY <1>5, <1>6, <1>7

LEMMA ServeKeeps ==
  ASSUME Facts, ServeStep \/ EngineReleased
  PROVE  ServerInv'
<1> USE Types DEF Facts, ServerInv
<1>1. UNCHANGED engineVars /\ hpc' = hpc
  BY DEF ServeStep, EngineReleased, Gate!RequestShutdown, Gate!MainStep,
         Gate!StopServing, Gate!Drained, Gate!DrainSleeps, Gate!DrainDeadline,
         Gate!DrainExpired, Gate!EngineReleased
<1>2. /\ ServeStep => main \in Serving /\ Prewarmed
      /\ main' \in Serving \cup {"close", "abort", "closed", "aborted"}
      /\ main' = "closed" => main = "close" /\ pc[Closer] \in {"aborted", "shut"}
      /\ main' = "aborted" => main = "abort" /\ pc[Closer] \in {"aborted", "shut"}
      /\ main' \in Serving \cup {"close", "abort"} => main \in Serving
  BY DEF ServeStep, EngineReleased, Gate!RequestShutdown, Gate!MainStep,
         Gate!StopServing, Gate!Drained, Gate!DrainSleeps, Gate!DrainDeadline,
         Gate!DrainExpired, Gate!EngineReleased, Serving
<1>3. WarmedFirst'
  BY <1>1, <1>2 DEF engineVars, WarmedFirst, Prewarmed, EngineReleased, Serving,
                    Gate!EngineReleased
<1>4. CloserFollows'
  BY <1>1, <1>2 DEF engineVars, CloserFollows, Serving
<1>5. CallsAdmitted' /\ OthersIdle' /\ ShutWorker'
  BY <1>1 DEF engineVars, CallsAdmitted, InProgress, OthersIdle, ShutWorker
<1> QED
  BY <1>3, <1>4, <1>5

LEMMA ReleaseKeeps ==
  ASSUME Facts, ReleaseEngine
  PROVE  ServerInv'
<1> USE Types, EngineAssumption DEF Facts, ServerInv, W!Threads
<1>1. /\ UNCHANGED admissionVars /\ UNCHANGED <<fate, proc, wstate>>
      /\ \/ main = "close" /\ pc' = [pc EXCEPT ![Closer] = "closeLock"]
         \/ main = "abort" /\ pc' = [pc EXCEPT ![Closer] = "abort"]
  BY DEF ReleaseEngine, Engine!CallClose, Engine!CallAbort, Engine!Goto,
         Engine!callVars, Engine!engineVars, Engine!workerVars
<1>2. \A c \in Calls : pc'[c] = pc[c]
  BY <1>1
<1>3. CloserFollows' /\ ShutWorker'
  BY <1>1 DEF admissionVars, CloserFollows, ShutWorker, Serving
<1>4. CallsAdmitted' /\ OthersIdle' /\ WarmedFirst'
  BY <1>1, <1>2, ChoiceCalls
     DEF admissionVars, CallsAdmitted, InProgress, OthersIdle, WarmedFirst
<1> QED
  BY <1>3, <1>4

LEMMA ServerStep == Facts /\ [Next]_vars => ServerInv'
<1> SUFFICES ASSUME Facts, [Next]_vars PROVE ServerInv'
  OBVIOUS
<1>1. CASE Over \/ UNCHANGED vars
  BY <1>1 DEF Over, vars, admissionVars, engineVars, Facts, ServerInv,
              CallsAdmitted, InProgress, OthersIdle, WarmedFirst, CloserFollows,
              ShutWorker
<1> QED
  BY <1>1, PrewarmKeeps, HandlerKeeps, StartChoiceKeeps, ServeKeeps,
     ReleaseKeeps, EngineRunsKeeps DEF Next

LEMMA AlwaysFacts == Spec => []Facts
<1>1. Init => ServerInv
  BY InitServer
<1>2. ServerInv /\ AdmissionInv /\ W!ProcessInv /\ W!CallInv /\ [Next]_vars
        => ServerInv'
  BY ServerStep DEF Facts
<1>3. AdmissionInv /\ W!ProcessInv /\ W!CallInv /\ ServerInv => Facts
  BY DEF Facts
<1> QED
  BY <1>1, <1>2, <1>3, AlwaysAdmission, AlwaysEngine, PTL DEF Spec

-----------------------------------------------------------------------------
\* Slots and the tracker's count stay exact whatever the engine does to the
\* requests that hold them.
THEOREM ExactInTheServer == Spec => []AccountsExact
<1>1. AdmissionInv => AccountsExact
  BY DEF AdmissionInv, AccountsExact, Gate!AccountsExact
<1> QED
  BY <1>1, AlwaysAdmission, PTL

\* At most Capacity requests wait beside the one being served.
THEOREM BoundedInTheServer == Spec => []Gate!AdmissionBound
<1>1. ASSUME AdmissionInv PROVE Gate!AdmissionBound
  <2>1. Gate!Admitted \subseteq Gate!Holding
    BY DEF Gate!Admitted, Gate!Holding
  <2>2. Cardinality(Gate!Admitted) <= Cardinality(Gate!Holding)
    BY <2>1, FiniteParts, FS_Subset
  <2> QED
    BY <1>1, <2>2, SameSize, FiniteParts, AdmissionAssumption
       DEF AdmissionInv, Gate!TypeOK, Gate!SlotsBalanced, Gate!ActiveExact,
           Gate!AdmissionBound
<1> QED
  BY <1>1, AlwaysAdmission, PTL

\* The drain sleeps only while an admitted request is left to notify it.
THEOREM DrainIsWoken == Spec => []NoLostWakeup
<1>1. AdmissionInv => NoLostWakeup
  BY DEF AdmissionInv, NoLostWakeup
<1> QED
  BY <1>1, AlwaysAdmission, PTL

\* Once shutdown began, the admitted requests only become fewer.
THEOREM DrainShrinks == Spec => DrainIsFinal
<1>1. AdmissionInv /\ [Gate!Next]_Gate!admissionVars
        => [draining => draining' /\ Gate!Admitted' \subseteq Gate!Admitted]_admissionVars
  <2> SUFFICES ASSUME Gate!TypeOK, Gate!Next \/ UNCHANGED admissionVars, draining
               PROVE  draining' /\ Gate!Admitted' \subseteq Gate!Admitted
    BY DEF AdmissionInv, admissionVars, Gate!admissionVars
  <2> USE DEF Gate!TypeOK, Gate!At, Gate!Move, Gate!Admitted
  <2>1. CASE UNCHANGED admissionVars
    BY <2>1 DEF admissionVars
  <2>2. ASSUME NEW h \in Handlers, Gate!Connect(h) \/ Gate!HandlerStep(h) \/ Gate!Leave(h)
        PROVE  draining' /\ Gate!Admitted' \subseteq Gate!Admitted
    BY <2>2 DEF Gate!Connect, Gate!HandlerStep, Gate!LookDraining, Gate!Refuse,
                Gate!TakeSlot, Gate!QueueFull, Gate!TryEnter, Gate!EnterRefused,
                Gate!Leave, Gate!GiveSlot
  <2>3. CASE Gate!RequestShutdown \/ Gate!MainStep \/ Gate!EngineReleased
    BY <2>3 DEF Gate!RequestShutdown, Gate!MainStep, Gate!StopServing, Gate!Drained,
                Gate!DrainSleeps, Gate!DrainDeadline, Gate!DrainExpired,
                Gate!EngineReleased
  <2> QED
    BY <2>1, <2>2, <2>3
       DEF Gate!Next, Gate!Quiescent, admissionVars, Gate!admissionVars
<1> QED
  BY <1>1, AlwaysAdmission, GateStep, PTL DEF Spec, DrainIsFinal

\* engine.close() finds neither a call in progress nor its lock taken, for any
\* number of handlers, choices, slots and prewarms.
THEOREM CloseIsQuiet == Spec => []CloseFindsIdle
BY AlwaysFacts, IdleWhenClosing, PTL

\* No worker is left when serve() has returned, by either road.
THEOREM WorkerIsGone == Spec => []NoWorkerAfterServe
<1>1. ASSUME Facts, main \in {"closed", "aborted"}, NEW w \in Calls, Engine!Alive(w)
      PROVE  wstate[w] = "doomed"
  <2>1. w = proc /\ w # NoOne
    BY <1>1, EngineAssumption
       DEF Facts, W!ProcessInv, W!SingleWorker, W!Workers, W!Alive, Engine!Alive
  <2>2. wstate[proc] \in {"doomed", "dead"}
    BY <1>1, <2>1
       DEF Facts, W!ProcessInv, W!AbortedWorker, ServerInv, CloserFollows, ShutWorker
  <2> QED
    BY <1>1, <2>1, <2>2 DEF Engine!Alive
<1>2. Facts => NoWorkerAfterServe
  BY <1>1 DEF NoWorkerAfterServe
<1> QED
  BY <1>2, AlwaysFacts, PTL
=============================================================================
