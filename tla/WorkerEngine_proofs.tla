------------------------ MODULE WorkerEngine_proofs -------------------------
(***************************************************************************)
(* Theorems about WorkerEngine, for any sets of calls and any MaxChunks.   *)
(***************************************************************************)
EXTENDS WorkerEngine, SequenceTheorems, FiniteSetTheorems, TLAPS

-----------------------------------------------------------------------------
(***************************************************************************)
(* Types.  A reply names the call it is for, so the type of the pipe rests *)
(* on a busy worker having a job, and a poll on having a pipe to poll.     *)
(***************************************************************************)
HasJob == \A w \in Workers : wstate[w] \in {"busy", "stuck"} => job[w] \in Calls
HasRef == \A c \in Calls : pc[c] = "poll" => ref[c] \in Workers
TypeInv == TypeOK /\ HasJob /\ HasRef

LEMMA InitType == Init => TypeInv
<1> SUFFICES ASSUME Init PROVE TypeInv
    OBVIOUS
<1>1. ThreadTypes
  BY EngineAssumption DEF Init, ThreadTypes, Threads, CallLabels, CloserLabels
<1>2. CallTypes
  <2>1. ref \in [Calls -> Workers \cup {NoOne}] /\ fate \in [Calls -> Fates]
    BY DEF Init, Fates
  <2>2. got \in [Calls -> Seq(Message)]
    BY DEF Init
  <2> QED
    BY <2>1, <2>2 DEF CallTypes
<1>3. EngineTypes
  BY DEF Init, EngineTypes
<1>4. WorkerTypes
  BY DEF Init, WorkerTypes, WorkerStates
<1>5. HasJob /\ HasRef
  BY EngineAssumption DEF Init, HasJob, HasRef, Threads, Workers
<1> QED
  BY <1>1, <1>2, <1>3, <1>4, <1>5 DEF TypeInv, TypeOK

\* Closing a pipe drops what was waiting in it.
LEMMA EmptiedBox ==
  ASSUME NEW S, NEW box \in [Workers -> Seq(S)], NEW v
  PROVE  [w \in Workers |-> IF w = v THEN <<>> ELSE box[w]] \in [Workers -> Seq(S)]
OBVIOUS

\* Steps of a call that move only its program counter, a lock or its fate.
LEMMA PlainStepType ==
  ASSUME TypeInv, NEW c \in Calls,
         \/ Enter(c) \/ AcquireLock(c) \/ QueueTimeout(c) \/ AcquireLate(c)
         \/ StartClosed(c) \/ StartKeeps(c) \/ SendNoPipe(c)
         \/ ReadRefClosed(c) \/ SetReady(c) \/ PollTimeout(c) \/ PollBroken(c)
         \/ Resume(c) \/ Abandon(c) \/ ReleaseLock(c)
  PROVE  TypeInv'
<1> USE EngineAssumption
        DEF Enter, AcquireLock, QueueTimeout, AcquireLate, StartClosed,
            StartKeeps, SendNoPipe, ReadRefClosed, SetReady, PollTimeout,
            PollBroken, Resume, Abandon, ReleaseLock,
            Goto, End, TypeInv, TypeOK, callVars, engineVars, workerVars
<1>1. ThreadTypes'
  BY DEF ThreadTypes, Threads, CallLabels, CloserLabels
<1>2. CallTypes'
  BY DEF CallTypes, Fates
<1>3. EngineTypes' /\ WorkerTypes' /\ HasJob'
  BY DEF EngineTypes, WorkerTypes, HasJob
<1>4. HasRef'
  BY DEF HasRef, ThreadTypes, Threads
<1> QED
  BY <1>1, <1>2, <1>3, <1>4

\* A command goes down the pipe.
LEMMA SendType ==
  ASSUME TypeInv, NEW c \in Calls, Send(c)
  PROVE  TypeInv'
<1> USE EngineAssumption
        DEF Send, Goto, TypeInv, TypeOK, callVars, engineVars
<1>1. ThreadTypes' /\ CallTypes' /\ EngineTypes' /\ HasJob'
  BY DEF ThreadTypes, CallTypes, EngineTypes, HasJob, Threads, CallLabels
<1>2. inbox' \in [Workers -> Seq(Threads)]
  <2>1. conn \in Workers /\ c \in Threads
    BY DEF EngineTypes, Threads
  <2>2. Append(inbox[conn], c) \in Seq(Threads)
    BY <2>1, AppendProperties DEF WorkerTypes
  <2> QED
    BY <2>1, <2>2 DEF WorkerTypes
<1>3. WorkerTypes'
  BY <1>2 DEF WorkerTypes
<1>4. HasRef'
  BY DEF HasRef, ThreadTypes, Threads
<1> QED
  BY <1>1, <1>3, <1>4

LEMMA ReadRefType ==
  ASSUME TypeInv, NEW c \in Calls, ReadRef(c)
  PROVE  TypeInv'
<1> USE EngineAssumption
        DEF ReadRef, Goto, TypeInv, TypeOK, callVars, engineVars, workerVars
<1>1. conn \in Workers
  BY DEF EngineTypes
<1>2. ThreadTypes' /\ EngineTypes' /\ WorkerTypes' /\ HasJob'
  BY DEF ThreadTypes, EngineTypes, WorkerTypes, HasJob, Threads, CallLabels
<1>3. CallTypes' /\ HasRef'
  BY <1>1 DEF CallTypes, HasRef, ThreadTypes, Threads
<1> QED
  BY <1>2, <1>3

\* A reply is moved from the pipe to the call.
LEMMA ReceiveType ==
  ASSUME TypeInv, NEW c \in Calls, Receive(c)
  PROVE  TypeInv'
<1> USE EngineAssumption
        DEF Goto, End, TypeInv, TypeOK, callVars, engineVars
<1> DEFINE m == Head(outbox[conn])
<1>1. conn \in Workers
  BY DEF Receive, HasRef
<1>2. m \in Message /\ Tail(outbox[conn]) \in Seq(Message)
  BY <1>1, HeadTailProperties DEF Receive, WorkerTypes
<1>3. Append(got[c], m) \in Seq(Message)
  BY <1>2, AppendProperties DEF CallTypes
<1>4. ThreadTypes'
  BY DEF Receive, ThreadTypes, Threads, CallLabels
<1>5. CallTypes'
  <2>1. got' \in [Calls -> Seq(Message)]
    BY <1>3 DEF Receive, CallTypes
  <2>2. fate' \in [Calls -> Fates] /\ ref' = ref
    BY DEF Receive, CallTypes, Fates
  <2> QED
    BY <2>1, <2>2 DEF CallTypes
<1>6. outbox' \in [Workers -> Seq(Message)]
  BY <1>1, <1>2 DEF Receive, WorkerTypes
<1>7. EngineTypes' /\ WorkerTypes' /\ HasJob'
  BY <1>6 DEF Receive, EngineTypes, WorkerTypes, HasJob
<1>8. HasRef'
  BY DEF Receive, HasRef, ThreadTypes, Threads
<1> QED
  BY <1>4, <1>5, <1>7, <1>8

\* A worker is created, or its creation fails.
LEMMA StartType ==
  ASSUME TypeInv, NEW c \in Calls, StartSpawns(c) \/ SpawnFails(c)
  PROVE  TypeInv'
<1> USE EngineAssumption
        DEF StartSpawns, SpawnFails, Replace, Goto, End, TypeInv, TypeOK, Workers
<1>1. ThreadTypes'
  BY DEF ThreadTypes, Threads, CallLabels
<1>2. CallTypes'
  BY DEF CallTypes, callVars, Fates
<1>3. restarts' \in Nat
  BY DEF EngineTypes
<1>4. EngineTypes'
  BY <1>3 DEF EngineTypes
<1>5. WorkerTypes'
  <2>1. wstate' \in [Workers -> WorkerStates]
    BY DEF WorkerTypes, WorkerStates
  <2>2. outbox' \in [Workers -> Seq(Message)]
    <3>1. outbox \in [Workers -> Seq(Message)]
      BY DEF WorkerTypes
    <3>2. outbox' = [w \in Workers |-> IF w = conn THEN <<>> ELSE outbox[w]]
      OBVIOUS
    <3> QED
      BY <3>1, <3>2, EmptiedBox
  <2> QED
    BY <2>1, <2>2 DEF WorkerTypes
<1>6. HasJob'
  BY DEF WorkerTypes, HasJob
<1>7. HasRef'
  BY DEF HasRef, ThreadTypes, Threads, callVars
<1> QED
  BY <1>1, <1>2, <1>4, <1>5, <1>6, <1>7

\* The first half of _terminate_locked, from whichever thread.
LEMMA ClosePipeType ==
  ASSUME TypeInv,
         \/ \E c \in Calls : SendBroken(c) \/ Terminate(c)
         \/ Abort \/ CloseTerminates
  PROVE  TypeInv'
<1> USE EngineAssumption
        DEF SendBroken, Terminate, Abort, CloseTerminates, BeginTeardown,
            ClosePipe, Goto, End, TypeInv, TypeOK
<1>1. ThreadTypes'
  BY DEF ThreadTypes, Threads, CallLabels, CloserLabels
<1>2. CallTypes' /\ EngineTypes'
  BY DEF CallTypes, EngineTypes, callVars, Fates
<1>3. outbox' \in [Workers -> Seq(Message)]
  <2>1. outbox \in [Workers -> Seq(Message)]
    BY DEF WorkerTypes
  <2>2. outbox' = [w \in Workers |-> IF w = conn THEN <<>> ELSE outbox[w]]
    OBVIOUS
  <2> QED
    BY <2>1, <2>2, EmptiedBox
<1>4. WorkerTypes' /\ HasJob'
  BY <1>3 DEF WorkerTypes, HasJob
<1>5. HasRef'
  BY DEF HasRef, ThreadTypes, Threads, callVars
<1> QED
  BY <1>1, <1>2, <1>4, <1>5

\* The second half: the process is reaped, or survives its kill.
LEMMA KillType ==
  ASSUME TypeInv,
         \/ \E c \in Calls : FinishTerminate(c) \/ TerminateRaises(c)
         \/ FinishAbort \/ FinishClose
  PROVE  TypeInv'
<1> USE EngineAssumption DEF TypeInv, TypeOK
<1>1. /\ UNCHANGED <<ref, got, closed, ready, conn, job, made, inbox, outbox, warm>>
      /\ \/ \E t \in Threads, count \in BOOLEAN : Killed(t, count)
         \/ \E t \in Threads : KillIgnored(t)
  BY DEF FinishTerminate, TerminateRaises, FinishAbort, FinishClose, callVars,
         EngineTypes, Threads
<1>2. ThreadTypes' /\ CallTypes'
  <2> USE DEF Killed, KillIgnored, Goto, End, callVars, ThreadTypes, CallTypes,
              Threads, CallLabels, CloserLabels, Fates
  <2>1. ASSUME NEW c \in Calls, FinishTerminate(c)
        PROVE  ThreadTypes' /\ CallTypes'
    BY <2>1 DEF FinishTerminate
  <2>2. ASSUME NEW c \in Calls, TerminateRaises(c)
        PROVE  ThreadTypes' /\ CallTypes'
    <3>1. fate' \in [Calls -> Fates] /\ UNCHANGED <<ref, got, lock>> /\ life' = NoOne
      BY <2>2 DEF TerminateRaises
    <3>2. PICK label \in {"term", "release"} : pc' = [pc EXCEPT ![c] = label]
      BY <2>2 DEF TerminateRaises
    <3>3. ThreadTypes'
      BY <3>1, <3>2
    <3>4. CallTypes'
      BY <3>1
    <3> QED
      BY <3>3, <3>4
  <2>3. CASE FinishAbort \/ FinishClose
    BY <2>3 DEF FinishAbort, FinishClose
  <2> QED
    BY <2>1, <2>2, <2>3
<1>3. HasRef'
  BY DEF FinishTerminate, TerminateRaises, FinishAbort, FinishClose,
         Goto, End, callVars, HasRef, ThreadTypes, Threads
<1>4. EngineTypes'
  <2>1. CASE \E t \in Threads, count \in BOOLEAN : Killed(t, count)
    BY <1>1, <2>1 DEF Killed, EngineTypes
  <2>2. CASE \E t \in Threads : KillIgnored(t)
    BY <1>1, <2>2 DEF KillIgnored, EngineTypes
  <2> QED
    BY <1>1, <2>1, <2>2
<1>5. /\ wstate' \in [Workers -> WorkerStates]
      /\ \A w \in Workers : wstate'[w] \in {wstate[w], "dead", "doomed"}
  <2>1. CASE \E t \in Threads, count \in BOOLEAN : Killed(t, count)
    BY <2>1 DEF Killed, WorkerTypes, WorkerStates
  <2>2. CASE \E t \in Threads : KillIgnored(t)
    BY <2>2 DEF KillIgnored, WorkerTypes, WorkerStates, EngineTypes
  <2> QED
    BY <1>1, <2>1, <2>2
<1>6. WorkerTypes' /\ HasJob'
  BY <1>1, <1>5 DEF WorkerTypes, HasJob
<1> QED
  BY <1>2, <1>3, <1>4, <1>6

\* The worker takes a command: every command but "close" is a call's.
LEMMA WorkerTakesType ==
  ASSUME TypeInv, NEW w \in Workers, WorkerTakes(w)
  PROVE  TypeInv'
<1> USE EngineAssumption DEF WorkerTakes, Become, TypeInv, TypeOK
<1>1. ThreadTypes' /\ CallTypes' /\ EngineTypes' /\ HasRef'
  BY DEF ThreadTypes, CallTypes, EngineTypes, HasRef, callVars, engineVars
<1>2. Head(inbox[w]) \in Threads /\ Tail(inbox[w]) \in Seq(Threads)
  BY HeadTailProperties DEF WorkerTypes
<1>3. inbox' \in [Workers -> Seq(Threads)]
  BY <1>2 DEF WorkerTypes
<1>4. CASE Head(inbox[w]) = Closer
  BY <1>1, <1>3, <1>4 DEF WorkerTypes, WorkerStates, HasJob
<1>5. CASE Head(inbox[w]) # Closer
  <2>1. Head(inbox[w]) \in Calls
    BY <1>2, <1>5 DEF Threads
  <2>2. /\ wstate' = [wstate EXCEPT ![w] = "busy"]
        /\ job' = [job EXCEPT ![w] = Head(inbox[w])]
        /\ made' = [made EXCEPT ![w] = 0]
        /\ UNCHANGED <<outbox, warm>>
    BY <1>5
  <2>3. WorkerTypes'
    BY <1>3, <2>1, <2>2 DEF WorkerTypes, WorkerStates
  <2>4. HasJob'
    BY <2>1, <2>2 DEF WorkerTypes, HasJob
  <2> QED
    BY <1>1, <2>3, <2>4
<1> QED
  BY <1>4, <1>5

\* The worker answers.
LEMMA WorkerReplyType ==
  ASSUME TypeInv, NEW w \in Workers,
         WorkerChunk(w) \/ WorkerDone(w) \/ WorkerError(w)
  PROVE  TypeInv'
<1> USE EngineAssumption DEF TypeInv, TypeOK
<1>1. PICK m \in Message : Reply(w, m)
  <2>1. job[w] \in Calls /\ made[w] + 1 \in Nat
    BY DEF WorkerChunk, WorkerDone, WorkerError, Reply, HasJob, WorkerTypes
  <2> QED
    BY <2>1 DEF WorkerChunk, WorkerDone, WorkerError, Chunk, Done, Failure, Message
<1>2. ThreadTypes' /\ CallTypes' /\ EngineTypes' /\ HasRef'
  BY DEF WorkerChunk, WorkerDone, WorkerError, ThreadTypes, CallTypes,
         EngineTypes, HasRef, callVars, engineVars
<1>3. outbox' \in [Workers -> Seq(Message)]
  <2>1. Append(outbox[w], m) \in Seq(Message)
    BY AppendProperties DEF WorkerTypes
  <2> QED
    BY <1>1, <2>1 DEF Reply, WorkerTypes
<1>4. /\ wstate' \in [Workers -> WorkerStates]
      /\ job' \in [Workers -> Calls \cup {NoOne}]
      /\ made' \in [Workers -> Nat]
      /\ warm' \subseteq Workers
      /\ inbox' \in [Workers -> Seq(Threads)]
  <2>1. CASE WorkerChunk(w)
    BY <2>1 DEF WorkerChunk, WorkerTypes
  <2>2. CASE WorkerDone(w) \/ WorkerError(w)
    BY <2>2 DEF WorkerDone, WorkerError, Become, WorkerTypes, WorkerStates
  <2> QED
    BY <2>1, <2>2
<1>5. WorkerTypes'
  BY <1>3, <1>4 DEF WorkerTypes
<1>6. HasJob'
  BY DEF WorkerChunk, WorkerDone, WorkerError, Become, WorkerTypes, HasJob
<1> QED
  BY <1>2, <1>5, <1>6

\* The worker boots, crashes, hangs up, blocks in the driver or comes back.
LEMMA WorkerMoodType ==
  ASSUME TypeInv, NEW w \in Workers,
         \/ WorkerBoot(w) \/ WorkerHangsUp(w) \/ WorkerCrash(w)
         \/ WorkerSticks(w) \/ WorkerUnsticks(w)
  PROVE  TypeInv'
<1> USE DEF WorkerBoot, WorkerHangsUp, WorkerCrash, WorkerSticks, WorkerUnsticks,
            Become, TypeInv, TypeOK, callVars, engineVars
<1>1. ThreadTypes' /\ CallTypes' /\ EngineTypes' /\ HasRef'
  BY DEF ThreadTypes, CallTypes, EngineTypes, HasRef
<1>2. WorkerTypes' /\ HasJob'
  BY DEF WorkerTypes, WorkerStates, HasJob
<1> QED
  BY <1>1, <1>2

\* The steps of close() and abort() that touch neither pipe nor process.
LEMMA CloserType ==
  ASSUME TypeInv, CallAbort \/ CallClose \/ CloseLocks \/ CloseSends
  PROVE  TypeInv'
<1> USE EngineAssumption
        DEF CallAbort, CallClose, CloseLocks, CloseSends, Goto, TypeInv, TypeOK,
            callVars, engineVars, workerVars
<1>1. ThreadTypes'
  BY DEF ThreadTypes, Threads, CallLabels, CloserLabels
<1>2. CallTypes' /\ EngineTypes' /\ HasJob'
  BY DEF CallTypes, EngineTypes, HasJob
<1>3. WorkerTypes'
  <2>1. \A w \in Workers : Append(inbox[w], Closer) \in Seq(Threads)
    BY AppendProperties DEF WorkerTypes, Threads
  <2>2. \/ inbox' = inbox
        \/ inbox' = [w \in Workers |->
                       IF w = conn THEN Append(inbox[w], Closer) ELSE inbox[w]]
    OBVIOUS
  <2>3. inbox \in [Workers -> Seq(Threads)]
    BY DEF WorkerTypes
  <2>4. inbox' \in [Workers -> Seq(Threads)]
    <3> HIDE DEF CallAbort, CallClose, CloseLocks, CloseSends, TypeInv
    <3> QED
      BY <2>1, <2>2, <2>3
  <2>5. UNCHANGED <<wstate, job, made, outbox, warm>>
    OBVIOUS
  <2> QED
    BY <2>4, <2>5 DEF WorkerTypes
<1>4. HasRef'
  BY DEF HasRef, ThreadTypes, Threads
<1> QED
  BY <1>1, <1>2, <1>3, <1>4

LEMMA StutterType ==
  ASSUME TypeInv, UNCHANGED vars
  PROVE  TypeInv'
BY DEF vars, callVars, engineVars, workerVars, TypeInv, TypeOK, ThreadTypes,
       CallTypes, EngineTypes, WorkerTypes, HasJob, HasRef

LEMMA TypeStep == TypeInv /\ [Next]_vars => TypeInv'
<1> SUFFICES ASSUME TypeInv, [Next]_vars PROVE TypeInv'
    OBVIOUS
<1>1. ASSUME NEW c \in Calls, CallProgress(c) \/ Consume(c) \/ Enter(c)
      PROVE  TypeInv'
  BY <1>1, PlainStepType, SendType, ReadRefType, ReceiveType, StartType,
     ClosePipeType, KillType
     DEF CallProgress, Consume
<1>2. ASSUME NEW w \in Workers, WorkerStep(w)
      PROVE  TypeInv'
  BY <1>2, WorkerTakesType, WorkerReplyType, WorkerMoodType DEF WorkerStep
<1>3. ASSUME CallAbort \/ CallClose \/ AbortProgress \/ CloseProgress
      PROVE  TypeInv'
  BY <1>3, CloserType, ClosePipeType, KillType DEF AbortProgress, CloseProgress
<1>4. CASE UNCHANGED vars
  BY <1>4, StutterType
<1> QED
  BY <1>1, <1>2, <1>3, <1>4 DEF Next, EngineStep, Finished

\* Type correctness of the engine, for any number of calls and workers.
THEOREM TypeCorrect == Spec => []TypeOK
<1>1. Spec => []TypeInv
  BY InitType, TypeStep, PTL DEF Spec
<1>2. TypeInv => TypeOK
  BY DEF TypeInv
<1> QED
  BY <1>1, <1>2, PTL

-----------------------------------------------------------------------------
(***************************************************************************)
(* Processes.  One worker at most is alive, and it is _process; abort()    *)
(* closes the engine for good and leaves at most a doomed worker.          *)
(***************************************************************************)
ProcBorn == proc # NoOne => wstate[proc] # "unborn"
ClosedByAbort == closed <=> pc[Closer] \in {"abortKill", "aborted"}
AbortedWorker ==
    pc[Closer] = "aborted" /\ proc # NoOne => wstate[proc] \in {"doomed", "dead"}

ProcessInv == TypeInv /\ SingleWorker /\ ProcBorn /\ ClosedByAbort /\ AbortedWorker

\* What a step can do to the processes and to _process.
Spawned(c) ==
    /\ ~closed /\ proc' = c
    /\ proc # NoOne => ~Alive(proc)
    /\ \E s \in {"boot", "dead"} : wstate' = [wstate EXCEPT ![c] = s]
WorkerMoved(w) ==
    /\ proc' = proc /\ Alive(w)
    /\ \E s \in WorkerStates \ {"unborn", "doomed"} :
          wstate' = [wstate EXCEPT ![w] = s]
    /\ wstate[w] = "doomed" => wstate'[w] = "dead"
ProcessesKept == UNCHANGED <<wstate, proc>>

\* Every step of a call leaves the closing thread and _closed alone, and
\* touches the processes only as named above.
LEMMA CallEffect ==
  ASSUME TypeInv, NEW c \in Calls, CallProgress(c) \/ Consume(c) \/ Enter(c)
  PROVE  /\ pc'[Closer] = pc[Closer] /\ closed' = closed
         /\ \/ ProcessesKept
            \/ Spawned(c)
            \/ \E count \in BOOLEAN : Killed(c, count)
            \/ KillIgnored(c)
<1> USE EngineAssumption DEF TypeInv, TypeOK, ThreadTypes, Threads, Goto, End,
        callVars, engineVars, workerVars, ProcessesKept
<1>1. CASE Enter(c) \/ Consume(c)
  BY <1>1 DEF Enter, Consume, Resume, Abandon
<1>2. CASE \/ AcquireLock(c) \/ AcquireLate(c) \/ QueueTimeout(c)
           \/ StartClosed(c) \/ StartKeeps(c)
  BY <1>2 DEF AcquireLock, AcquireLate, QueueTimeout, StartClosed, StartKeeps
<1>3. CASE StartSpawns(c) \/ SpawnFails(c)
  BY <1>3 DEF StartSpawns, SpawnFails, Replace, Spawned
<1>4. CASE \/ Send(c) \/ SendBroken(c) \/ SendNoPipe(c)
           \/ ReadRef(c) \/ ReadRefClosed(c) \/ Terminate(c)
  BY <1>4 DEF Send, SendBroken, SendNoPipe, ReadRef, ReadRefClosed, Terminate,
              BeginTeardown, ClosePipe
<1>5. CASE \/ Receive(c) \/ SetReady(c) \/ PollTimeout(c) \/ PollBroken(c)
           \/ ReleaseLock(c)
  BY <1>5 DEF Receive, SetReady, PollTimeout, PollBroken, ReleaseLock
<1>6. CASE FinishTerminate(c)
  BY <1>6 DEF FinishTerminate, EngineTypes
<1>7. CASE TerminateRaises(c)
  <2>1. KillIgnored(c) /\ closed' = closed
    BY <1>7 DEF TerminateRaises
  <2>2. \E label \in CallLabels : pc' = [pc EXCEPT ![c] = label]
    BY <1>7 DEF TerminateRaises, CallLabels
  <2> QED
    BY <2>1, <2>2
<1> QED
  BY <1>1, <1>2, <1>3, <1>4, <1>5, <1>6, <1>7 DEF CallProgress

LEMMA WorkerEffect ==
  ASSUME TypeInv, NEW w \in Workers, WorkerStep(w)
  PROVE  /\ pc' = pc /\ closed' = closed
         /\ ProcessesKept \/ WorkerMoved(w)
<1> USE DEF TypeInv, TypeOK, WorkerTypes, WorkerStates, Become, Reply, Alive,
        engineVars, ProcessesKept, WorkerMoved
<1>1. CASE WorkerBoot(w) \/ WorkerTakes(w) \/ WorkerChunk(w)
  BY <1>1 DEF WorkerBoot, WorkerTakes, WorkerChunk
<1>2. CASE WorkerDone(w) \/ WorkerError(w)
  BY <1>2 DEF WorkerDone, WorkerError
<1>3. CASE \/ WorkerHangsUp(w) \/ WorkerCrash(w)
           \/ WorkerSticks(w) \/ WorkerUnsticks(w)
  BY <1>3 DEF WorkerHangsUp, WorkerCrash, WorkerSticks, WorkerUnsticks
<1> QED
  BY <1>1, <1>2, <1>3 DEF WorkerStep

\* The closing thread: only Abort sets _closed, on the way to its teardown.
LEMMA CloserEffect ==
  ASSUME TypeInv, CallAbort \/ CallClose \/ AbortProgress \/ CloseProgress
  PROVE  \/ /\ ProcessesKept /\ closed' = closed
            /\ pc[Closer] \notin {"abortKill", "aborted"}
            /\ pc'[Closer] \notin {"abortKill", "aborted"}
         \/ /\ ProcessesKept /\ closed' = TRUE
            /\ pc'[Closer] = "abortKill"
         \/ /\ Killed(Closer, FALSE) \/ KillIgnored(Closer)
            /\ closed' = closed
            /\ \/ pc[Closer] = "abortKill" /\ pc'[Closer] = "aborted"
               \/ pc[Closer] = "closeKill" /\ pc'[Closer] = "shut"
<1> USE EngineAssumption DEF TypeInv, TypeOK, ThreadTypes, Threads, Goto,
        callVars, engineVars, workerVars, ProcessesKept
<1>1. CASE CallAbort \/ CallClose
  BY <1>1 DEF CallAbort, CallClose
<1>2. CASE Abort
  BY <1>2 DEF Abort, BeginTeardown, ClosePipe
<1>3. CASE FinishAbort \/ FinishClose
  BY <1>3 DEF FinishAbort, FinishClose
<1>4. CASE CloseLocks \/ CloseSends \/ CloseTerminates
  BY <1>4 DEF CloseLocks, CloseSends, CloseTerminates, BeginTeardown, ClosePipe
<1> QED
  BY <1>1, <1>2, <1>3, <1>4 DEF AbortProgress, CloseProgress

\* Each way of touching the processes keeps at most one of them alive.
LEMMA ProcessEffect ==
  ASSUME TypeInv, TypeInv', SingleWorker, ProcBorn,
         \/ ProcessesKept
         \/ \E c \in Calls : Spawned(c)
         \/ \E t \in Threads, count \in BOOLEAN : Killed(t, count)
         \/ \E t \in Threads : KillIgnored(t)
         \/ \E w \in Workers : WorkerMoved(w)
  PROVE  SingleWorker' /\ ProcBorn'
<1> USE EngineAssumption DEF TypeInv, TypeOK, WorkerTypes, WorkerStates,
        EngineTypes, Workers, SingleWorker, ProcBorn, Alive
<1>1. CASE ProcessesKept
  BY <1>1 DEF ProcessesKept
<1>2. CASE \E c \in Calls : Spawned(c)
  BY <1>2 DEF Spawned
<1>3. CASE \E t \in Threads, count \in BOOLEAN : Killed(t, count)
  BY <1>3 DEF Killed
<1>4. CASE \E t \in Threads : KillIgnored(t)
  BY <1>4 DEF KillIgnored
<1>5. CASE \E w \in Workers : WorkerMoved(w)
  BY <1>5 DEF WorkerMoved
<1> QED
  BY <1>1, <1>2, <1>3, <1>4, <1>5

\* Only a spawn adds to the workers that were ever created.
LEMMA BornKept ==
  ASSUME TypeInv, ProcBorn,
         \/ ProcessesKept
         \/ \E t \in Threads, count \in BOOLEAN : Killed(t, count)
         \/ \E t \in Threads : KillIgnored(t)
         \/ \E w \in Workers : WorkerMoved(w)
  PROVE  Born' = Born
<1> USE DEF TypeInv, TypeOK, WorkerTypes, EngineTypes, ProcBorn, Alive
<1> SUFFICES \A w \in Workers : wstate[w] = "unborn" <=> wstate'[w] = "unborn"
    BY DEF Born
<1>1. CASE ProcessesKept
  BY <1>1 DEF ProcessesKept
<1>2. CASE \E t \in Threads, count \in BOOLEAN : Killed(t, count)
  <2>1. wstate' = [w \in Workers |-> IF w = proc THEN "dead" ELSE wstate[w]]
    BY <1>2 DEF Killed
  <2> QED
    BY <2>1, EngineAssumption DEF Workers
<1>3. CASE \E t \in Threads : KillIgnored(t)
  BY <1>3 DEF KillIgnored
<1>4. CASE \E w \in Workers : WorkerMoved(w)
  BY <1>4 DEF WorkerMoved
<1> QED
  BY <1>1, <1>2, <1>3, <1>4

LEMMA ProcessStep == ProcessInv /\ [Next]_vars => ProcessInv'
<1> SUFFICES ASSUME ProcessInv, [Next]_vars PROVE ProcessInv'
    OBVIOUS
<1> USE DEF ProcessInv
<1>0. TypeInv'
  BY TypeStep
<1>1. ASSUME NEW c \in Calls, CallProgress(c) \/ Consume(c) \/ Enter(c)
      PROVE  ProcessInv'
  <2>1. SingleWorker' /\ ProcBorn'
    BY <1>0, <1>1, CallEffect, ProcessEffect DEF Threads
  <2>2. ClosedByAbort'
    BY <1>1, CallEffect DEF ClosedByAbort
  <2>3. AbortedWorker'
    <3>1. CASE ProcessesKept
      BY <1>1, <3>1, CallEffect DEF ProcessesKept, AbortedWorker
    <3>2. CASE Spawned(c)
      BY <1>1, <3>2, CallEffect DEF Spawned, ClosedByAbort, AbortedWorker
    <3>3. CASE \E count \in BOOLEAN : Killed(c, count)
      BY <3>3 DEF Killed, AbortedWorker
    <3>4. CASE KillIgnored(c)
      BY <1>0, <3>4 DEF KillIgnored, AbortedWorker, TypeInv, TypeOK,
                        EngineTypes, WorkerTypes
    <3> QED
      BY <1>1, <3>1, <3>2, <3>3, <3>4, CallEffect
  <2> QED
    BY <1>0, <2>1, <2>2, <2>3
<1>2. ASSUME NEW w \in Workers, WorkerStep(w)
      PROVE  ProcessInv'
  <2>1. SingleWorker' /\ ProcBorn'
    BY <1>0, <1>2, WorkerEffect, ProcessEffect
  <2>2. ClosedByAbort'
    BY <1>2, WorkerEffect DEF ClosedByAbort
  <2>3. AbortedWorker'
    BY <1>2, WorkerEffect
       DEF AbortedWorker, ProcessesKept, WorkerMoved, SingleWorker, Alive,
           TypeInv, TypeOK, WorkerTypes, WorkerStates, EngineTypes
  <2> QED
    BY <1>0, <2>1, <2>2, <2>3
<1>3. ASSUME CallAbort \/ CallClose \/ AbortProgress \/ CloseProgress
      PROVE  ProcessInv'
  <2>1. SingleWorker' /\ ProcBorn'
    BY <1>0, <1>3, CloserEffect, ProcessEffect DEF Threads
  <2>2. ClosedByAbort'
    <3>1. CASE /\ closed' = closed
               /\ pc[Closer] \notin {"abortKill", "aborted"}
               /\ pc'[Closer] \notin {"abortKill", "aborted"}
      BY <3>1 DEF ClosedByAbort
    <3>2. CASE closed' = TRUE /\ pc'[Closer] = "abortKill"
      BY <3>2 DEF ClosedByAbort
    <3>3. CASE /\ closed' = closed
               /\ pc[Closer] = "abortKill" /\ pc'[Closer] = "aborted"
      BY <3>3 DEF ClosedByAbort
    <3>4. CASE /\ closed' = closed
               /\ pc[Closer] = "closeKill" /\ pc'[Closer] = "shut"
      BY <3>4 DEF ClosedByAbort
    <3> QED
      BY <1>3, <3>1, <3>2, <3>3, <3>4, CloserEffect
  <2>3. AbortedWorker'
    BY <1>0, <1>3, CloserEffect
       DEF AbortedWorker, Killed, KillIgnored, TypeInv, TypeOK, EngineTypes, WorkerTypes
  <2> QED
    BY <1>0, <2>1, <2>2, <2>3
<1>4. CASE UNCHANGED vars
  BY <1>0, <1>4 DEF vars, engineVars, workerVars, SingleWorker, Alive, ProcBorn,
                    ClosedByAbort, AbortedWorker
<1> QED
  BY <1>1, <1>2, <1>3, <1>4 DEF Next, EngineStep, Finished

LEMMA ProcessInvariant == Spec => []ProcessInv
<1>1. Init => ProcessInv
  BY InitType, EngineAssumption
     DEF Init, ProcessInv, SingleWorker, Alive, ProcBorn, ClosedByAbort,
         AbortedWorker, Threads
<1> QED
  BY <1>1, ProcessStep, PTL DEF Spec

\* No worker process ever lives beside _process, whatever is spawned, killed,
\* or survives its kill, in whichever order the threads run.
THEOREM OneWorker == Spec => []SingleWorker
<1>1. ProcessInv => SingleWorker
  BY DEF ProcessInv
<1> QED
  BY <1>1, ProcessInvariant, PTL

\* Once abort() has returned every surviving worker has its SIGKILL pending,
\* and it stays so although queued calls go on.
THEOREM AbortReleasesTheNPU == Spec => []NoWorkerAfterAbort
<1>1. ProcessInv => NoWorkerAfterAbort
  BY EngineAssumption
     DEF ProcessInv, NoWorkerAfterAbort, AbortedWorker, SingleWorker, Alive, Workers
<1> QED
  BY <1>1, ProcessInvariant, PTL

\* After abort() closed the engine nothing is spawned, no teardown of another
\* thread counts as a restart, and no probe is told "ready".
THEOREM AbortStays == Spec => AbortIsFinal
<1> DEFINE Final == closed => Born' = Born /\ restarts' = restarts /\ ~ReadyProbe'
<1>1. ProcessInv /\ ProcessInv' /\ [Next]_vars => [Final]_vars
  <2> SUFFICES ASSUME ProcessInv, [Next]_vars, closed
               PROVE  Born' = Born /\ restarts' = restarts /\ ~ReadyProbe'
    OBVIOUS
  <2> USE DEF ProcessInv
  <2>1. CASE UNCHANGED vars
    BY <2>1 DEF vars, engineVars, workerVars, Born, ReadyProbe
  <2>2. ASSUME NEW c \in Calls, CallProgress(c) \/ Consume(c) \/ Enter(c)
        PROVE  Born' = Born /\ restarts' = restarts /\ ~ReadyProbe'
    <3>1. closed'
      BY <2>2, CallEffect
    <3>2. Born' = Born
      BY <2>2, CallEffect, BornKept DEF Spawned, Threads
    <3>3. restarts' = restarts
      <4> USE DEF Goto, End, callVars, engineVars, workerVars
      <4>1. CASE Enter(c) \/ Consume(c)
        BY <4>1 DEF Enter, Consume, Resume, Abandon
      <4>2. CASE \/ AcquireLock(c) \/ AcquireLate(c) \/ QueueTimeout(c)
                 \/ StartClosed(c) \/ StartKeeps(c)
        BY <4>2 DEF AcquireLock, AcquireLate, QueueTimeout, StartClosed, StartKeeps
      <4>3. CASE StartSpawns(c) \/ SpawnFails(c)
        BY <4>3 DEF StartSpawns, SpawnFails, Replace
      <4>4. CASE \/ Send(c) \/ SendBroken(c) \/ SendNoPipe(c)
                 \/ ReadRef(c) \/ ReadRefClosed(c) \/ Terminate(c)
        BY <4>4 DEF Send, SendBroken, SendNoPipe, ReadRef, ReadRefClosed,
                    Terminate, BeginTeardown, ClosePipe
      <4>5. CASE \/ Receive(c) \/ SetReady(c) \/ PollTimeout(c) \/ PollBroken(c)
                 \/ ReleaseLock(c)
        BY <4>5 DEF Receive, SetReady, PollTimeout, PollBroken, ReleaseLock
      <4>6. CASE FinishTerminate(c) \/ TerminateRaises(c)
        BY <4>6 DEF FinishTerminate, TerminateRaises, Killed, KillIgnored
      <4> QED
        BY <2>2, <4>1, <4>2, <4>3, <4>4, <4>5, <4>6 DEF CallProgress
    <3> QED
      BY <3>1, <3>2, <3>3 DEF ReadyProbe
  <2>3. ASSUME NEW w \in Workers, WorkerStep(w)
        PROVE  Born' = Born /\ restarts' = restarts /\ ~ReadyProbe'
    <3>1. closed' /\ Born' = Born
      BY <2>3, WorkerEffect, BornKept
    <3>2. restarts' = restarts
      BY <2>3 DEF WorkerStep, WorkerBoot, WorkerTakes, WorkerChunk, WorkerDone,
                  WorkerError, WorkerHangsUp, WorkerCrash, WorkerSticks,
                  WorkerUnsticks, engineVars
    <3> QED
      BY <3>1, <3>2 DEF ReadyProbe
  <2>4. ASSUME CallAbort \/ CallClose \/ AbortProgress \/ CloseProgress
        PROVE  Born' = Born /\ restarts' = restarts /\ ~ReadyProbe'
    <3>1. closed' /\ Born' = Born
      BY <2>4, CloserEffect, BornKept DEF Threads
    <3>2. restarts' = restarts
      BY <2>4 DEF CallAbort, CallClose, AbortProgress, CloseProgress, Abort,
                  FinishAbort, CloseLocks, CloseSends, CloseTerminates,
                  FinishClose, BeginTeardown, ClosePipe, Killed, KillIgnored,
                  engineVars
    <3> QED
      BY <3>1, <3>2 DEF ReadyProbe
  <2> QED
    BY <2>1, <2>2, <2>3, <2>4 DEF Next, EngineStep, Finished
<1> QED
  BY <1>1, ProcessInvariant, PTL DEF Spec, AbortIsFinal

-----------------------------------------------------------------------------
(***************************************************************************)
(* The generation lock and the end of a call, as the server relies on them:*)
(* the holder is inside its call, and "done" is final.                     *)
(***************************************************************************)
HolderInside == \A c \in Calls : lock = c => pc[c] \notin {"idle", "lock", "end"}
DoneAtEnd == \A c \in Calls : fate[c] = "done" => pc[c] \in {"finish", "release", "end"}

CallInv == TypeInv /\ HolderInside /\ DoneAtEnd

\* A call in progress moves itself alone, and keeps a "done".
MovesAlone(c) ==
    /\ pc[c] \notin {"idle", "end"} /\ pc'[c] \notin {"idle", "lock"}
    /\ \A t \in Threads \ {c} : pc'[t] = pc[t]
    /\ \A d \in Calls \ {c} : fate'[d] = fate[d]
    /\ fate[c] = "done" => fate'[c] = "done"
    /\ fate'[c] = "done" => pc'[c] \in {"finish", "release", "end"}
    /\ lock' \in {lock, c, NoOne}
    /\ lock' = c => pc'[c] # "end"

LEMMA CallFrame ==
  ASSUME CallInv, NEW c \in Calls, CallProgress(c) \/ Consume(c)
  PROVE  MovesAlone(c)
<1> USE EngineAssumption
        DEF CallInv, TypeInv, TypeOK, ThreadTypes, CallTypes, Threads, Fates, Goto,
            End, callVars, HolderInside, DoneAtEnd, MovesAlone
<1>1. CASE Consume(c)
  BY <1>1 DEF Consume, Resume, Abandon
<1>2. CASE AcquireLock(c) \/ AcquireLate(c) \/ QueueTimeout(c)
  BY <1>2 DEF AcquireLock, AcquireLate, QueueTimeout
<1>3. CASE StartClosed(c) \/ StartKeeps(c) \/ StartSpawns(c) \/ SpawnFails(c)
  BY <1>3 DEF StartClosed, StartKeeps, StartSpawns, SpawnFails, Replace
<1>4. CASE Send(c) \/ SendBroken(c) \/ SendNoPipe(c) \/ Terminate(c)
  BY <1>4 DEF Send, SendBroken, SendNoPipe, Terminate, BeginTeardown
<1>5. CASE ReadRef(c) \/ ReadRefClosed(c) \/ PollTimeout(c) \/ PollBroken(c)
  BY <1>5 DEF ReadRef, ReadRefClosed, PollTimeout, PollBroken
<1>6. CASE Receive(c)
  BY <1>6 DEF Receive
<1>7. CASE SetReady(c) \/ ReleaseLock(c)
  BY <1>7 DEF SetReady, ReleaseLock
<1>8. CASE FinishTerminate(c)
  BY <1>8 DEF FinishTerminate
<1>9. CASE TerminateRaises(c)
  <2>1. PICK label \in {"term", "release"} : pc' = [pc EXCEPT ![c] = label]
    BY <1>9 DEF TerminateRaises
  <2>2. lock' = lock /\ pc[c] = "kill" /\ fate[c] # "done"
    BY <1>9 DEF TerminateRaises
  <2>3. fate' = fate \/ fate' = [fate EXCEPT ![c] = "error"]
    BY <1>9 DEF TerminateRaises
  <2> QED
    BY <2>1, <2>2, <2>3
<1> QED
  BY <1>1, <1>2, <1>3, <1>4, <1>5, <1>6, <1>7, <1>8, <1>9 DEF CallProgress

LEMMA EnterFrame ==
  ASSUME TypeInv, NEW c \in Calls, Enter(c)
  PROVE  /\ pc[c] = "idle" /\ pc' = [pc EXCEPT ![c] = "lock"]
         /\ UNCHANGED <<lock, fate, proc, wstate>>
BY DEF Enter, Goto, callVars, engineVars, workerVars

LEMMA WorkerFrame ==
  ASSUME NEW w \in Workers, WorkerStep(w)
  PROVE  UNCHANGED <<pc, lock, fate>>
<1> USE DEF callVars, Reply
<1>1. CASE WorkerBoot(w) \/ WorkerTakes(w) \/ WorkerChunk(w)
  BY <1>1 DEF WorkerBoot, WorkerTakes, WorkerChunk
<1>2. CASE WorkerDone(w) \/ WorkerError(w)
  BY <1>2 DEF WorkerDone, WorkerError
<1>3. CASE \/ WorkerHangsUp(w) \/ WorkerCrash(w)
           \/ WorkerSticks(w) \/ WorkerUnsticks(w)
  BY <1>3 DEF WorkerHangsUp, WorkerCrash, WorkerSticks, WorkerUnsticks
<1> QED
  BY <1>1, <1>2, <1>3 DEF WorkerStep

\* The places of the closing thread, in the order close() and abort() visit them.
CloserMoves ==
    \/ pc[Closer] = "abort" /\ pc'[Closer] = "abortKill"
    \/ pc[Closer] = "abortKill" /\ pc'[Closer] = "aborted"
    \/ pc[Closer] = "closeLock" /\ pc'[Closer] = "closeSend" /\ ProcessesKept
    \/ /\ pc[Closer] = "closeLock" /\ pc'[Closer] = "shut"
       /\ ProcessesKept /\ proc = NoOne
    \/ pc[Closer] = "closeSend" /\ pc'[Closer] = "closeTerm" /\ ProcessesKept
    \/ pc[Closer] = "closeTerm" /\ pc'[Closer] = "closeKill" /\ ProcessesKept
    \/ /\ pc[Closer] = "closeKill" /\ pc'[Closer] = "shut"
       /\ Killed(Closer, FALSE) \/ KillIgnored(Closer)

LEMMA CloserFrame ==
  ASSUME TypeInv, AbortProgress \/ CloseProgress
  PROVE  /\ CloserMoves /\ fate' = fate
         /\ \A c \in Calls : pc'[c] = pc[c]
         /\ lock' \in {lock, Closer, NoOne}
<1> USE EngineAssumption
        DEF TypeInv, TypeOK, ThreadTypes, Threads, Goto, callVars, engineVars,
            workerVars, BeginTeardown, ClosePipe, ProcessesKept, CloserMoves
<1>1. CASE Abort \/ FinishAbort
  BY <1>1 DEF Abort, FinishAbort
<1>2. CASE CloseLocks
  BY <1>2 DEF CloseLocks
<1>3. CASE CloseSends \/ CloseTerminates \/ FinishClose
  BY <1>3 DEF CloseSends, CloseTerminates, FinishClose
<1> QED
  BY <1>1, <1>2, <1>3 DEF AbortProgress, CloseProgress

LEMMA CloserCalled ==
  ASSUME TypeInv, CallAbort \/ CallClose
  PROVE  /\ pc[Closer] = "open"
         /\ \/ CallAbort /\ pc' = [pc EXCEPT ![Closer] = "abort"]
            \/ CallClose /\ pc' = [pc EXCEPT ![Closer] = "closeLock"]
         /\ UNCHANGED <<lock, fate, proc, wstate>>
BY DEF CallAbort, CallClose, Goto, callVars, engineVars, workerVars

LEMMA CallStepKeeps == CallInv /\ [Next]_vars => CallInv'
<1> SUFFICES ASSUME CallInv, [Next]_vars PROVE HolderInside' /\ DoneAtEnd'
  BY TypeStep DEF CallInv
<1> USE EngineAssumption DEF HolderInside, DoneAtEnd
<1>1. ASSUME NEW c \in Calls, CallProgress(c) \/ Consume(c)
      PROVE  HolderInside' /\ DoneAtEnd'
  BY <1>1, CallFrame DEF CallInv, MovesAlone, Threads
<1>2. ASSUME NEW c \in Calls, Enter(c)
      PROVE  HolderInside' /\ DoneAtEnd'
  BY <1>2, EnterFrame DEF CallInv, TypeInv, TypeOK, ThreadTypes, Threads
<1>3. ASSUME NEW w \in Workers, WorkerStep(w)
      PROVE  HolderInside' /\ DoneAtEnd'
  BY <1>3, WorkerFrame DEF CallInv
<1>4. CASE AbortProgress \/ CloseProgress
  BY <1>4, CloserFrame DEF CallInv
<1>5. CASE CallAbort \/ CallClose
  BY <1>5, CloserCalled DEF CallInv, TypeInv, TypeOK, ThreadTypes, Threads
<1>6. CASE UNCHANGED vars
  BY <1>6 DEF vars, callVars, CallInv
<1> QED
  BY <1>1, <1>2, <1>3, <1>4, <1>5, <1>6 DEF Next, EngineStep, Finished

LEMMA CallInvariant == Spec => []CallInv
<1>1. Init => CallInv
  BY InitType, EngineAssumption
     DEF Init, CallInv, HolderInside, DoneAtEnd, Threads
<1> QED
  BY <1>1, CallStepKeeps, PTL DEF Spec

-----------------------------------------------------------------------------
(***************************************************************************)
(* Control.  The generation lock keeps every other call outside while one  *)
(* is served, the lifecycle lock keeps the pipe closed between the halves  *)
(* of a teardown, and a call that has a worker keeps it.                   *)
(***************************************************************************)
InsideLabels == CallLabels \ {"idle", "lock", "end"}
Teardown == {"kill", "abortKill", "closeKill"}
LocksHeld ==
    /\ \A c \in Calls : pc[c] \in InsideLabels => lock = c
    /\ pc[Closer] \in {"closeSend", "closeTerm", "closeKill"} => lock = Closer
LifeHeld ==
    /\ \A c \in Calls : pc[c] \in {"send", "kill"} => life = c
    /\ pc[Closer] \in {"abortKill", "closeKill"} => life = Closer
    /\ \A t \in Threads : pc[t] \in Teardown => conn = NoOne
ConnIsProc == conn # NoOne => conn = proc

\* How a call stands when it is at each of its places.
FateByPlace ==
    \A c \in Calls :
        /\ pc[c] \in {"idle", "lock", "start", "send", "recv", "poll", "yielded"}
              => fate[c] = "none"
        /\ pc[c] = "finish" => fate[c] = "done"
        /\ pc[c] \in {"term", "kill"} => fate[c] \in {"timeout", "error", "cancelled"}
        /\ pc[c] = "release" => fate[c] # "none"

\* Only abort() takes the process away from a call that uses it.
UsesProcess ==
    \A c \in Calls :
        pc[c] \in {"send", "recv", "poll", "yielded", "term", "kill"} =>
            proc # NoOne \/ pc[Closer] = "aborted"
SpawnsOnce == \A c \in Calls : pc[c] \in {"idle", "lock", "start"} => wstate[c] = "unborn"

ControlInv ==
    /\ ProcessInv
    /\ LocksHeld /\ LifeHeld /\ ConnIsProc
    /\ FateByPlace /\ UsesProcess /\ SpawnsOnce

\* What the invariant says beside ProcessInv, after a step.
ControlKept ==
    LocksHeld' /\ LifeHeld' /\ ConnIsProc' /\ FateByPlace' /\ UsesProcess' /\ SpawnsOnce'

LEMMA InitControl == Init => ControlInv
<1>1. Init => ProcessInv
  BY InitType, EngineAssumption
     DEF Init, ProcessInv, SingleWorker, Alive, ProcBorn, ClosedByAbort,
         AbortedWorker, Threads
<1> QED
  BY <1>1, EngineAssumption
     DEF Init, ControlInv, LocksHeld, LifeHeld, ConnIsProc, FateByPlace,
         UsesProcess, SpawnsOnce, InsideLabels, Teardown, Threads, Workers

\* A call moves itself alone, from one place to another.
Moves(c, from, to) ==
    /\ pc[c] \in from /\ pc'[c] \in to
    /\ \A t \in Threads \ {c} : pc'[t] = pc[t]
Outcome(c, whys) ==
    \E why \in whys : fate' = [fate EXCEPT ![c] = why]
OthersKeptUnborn(c) == \A d \in Calls \ {c} : wstate[d] = "unborn" => wstate'[d] = "unborn"

\* What the steps of a call do to the locks, the outcome and the process.
CallMove(c) ==
    \/ /\ Moves(c, {"idle"}, {"lock"})
       /\ UNCHANGED <<lock, life, conn, proc, fate, wstate>>
    \/ /\ Moves(c, {"yielded"}, {"recv"})
       /\ UNCHANGED <<lock, life, conn, proc, fate, wstate>>
    \/ /\ Moves(c, {"yielded", "poll"}, {"term"}) /\ Outcome(c, {"timeout", "error", "cancelled"})
       /\ UNCHANGED <<lock, life, conn, proc, wstate>>
    \/ /\ Moves(c, {"lock"}, {"start"})
       /\ lock = NoOne /\ lock' = c
       /\ UNCHANGED <<life, conn, proc, fate, wstate>>
    \/ /\ Moves(c, {"lock"}, {"release"}) /\ Outcome(c, {"timeout"})
       /\ lock = NoOne /\ lock' = c
       /\ UNCHANGED <<life, conn, proc, wstate>>
    \/ /\ Moves(c, {"lock"}, {"end"}) /\ Outcome(c, {"timeout"})
       /\ UNCHANGED <<lock, life, conn, proc, wstate>>
    \/ /\ Moves(c, {"start", "recv"}, {"release"}) /\ Outcome(c, {"error"})
       /\ UNCHANGED <<lock, life, conn, proc, wstate>>
    \/ /\ Moves(c, {"start"}, {"send"})
       /\ life = NoOne /\ life' = c
       /\ UNCHANGED <<lock, fate>> /\ OthersKeptUnborn(c)
       /\ \/ UNCHANGED <<conn, proc>> /\ proc # NoOne
          \/ conn' = c /\ proc' = c
    \/ /\ Moves(c, {"start"}, {"release"}) /\ Outcome(c, {"error"})
       /\ life = NoOne /\ conn' = NoOne /\ proc' = c
       /\ UNCHANGED <<lock, life>> /\ OthersKeptUnborn(c)
    \/ /\ Moves(c, {"send"}, {"recv"})
       /\ life' = NoOne
       /\ UNCHANGED <<lock, conn, proc, fate, wstate>>
    \/ /\ Moves(c, {"send"}, {"release"}) /\ Outcome(c, {"error"})
       /\ life' = NoOne
       /\ UNCHANGED <<lock, conn, proc, wstate>>
    \/ /\ Moves(c, {"send"}, {"kill"}) /\ Outcome(c, {"error"})
       /\ conn' = NoOne
       /\ UNCHANGED <<lock, life, proc, wstate>>
    \/ /\ Moves(c, {"recv"}, {"poll"})
       /\ UNCHANGED <<lock, life, conn, proc, fate, wstate>>
    \/ /\ Moves(c, {"poll"}, {"finish"}) /\ Outcome(c, {"done"})
       /\ UNCHANGED <<lock, life, conn, proc, wstate>>
    \/ /\ Moves(c, {"poll"}, {"yielded"})
       /\ UNCHANGED <<lock, life, conn, proc, fate, wstate>>
    \/ /\ Moves(c, {"finish"}, {"release"})
       /\ UNCHANGED <<lock, life, conn, proc, fate, wstate>>
    \/ /\ Moves(c, {"term"}, {"kill"})
       /\ life = NoOne /\ life' = c /\ conn' = NoOne
       /\ UNCHANGED <<lock, proc, fate, wstate>>
    \/ /\ Moves(c, {"kill"}, {"release"})
       /\ life = c /\ life' = NoOne /\ proc' \in {proc, NoOne}
       /\ UNCHANGED <<lock, conn, fate>> /\ OthersKeptUnborn(NoOne)
    \/ /\ Moves(c, {"kill"}, {"term"}) /\ Outcome(c, {"error"})
       /\ life = c /\ life' = NoOne
       /\ UNCHANGED <<lock, conn, proc>> /\ OthersKeptUnborn(NoOne)
    \/ /\ Moves(c, {"release"}, {"end"})
       /\ lock' = NoOne
       /\ UNCHANGED <<life, conn, proc, fate, wstate>>

LEMMA CallMoves ==
  ASSUME ControlInv, NEW c \in Calls, CallProgress(c) \/ Consume(c) \/ Enter(c)
  PROVE  CallMove(c)
<1>0. /\ pc \in [Threads -> CallLabels \cup CloserLabels] /\ fate \in [Calls -> Fates]
      /\ wstate \in [Workers -> WorkerStates] /\ c \in Threads /\ c # NoOne
      /\ proc # NoOne => wstate[proc] # "unborn"
  BY EngineAssumption
  DEF ControlInv, ProcessInv, TypeInv, TypeOK, ThreadTypes, CallTypes, WorkerTypes,
      Threads, ProcBorn
<1> USE <1>0
        DEF Goto, End, callVars, engineVars, workerVars, Moves, Outcome,
            OthersKeptUnborn, CallMove, Workers, Fates
<1>1. CASE Enter(c) \/ Consume(c)
  BY <1>1 DEF Enter, Consume, Resume, Abandon
<1>2. CASE AcquireLock(c) \/ AcquireLate(c) \/ QueueTimeout(c)
  BY <1>2 DEF AcquireLock, AcquireLate, QueueTimeout
<1>3. CASE StartClosed(c) \/ StartKeeps(c)
  BY <1>3 DEF StartClosed, StartKeeps
<1>4. CASE StartSpawns(c) \/ SpawnFails(c)
  BY <1>4 DEF StartSpawns, SpawnFails, Replace
<1>6. CASE Send(c) \/ SendNoPipe(c)
  BY <1>6 DEF Send, SendNoPipe
<1>7. CASE SendBroken(c) \/ Terminate(c)
  BY <1>7 DEF SendBroken, Terminate, BeginTeardown, ClosePipe
<1>8. CASE ReadRef(c) \/ ReadRefClosed(c) \/ PollTimeout(c) \/ PollBroken(c)
  BY <1>8 DEF ReadRef, ReadRefClosed, PollTimeout, PollBroken
<1>9. CASE Receive(c)
  BY <1>9 DEF Receive
<1>10. CASE SetReady(c) \/ ReleaseLock(c)
  BY <1>10 DEF SetReady, ReleaseLock
<1>11. CASE FinishTerminate(c)
  BY <1>11 DEF FinishTerminate, Killed
<1>12. CASE TerminateRaises(c)
  BY <1>12 DEF TerminateRaises, KillIgnored
<1> HIDE DEF CallMove
<1> QED
  BY <1>1, <1>2, <1>3, <1>4, <1>6, <1>7, <1>8, <1>9, <1>10, <1>11, <1>12
     DEF CallProgress

LEMMA CallControl ==
  ASSUME ControlInv, NEW c \in Calls, CallProgress(c) \/ Consume(c) \/ Enter(c)
  PROVE  ControlKept
<1> CallMove(c)
  BY CallMoves
<1> USE EngineAssumption DEF CallMove, Moves, Outcome, OthersKeptUnborn, Threads
<1>1. LocksHeld'
  BY DEF ControlInv, LocksHeld, InsideLabels, CallLabels
<1>2. LifeHeld'
  BY DEF ControlInv, ProcessInv, TypeInv, TypeOK, ThreadTypes, CallLabels,
         CloserLabels, LifeHeld, Teardown
<1>3. ConnIsProc'
  BY DEF ControlInv, ConnIsProc, LifeHeld, Teardown
<1>4. FateByPlace'
  BY ZenonT(40) DEF ControlInv, ProcessInv, TypeInv, TypeOK, CallTypes, FateByPlace
<1>5. UsesProcess'
  BY DEF ControlInv, UsesProcess, LocksHeld, InsideLabels, CallLabels
<1>6. SpawnsOnce'
  BY DEF ControlInv, SpawnsOnce
<1> QED
  BY <1>1, <1>2, <1>3, <1>4, <1>5, <1>6 DEF ControlKept

LEMMA WorkerControl ==
  ASSUME ControlInv, NEW w \in Workers, WorkerStep(w)
  PROVE  ControlKept
<1>1. /\ UNCHANGED <<pc, lock, life, callVars, proc, conn>>
      /\ \A v \in Workers : wstate[v] = "unborn" => wstate'[v] = "unborn"
  <2> USE DEF engineVars, ControlInv, ProcessInv, TypeInv, TypeOK, WorkerTypes,
              WorkerStates, Become, Reply, Alive
  <2>1. CASE WorkerBoot(w) \/ WorkerTakes(w) \/ WorkerChunk(w)
    BY <2>1 DEF WorkerBoot, WorkerTakes, WorkerChunk
  <2>2. CASE WorkerDone(w) \/ WorkerError(w)
    BY <2>2 DEF WorkerDone, WorkerError
  <2>3. CASE \/ WorkerHangsUp(w) \/ WorkerCrash(w)
             \/ WorkerSticks(w) \/ WorkerUnsticks(w)
    BY <2>3 DEF WorkerHangsUp, WorkerCrash, WorkerSticks, WorkerUnsticks
  <2> QED
    BY <2>1, <2>2, <2>3 DEF WorkerStep
<1> QED
  BY <1>1 DEF callVars, ControlKept, ControlInv, LocksHeld, LifeHeld, ConnIsProc,
              FateByPlace, UsesProcess, SpawnsOnce, Workers

LEMMA CloserControl ==
  ASSUME ControlInv, CallAbort \/ CallClose \/ AbortProgress \/ CloseProgress
  PROVE  ControlKept
<1> USE EngineAssumption
        DEF ControlKept, ControlInv, ProcessInv, TypeInv, TypeOK, ThreadTypes,
            Threads, CallLabels, CloserLabels, Goto, callVars, engineVars,
            workerVars, BeginTeardown, ClosePipe, LocksHeld, LifeHeld, ConnIsProc,
            FateByPlace, UsesProcess, SpawnsOnce, InsideLabels, Teardown
<1>1. CASE CallAbort \/ CallClose \/ Abort
  BY <1>1 DEF CallAbort, CallClose, Abort
<1>2. CASE FinishAbort
  BY <1>2 DEF FinishAbort, Killed, KillIgnored, WorkerTypes, EngineTypes, Workers, ProcBorn
<1>3. CASE CloseLocks \/ CloseSends \/ CloseTerminates
  BY <1>3 DEF CloseLocks, CloseSends, CloseTerminates
<1>4. CASE FinishClose
  <2>1. /\ \A c \in Calls : pc[c] \notin InsideLabels
        /\ \A c \in Calls : wstate[c] = "unborn" => wstate'[c] = "unborn"
    BY <1>4 DEF FinishClose, Killed, KillIgnored, WorkerTypes, EngineTypes, Workers, ProcBorn
  <2> QED
    BY <1>4, <2>1 DEF FinishClose, Killed, KillIgnored
<1> QED
  BY <1>1, <1>2, <1>3, <1>4 DEF AbortProgress, CloseProgress

LEMMA ControlStep == ControlInv /\ [Next]_vars => ControlInv'
<1> SUFFICES ASSUME ControlInv, [Next]_vars PROVE ControlKept
  BY ProcessStep DEF ControlInv, ControlKept
<1>1. CASE UNCHANGED vars
  BY <1>1 DEF vars, callVars, engineVars, workerVars, ControlKept, ControlInv,
              LocksHeld, LifeHeld, ConnIsProc, FateByPlace, UsesProcess, SpawnsOnce
<1> QED
  BY <1>1, CallControl, WorkerControl, CloserControl DEF Next, EngineStep, Finished

LEMMA ControlInvariant == Spec => []ControlInv
BY InitControl, ControlStep, PTL DEF Spec

-----------------------------------------------------------------------------
(***************************************************************************)
(* The restarts metric.  A call creates one worker, and whoever takes a    *)
(* worker from _process before the engine is shut counts it.               *)
(***************************************************************************)
ShutDown == {"abortKill", "aborted", "shut"}
RestartInv == IsFiniteSet(Born) /\ RestartAccounting

\* How a call changes the workers created, _process and the count together.
Counted(c) ==
    \/ /\ Born' = Born /\ restarts' = restarts
       /\ proc' = NoOne <=> proc = NoOne
    \/ /\ c \notin Born /\ Born' = Born \cup {c} /\ proc' = c
       /\ restarts' = IF proc # NoOne THEN restarts + 1 ELSE restarts
    \/ /\ pc[Closer] \notin ShutDown => proc # NoOne
       /\ Born' = Born /\ proc' = NoOne
       /\ restarts' = IF closed THEN restarts ELSE restarts + 1

LEMMA CallCounts ==
  ASSUME ControlInv, NEW c \in Calls, CallProgress(c) \/ Consume(c) \/ Enter(c)
  PROVE  Counted(c)
<1> USE DEF Goto, End, callVars, engineVars, workerVars
<1>0. TypeInv /\ ProcBorn
  BY DEF ControlInv, ProcessInv
<1>1. ASSUME UNCHANGED <<restarts, proc, wstate>> PROVE Counted(c)
  BY <1>1 DEF Counted, Born
<1>2. CASE Enter(c) \/ Consume(c)
  BY <1>1, <1>2 DEF Enter, Consume, Resume, Abandon
<1>3. CASE \/ AcquireLock(c) \/ AcquireLate(c) \/ QueueTimeout(c)
           \/ StartClosed(c) \/ StartKeeps(c)
  BY <1>1, <1>3 DEF AcquireLock, AcquireLate, QueueTimeout, StartClosed, StartKeeps
<1>4. CASE StartSpawns(c) \/ SpawnFails(c)
  <2>1. c \in Workers /\ wstate[c] = "unborn"
    BY <1>4 DEF StartSpawns, SpawnFails, Replace, ControlInv, SpawnsOnce, Workers
  <2>2. \E state \in {"boot", "dead"} : wstate' = [wstate EXCEPT ![c] = state]
    BY <1>4 DEF StartSpawns, SpawnFails
  <2>3. c \notin Born /\ Born' = Born \cup {c}
    BY <1>0, <2>1, <2>2 DEF Born, TypeInv, TypeOK, WorkerTypes
  <2>4. proc' = c /\ restarts' = IF proc # NoOne THEN restarts + 1 ELSE restarts
    BY <1>4 DEF StartSpawns, SpawnFails, Replace
  <2> QED
    BY <2>3, <2>4 DEF Counted
<1>5. CASE \/ Send(c) \/ SendBroken(c) \/ SendNoPipe(c)
           \/ ReadRef(c) \/ ReadRefClosed(c) \/ Terminate(c)
  BY <1>1, <1>5 DEF Send, SendBroken, SendNoPipe, ReadRef, ReadRefClosed,
                    Terminate, BeginTeardown, ClosePipe
<1>6. CASE \/ Receive(c) \/ SetReady(c) \/ PollTimeout(c) \/ PollBroken(c)
           \/ ReleaseLock(c)
  BY <1>1, <1>6 DEF Receive, SetReady, PollTimeout, PollBroken, ReleaseLock
<1>7. CASE FinishTerminate(c)
  <2>1. Killed(c, ~closed) /\ pc[c] = "kill"
    BY <1>7 DEF FinishTerminate
  <2>2. Born' = Born
    BY <1>0, <2>1, BornKept DEF Threads, TypeInv, TypeOK, EngineTypes
  <2>3. pc[Closer] \notin ShutDown => proc # NoOne
    BY <2>1 DEF ControlInv, UsesProcess, ShutDown
  <2> QED
    BY <2>1, <2>2, <2>3 DEF Killed, Counted
<1>8. CASE TerminateRaises(c)
  <2>1. KillIgnored(c)
    BY <1>8 DEF TerminateRaises
  <2>2. Born' = Born
    BY <1>0, <2>1, BornKept DEF Threads
  <2> QED
    BY <2>1, <2>2 DEF KillIgnored, Counted
<1> QED
  BY <1>2, <1>3, <1>4, <1>5, <1>6, <1>7, <1>8 DEF CallProgress

LEMMA CallRestarts ==
  ASSUME ControlInv, RestartInv, NEW c \in Calls,
         CallProgress(c) \/ Consume(c) \/ Enter(c)
  PROVE  RestartInv'
<1>1. Counted(c) /\ pc'[Closer] = pc[Closer] /\ closed' = closed
  BY CallCounts, CallEffect DEF ControlInv, ProcessInv
<1>2. /\ restarts \in Nat /\ c # NoOne
      /\ closed => pc[Closer] \in ShutDown
  BY EngineAssumption DEF ControlInv, ProcessInv, ClosedByAbort, TypeInv, TypeOK,
                          EngineTypes, ShutDown
<1>3. IsFiniteSet(Born) /\ Cardinality(Born) \in Nat
  BY FS_CardinalityType DEF RestartInv
<1>4. CASE /\ Born' = Born /\ restarts' = restarts
           /\ proc' = NoOne <=> proc = NoOne
  BY <1>1, <1>4 DEF RestartInv, RestartAccounting
<1>5. CASE /\ c \notin Born /\ Born' = Born \cup {c} /\ proc' = c
           /\ restarts' = IF proc # NoOne THEN restarts + 1 ELSE restarts
  <2>1. IsFiniteSet(Born') /\ Cardinality(Born') = Cardinality(Born) + 1
    BY <1>3, <1>5, FS_AddElement
  <2> QED
    BY <1>1, <1>2, <1>3, <1>5, <2>1 DEF RestartInv, RestartAccounting
<1>6. CASE /\ pc[Closer] \notin ShutDown => proc # NoOne
           /\ Born' = Born /\ proc' = NoOne
           /\ restarts' = IF closed THEN restarts ELSE restarts + 1
  BY <1>1, <1>2, <1>3, <1>6 DEF RestartInv, RestartAccounting, ShutDown
<1> QED
  BY <1>1, <1>4, <1>5, <1>6 DEF Counted

LEMMA RestartStep == ControlInv /\ RestartInv /\ [Next]_vars => RestartInv'
<1> SUFFICES ASSUME ControlInv, RestartInv, [Next]_vars PROVE RestartInv'
  OBVIOUS
<1> USE DEF ControlInv, ProcessInv
<1>1. ASSUME NEW w \in Workers, WorkerStep(w) PROVE RestartInv'
  <2>1. Born' = Born /\ pc' = pc /\ proc' = proc
    BY <1>1, WorkerEffect, BornKept DEF ProcessesKept, WorkerMoved
  <2>2. restarts' = restarts
    BY <1>1 DEF WorkerStep, WorkerBoot, WorkerTakes, WorkerChunk, WorkerDone,
                WorkerError, WorkerHangsUp, WorkerCrash, WorkerSticks,
                WorkerUnsticks, engineVars
  <2> QED
    BY <2>1, <2>2 DEF RestartInv, RestartAccounting
<1>2. ASSUME CallAbort \/ CallClose \/ AbortProgress \/ CloseProgress
      PROVE  RestartInv'
  <2>1. Born' = Born
    BY <1>2, CloserEffect, BornKept DEF Threads
  <2>2. restarts' = restarts
    BY <1>2 DEF CallAbort, CallClose, AbortProgress, CloseProgress, Abort,
                FinishAbort, CloseLocks, CloseSends, CloseTerminates,
                FinishClose, BeginTeardown, ClosePipe, Killed, KillIgnored,
                engineVars
  <2>3. \/ pc'[Closer] \in ShutDown
        \/ pc[Closer] \notin ShutDown /\ proc' = proc
    <3>1. CASE CallAbort \/ CallClose
      BY <3>1, CloserCalled DEF ShutDown
    <3>2. CASE AbortProgress \/ CloseProgress
      BY <3>2, CloserFrame DEF CloserMoves, ProcessesKept, ShutDown
    <3> QED
      BY <1>2, <3>1, <3>2
  <2> QED
    BY <2>1, <2>2, <2>3 DEF RestartInv, RestartAccounting, ShutDown
<1>3. CASE UNCHANGED vars
  BY <1>3 DEF vars, engineVars, workerVars, RestartInv, RestartAccounting, Born
<1> QED
  BY <1>1, <1>2, <1>3, CallRestarts DEF Next, EngineStep, Finished

\* Until the engine is shut, worker_restarts is the number of workers that
\* were replaced or disposed of: failed kills, failed spawns, second disposals
\* and threads that meet a worker already gone count none twice and miss none.
THEOREM RestartsAreCounted == Spec => []RestartAccounting
<1>1. Init => RestartInv
  <2> SUFFICES ASSUME Init PROVE RestartInv
    OBVIOUS
  <2>1. Born = {}
    BY DEF Init, Born
  <2> QED
    BY <2>1, FS_EmptySet DEF Init, RestartInv, RestartAccounting
<1>2. RestartInv => RestartAccounting
  BY DEF RestartInv
<1> QED
  BY <1>1, <1>2, ControlInvariant, RestartStep, PTL DEF Spec
-----------------------------------------------------------------------------
(***************************************************************************)
(* Readiness.  _ready is set without the lifecycle lock, after the reply   *)
(* was received: what the probe is told then rests on the generation lock, *)
(* which keeps everyone but abort() away from the process.                 *)
(***************************************************************************)
DoneMeansWarm ==
    \A w \in Workers : \A i \in 1..Len(outbox[w]) :
        outbox[w][i].kind = "done" => w \in warm
FinishWarm == \A c \in Calls : pc[c] = "finish" => closed \/ proc \in warm
ReadyWarm == ready => closed \/ proc = NoOne \/ proc \in warm
WarmInv == DoneMeansWarm /\ FinishWarm /\ ReadyWarm

\* Nothing is put in a pipe; what is there may be taken or dropped.
NothingSent ==
    \A w \in Workers : \A i \in 1..Len(outbox'[w]) :
        \E j \in 1..Len(outbox[w]) : outbox'[w][i] = outbox[w][j]

LEMMA EmptiedBoxes ==
  ASSUME TypeInv, outbox' = [w \in Workers |-> IF w = conn THEN <<>> ELSE outbox[w]]
  PROVE  NothingSent
BY DEF NothingSent

LEMMA TailParts ==
  ASSUME NEW S, NEW s \in Seq(S), s # <<>>
  PROVE  /\ Len(s) \in Nat /\ Len(Tail(s)) \in Nat /\ Len(Tail(s)) = Len(s) - 1
         /\ Tail(s) = <<>> <=> Len(s) = 1
         /\ \A i \in 1..Len(Tail(s)) : i + 1 \in 1..Len(s) /\ Tail(s)[i] = s[i + 1]
<1>1. Len(s) \in Nat /\ Len(Tail(s)) \in Nat /\ Len(Tail(s)) = Len(s) - 1
  OBVIOUS
<1>2. \A i \in 1..Len(Tail(s)) : i + 1 \in 1..Len(s) /\ Tail(s)[i] = s[i + 1]
  OBVIOUS
<1>3. Tail(s) \in Seq(S)
  OBVIOUS
<1>4. Tail(s) = <<>> <=> Len(Tail(s)) = 0
  <2> DEFINE t == Tail(s)
  <2> HIDE DEF t
  <2>1. t \in Seq(S)
    BY <1>3 DEF t
  <2>2. t = <<>> <=> Len(t) = 0
    BY <2>1, EmptySeq
  <2> QED
    BY <2>2 DEF t
<1> QED
  BY <1>1, <1>2, <1>4

LEMMA TakenFromBox ==
  ASSUME TypeInv, NEW v \in Workers, outbox[v] # <<>>,
         outbox' = [outbox EXCEPT ![v] = Tail(@)]
  PROVE  NothingSent
<1> SUFFICES ASSUME NEW w \in Workers, NEW i \in 1..Len(outbox'[w])
             PROVE  \E j \in 1..Len(outbox[w]) : outbox'[w][i] = outbox[w][j]
  BY DEF NothingSent
<1>1. outbox \in [Workers -> Seq(Message)]
  BY DEF TypeInv, TypeOK, WorkerTypes
<1>2. CASE w = v
  <2>1. outbox'[w] = Tail(outbox[w]) /\ outbox[w] \in Seq(Message) /\ outbox[w] # <<>>
    BY <1>1, <1>2
  <2> QED
    BY <2>1, TailParts
<1>3. CASE w # v
  BY <1>1, <1>3
<1> QED
  BY <1>2, <1>3

\* How a call changes _ready and _process, and when it is told "done".
Probed(c) ==
    \/ UNCHANGED <<ready, proc>> /\ pc'[c] # "finish"
    \/ /\ UNCHANGED <<ready, proc>>
       /\ conn \in Workers /\ outbox[conn] # <<>> /\ Head(outbox[conn]).kind = "done"
    \/ pc[c] = "finish" /\ ready' = TRUE /\ proc' = proc /\ pc'[c] # "finish"
    \/ /\ pc'[c] # "finish"
       /\ proc' = proc \/ pc[c] \in InsideLabels
       /\ ready' = FALSE \/ proc' = NoOne

LEMMA CallProbed ==
  ASSUME ControlInv, NEW c \in Calls, CallProgress(c) \/ Consume(c) \/ Enter(c)
  PROVE  NothingSent /\ warm' = warm /\ Probed(c)
<1>0. /\ TypeInv /\ pc \in [Threads -> CallLabels \cup CloserLabels] /\ c \in Threads
      /\ outbox' = outbox => NothingSent
  BY DEF ControlInv, ProcessInv, TypeInv, TypeOK, ThreadTypes, Threads, NothingSent
<1> USE <1>0 DEF Goto, End, engineVars, workerVars, Probed, InsideLabels, CallLabels
<1>1. CASE Enter(c) \/ Consume(c)
  BY <1>1 DEF Enter, Consume, Resume, Abandon
<1>2. CASE AcquireLock(c) \/ AcquireLate(c) \/ QueueTimeout(c)
  BY <1>2 DEF AcquireLock, AcquireLate, QueueTimeout
<1>3. CASE StartClosed(c) \/ StartKeeps(c)
  BY <1>3 DEF StartClosed, StartKeeps
<1>4. CASE StartSpawns(c) \/ SpawnFails(c)
  BY <1>4, EmptiedBoxes DEF StartSpawns, SpawnFails, Replace
<1>5. CASE Send(c) \/ SendNoPipe(c)
  BY <1>5 DEF Send, SendNoPipe
<1>6. CASE SendBroken(c) \/ Terminate(c)
  BY <1>6, EmptiedBoxes DEF SendBroken, Terminate, BeginTeardown, ClosePipe
<1>7. CASE ReadRef(c) \/ ReadRefClosed(c) \/ PollTimeout(c) \/ PollBroken(c)
  BY <1>7 DEF ReadRef, ReadRefClosed, PollTimeout, PollBroken
<1>8. CASE Receive(c)
  <2>1. conn \in Workers /\ outbox[conn] # <<>>
    BY <1>8 DEF Receive, TypeInv, HasRef
  <2>2. NothingSent /\ warm' = warm /\ UNCHANGED <<ready, proc>>
    BY <1>8, <2>1, TakenFromBox DEF Receive
  <2>3. pc'[c] # "finish" \/ Head(outbox[conn]).kind = "done"
    BY <1>8 DEF Receive
  <2> QED
    BY <2>1, <2>2, <2>3
<1>9. CASE SetReady(c) \/ ReleaseLock(c)
  BY <1>9 DEF SetReady, ReleaseLock
<1>10. CASE FinishTerminate(c)
  BY <1>10 DEF FinishTerminate, Killed
<1>11. CASE TerminateRaises(c)
  BY <1>11 DEF TerminateRaises, KillIgnored
<1> HIDE DEF Probed
<1> QED
  BY <1>1, <1>2, <1>3, <1>4, <1>5, <1>6, <1>7, <1>8, <1>9, <1>10, <1>11
     DEF CallProgress

LEMMA CallWarm ==
  ASSUME ControlInv, WarmInv, NEW c \in Calls,
         CallProgress(c) \/ Consume(c) \/ Enter(c)
  PROVE  WarmInv'
<1>1. NothingSent /\ warm' = warm /\ Probed(c)
  BY CallProbed
<1>2. closed' = closed /\ \A d \in Calls \ {c} : pc'[d] = pc[d]
  BY CallEffect, CallMoves
     DEF ControlInv, ProcessInv, CallMove, Moves, Threads
<1>3. DoneMeansWarm'
  BY <1>1 DEF NothingSent, WarmInv, DoneMeansWarm
<1>4. CASE UNCHANGED <<ready, proc>> /\ pc'[c] # "finish"
  BY <1>1, <1>2, <1>3, <1>4 DEF WarmInv, FinishWarm, ReadyWarm
<1>5. CASE /\ UNCHANGED <<ready, proc>>
           /\ conn \in Workers /\ outbox[conn] # <<>>
           /\ Head(outbox[conn]).kind = "done"
  <2>1. conn \in warm
    <3>1. outbox[conn] \in Seq(Message)
      BY <1>5 DEF ControlInv, ProcessInv, TypeInv, TypeOK, WorkerTypes
    <3>2. 1 \in 1..Len(outbox[conn]) /\ outbox[conn][1].kind = "done"
      BY <1>5, <3>1
    <3> QED
      BY <1>5, <3>2 DEF WarmInv, DoneMeansWarm
  <2>2. proc \in warm
    BY <1>5, <2>1, EngineAssumption DEF ControlInv, ConnIsProc, Workers
  <2> QED
    BY <1>1, <1>2, <1>3, <1>5, <2>2 DEF WarmInv, FinishWarm, ReadyWarm
<1>6. CASE pc[c] = "finish" /\ ready' = TRUE /\ proc' = proc /\ pc'[c] # "finish"
  BY <1>1, <1>2, <1>3, <1>6 DEF WarmInv, FinishWarm, ReadyWarm
<1>7. CASE /\ pc'[c] # "finish"
           /\ proc' = proc \/ pc[c] \in InsideLabels
           /\ ready' = FALSE \/ proc' = NoOne
  <2>1. FinishWarm'
    BY <1>1, <1>2, <1>7
       DEF WarmInv, FinishWarm, ControlInv, LocksHeld, InsideLabels, CallLabels
  <2> QED
    BY <1>3, <1>7, <2>1 DEF WarmInv, ReadyWarm
<1> QED
  BY <1>1, <1>4, <1>5, <1>6, <1>7 DEF Probed

LEMMA WorkerWarm ==
  ASSUME ControlInv, WarmInv, NEW w \in Workers, WorkerStep(w)
  PROVE  WarmInv'
<1>1. UNCHANGED <<pc, closed, ready, proc>> /\ warm \subseteq warm'
  BY WorkerFrame, WorkerEffect
     DEF ControlInv, ProcessInv, ProcessesKept, WorkerMoved, WorkerStep, WorkerBoot,
         WorkerTakes, WorkerChunk, WorkerDone, WorkerError, WorkerHangsUp,
         WorkerCrash, WorkerSticks, WorkerUnsticks, engineVars
<1>2. FinishWarm' /\ ReadyWarm'
  BY <1>1 DEF WarmInv, FinishWarm, ReadyWarm
<1>3. DoneMeansWarm'
  <2>0. outbox \in [Workers -> Seq(Message)]
    BY DEF ControlInv, ProcessInv, TypeInv, TypeOK, WorkerTypes
  <2>1. CASE outbox' = outbox
    BY <1>1, <2>1 DEF WarmInv, DoneMeansWarm
  <2>2. ASSUME NEW m \in Message, outbox' = [outbox EXCEPT ![w] = Append(@, m)],
               m.kind = "done" => w \in warm'
        PROVE  DoneMeansWarm'
    BY <1>1, <2>0, <2>2, AppendProperties DEF WarmInv, DoneMeansWarm
  <2>3. (job[w] \in Calls /\ made[w] + 1 \in Nat) \/ outbox' = outbox
    BY DEF ControlInv, ProcessInv, TypeInv, TypeOK, WorkerTypes, HasJob,
           WorkerStep, WorkerBoot, WorkerTakes, WorkerChunk, WorkerDone,
           WorkerError, WorkerHangsUp, WorkerCrash, WorkerSticks, WorkerUnsticks, Reply
  <2>4. CASE job[w] \in Calls /\ made[w] + 1 \in Nat
    BY <2>1, <2>2, <2>4
       DEF WorkerStep, WorkerBoot, WorkerTakes, WorkerChunk, WorkerDone,
           WorkerError, WorkerHangsUp, WorkerCrash, WorkerSticks, WorkerUnsticks,
           Reply, Message, Chunk, Done, Failure
  <2> QED
    BY <2>1, <2>3, <2>4
<1> QED
  BY <1>2, <1>3 DEF WarmInv

\* The closing thread waits for the calls, unless it has closed the engine.
LEMMA CloserWarm ==
  ASSUME ControlInv, WarmInv, CallAbort \/ CallClose \/ AbortProgress \/ CloseProgress
  PROVE  WarmInv'
<1>1. NothingSent /\ warm' = warm
  <2>0. TypeInv /\ (outbox' = outbox => NothingSent)
    BY DEF NothingSent, ControlInv, ProcessInv
  <2> QED
    BY <2>0, EmptiedBoxes
       DEF CallAbort, CallClose, AbortProgress, CloseProgress, Abort, FinishAbort,
           CloseLocks, CloseSends, CloseTerminates, FinishClose, BeginTeardown,
           ClosePipe, workerVars
<1>2. DoneMeansWarm'
  BY <1>1 DEF NothingSent, WarmInv, DoneMeansWarm
<1>3. \A c \in Calls : pc'[c] = pc[c]
  BY CloserFrame, CloserCalled, EngineAssumption
     DEF ControlInv, ProcessInv, TypeInv, TypeOK, ThreadTypes, Threads
<1>4. \/ closed'
      \/ /\ closed' = closed /\ proc' = proc /\ (ready' => ready)
      \/ /\ closed' = closed /\ pc[Closer] = "closeKill"
         /\ proc' \in {proc, NoOne} /\ ready' = ready
  <2>1. ClosedByAbort /\ TypeInv
    BY DEF ControlInv, ProcessInv
  <2>2. CASE CallAbort \/ CallClose \/ Abort \/ CloseLocks \/ CloseSends \/ CloseTerminates
    BY <2>2 DEF CallAbort, CallClose, Abort, CloseLocks, CloseSends, CloseTerminates,
                BeginTeardown, ClosePipe, engineVars
  <2>3. CASE FinishAbort
    BY <2>1, <2>3 DEF FinishAbort, ClosedByAbort
  <2>4. CASE FinishClose
    BY <2>1, <2>4 DEF FinishClose, Killed, KillIgnored
  <2> QED
    BY <2>2, <2>3, <2>4 DEF AbortProgress, CloseProgress
<1>5. pc[Closer] = "closeKill" => \A c \in Calls : pc[c] # "finish"
  BY EngineAssumption DEF ControlInv, LocksHeld, InsideLabels, CallLabels
<1>6. CASE closed'
  BY <1>2, <1>6 DEF WarmInv, FinishWarm, ReadyWarm
<1>7. CASE closed' = closed /\ proc' = proc /\ (ready' => ready)
  BY <1>1, <1>2, <1>3, <1>7 DEF WarmInv, FinishWarm, ReadyWarm
<1>8. CASE /\ closed' = closed /\ pc[Closer] = "closeKill"
           /\ proc' \in {proc, NoOne} /\ ready' = ready
  BY <1>1, <1>2, <1>3, <1>5, <1>8 DEF WarmInv, FinishWarm, ReadyWarm
<1> QED
  BY <1>4, <1>6, <1>7, <1>8

LEMMA WarmStep == ControlInv /\ WarmInv /\ [Next]_vars => WarmInv'
<1> SUFFICES ASSUME ControlInv, WarmInv, [Next]_vars PROVE WarmInv'
  OBVIOUS
<1>1. CASE UNCHANGED vars
  BY <1>1 DEF vars, engineVars, workerVars, WarmInv, DoneMeansWarm, FinishWarm, ReadyWarm
<1> QED
  BY <1>1, CallWarm, WorkerWarm, CloserWarm DEF Next, EngineStep, Finished

\* A probe is told "ready" only for a live worker that has completed a request
\* or the prewarm: an answer that arrives while abort() or a replacement takes
\* the worker away never marks another, cold worker as ready.
THEOREM ReadyIsWarm == Spec => []ReadyMeansWarm
<1>1. Init => WarmInv
  <2> SUFFICES ASSUME Init PROVE WarmInv
    OBVIOUS
  <2>1. \A w \in Workers : Len(outbox[w]) = 0
    BY DEF Init
  <2> QED
    BY <2>1, EngineAssumption
       DEF Init, WarmInv, DoneMeansWarm, FinishWarm, ReadyWarm, Threads
<1>2. WarmInv => ReadyMeansWarm
  BY DEF WarmInv, ReadyWarm, ReadyMeansWarm, ReadyProbe
<1> QED
  BY <1>1, <1>2, ControlInvariant, WarmStep, PTL DEF Spec

-----------------------------------------------------------------------------
(***************************************************************************)
(* The pipe.  A call that is served finds the pipe clean, and while it     *)
(* waits the pipe holds the rest of its own reply and nothing else: every  *)
(* way of leaving a reply unread closes the pipe under the generation lock.*)
(***************************************************************************)
Awaiting == {"recv", "poll", "yielded"}
Using == Awaiting \cup {"term"}

Working(w) == wstate[w] \in {"busy", "stuck"}
CleanPipe(w) == inbox[w] = <<>> /\ outbox[w] = <<>> /\ ~Working(w)

\* The worker never sends more than MaxChunks chunks, and none to a prewarm.
ChunksFit ==
    \A w \in Workers :
        /\ made[w] <= MaxChunks
        /\ \A i \in 1..Len(outbox[w]) : outbox[w][i].kind = "chunk" =>
              outbox[w][i].for \notin Prewarms /\ outbox[w][i].n <= MaxChunks
NewPipe == \A w \in Workers :
    wstate[w] = "unborn" => inbox[w] = <<>> /\ outbox[w] = <<>>
IdlePipe ==
    /\ conn # NoOne /\ pc[Closer] # "closeTerm"
    /\ \A c \in Calls : pc[c] \notin Using
    => CleanPipe(conn)

\* What is under way between a call and the worker w: its command, or the
\* chunks that follow the ones it has consumed, in order, and then the end.
Carries(c, w) ==
    /\ \A i \in 1..Len(outbox[w]) :
          \/ outbox[w][i] = Chunk(c, Len(got[c]) + i)
          \/ i = Len(outbox[w]) /\ ~Working(w) /\ outbox[w][i] \in {Done(c), Failure(c)}
    /\ Working(w) =>
          job[w] = c /\ made[w] = Len(got[c]) + Len(outbox[w]) /\ inbox[w] = <<>>
    /\ inbox[w] # <<>> => inbox[w] = <<c>> /\ outbox[w] = <<>> /\ got[c] = <<>>
OwnPipe ==
    \A c \in Calls : pc[c] \in Awaiting =>
        /\ conn # NoOne => Carries(c, conn)
        /\ pc[c] = "poll" => conn \in {ref[c], NoOne}

PipeInv == ChunksFit /\ NewPipe /\ IdlePipe /\ OwnPipe

\* What a call has consumed, at each of its places.
Streams ==
    \A c \in Calls :
        /\ pc[c] \in {"idle", "lock", "start", "send"} => got[c] = <<>>
        /\ pc[c] \in Awaiting => \A i \in 1..Len(got[c]) : got[c][i] = Chunk(c, i)
StreamInv == Streams /\ OwnStream

\* A served call is alone with the pipe.
LEMMA AloneInside ==
  ASSUME ControlInv, NEW c \in Calls, pc[c] \in InsideLabels
  PROVE  /\ \A d \in Calls \ {c} : pc[d] \in {"idle", "lock", "end"}
         /\ pc[Closer] \notin {"closeSend", "closeTerm", "closeKill"}
<1>1. \A d \in Calls : pc[d] \in CallLabels
  BY DEF ControlInv, ProcessInv, TypeInv, TypeOK, ThreadTypes
<1> QED
  BY <1>1, EngineAssumption DEF ControlInv, LocksHeld, InsideLabels, CallLabels

\* A closed pipe holds nothing for anybody.
LEMMA PipeClosed ==
  ASSUME ControlInv, PipeInv, conn' = NoOne, UNCHANGED <<made, inbox>>,
         \A w \in Workers : outbox'[w] \in {outbox[w], <<>>},
         \A w \in Workers : wstate'[w] = "unborn" => wstate[w] = "unborn"
  PROVE  PipeInv'
<1>1. ChunksFit'
  BY DEF PipeInv, ChunksFit
<1>2. NewPipe'
  BY DEF PipeInv, NewPipe
<1>3. IdlePipe' /\ OwnPipe'
  BY DEF IdlePipe, OwnPipe
<1> QED
  BY <1>1, <1>2, <1>3 DEF PipeInv

\* A step that leaves the pipe alone and starts nobody waiting for it.
LEMMA PipeQuiet ==
  ASSUME ControlInv, PipeInv, UNCHANGED <<conn, job, made, inbox, outbox, got>>,
         \A w \in Workers : Working(w)' => Working(w),
         \A w \in Workers : wstate'[w] = "unborn" => wstate[w] = "unborn",
         pc[Closer] = "closeTerm" => pc'[Closer] = "closeTerm",
         \A c \in Calls : pc[c] \in Using => pc'[c] \in Using \/ conn = NoOne,
         \A c \in Calls : pc'[c] \in Awaiting => pc[c] \in Awaiting,
         \A c \in Calls : pc'[c] = "poll" =>
            (pc[c] = "poll" /\ ref'[c] = ref[c]) \/ ref'[c] = conn
  PROVE  PipeInv'
<1>0. conn \in Workers \cup {NoOne}
  BY DEF ControlInv, ProcessInv, TypeInv, TypeOK, EngineTypes
<1>1. ChunksFit' /\ NewPipe'
  BY DEF PipeInv, ChunksFit, NewPipe
<1>2. IdlePipe'
  BY <1>0 DEF PipeInv, IdlePipe, CleanPipe
<1>3. OwnPipe'
  <2> SUFFICES ASSUME NEW c \in Calls, pc'[c] \in Awaiting
               PROVE  /\ conn # NoOne => Carries(c, conn)'
                      /\ pc'[c] = "poll" => conn \in {ref'[c], NoOne}
    BY DEF OwnPipe
  <2>1. conn # NoOne => Carries(c, conn)
    BY DEF PipeInv, OwnPipe
  <2>2. conn # NoOne => Carries(c, conn)'
    BY <1>0, <2>1 DEF Carries
  <2> QED
    BY <2>2 DEF PipeInv, OwnPipe
<1> QED
  BY <1>1, <1>2, <1>3 DEF PipeInv

\* A new worker's pipe is empty; the one it replaces is closed.
LEMMA SpawnPipe ==
  ASSUME ControlInv, PipeInv, NEW c \in Calls, StartSpawns(c) \/ SpawnFails(c)
  PROVE  PipeInv'
<1> USE DEF StartSpawns, SpawnFails, Replace, Goto, End, callVars
<1>0. TypeInv /\ c \in Workers /\ c # NoOne /\ wstate[c] = "unborn" /\ pc[c] = "start"
  BY EngineAssumption DEF ControlInv, ProcessInv, SpawnsOnce, Workers
<1>1. /\ UNCHANGED <<made, inbox, got>>
      /\ \A w \in Workers : outbox'[w] \in {outbox[w], <<>>}
      /\ wstate'[c] \in {"boot", "dead"}
      /\ \A w \in Workers \ {c} : wstate'[w] = wstate[w]
      /\ conn' \in {c, NoOne}
  BY <1>0 DEF TypeInv, TypeOK, WorkerTypes
<1>2. ChunksFit'
  BY <1>1 DEF PipeInv, ChunksFit
<1>3. NewPipe'
  BY <1>1 DEF PipeInv, NewPipe
<1>4. CleanPipe(c)'
  BY <1>0, <1>1 DEF PipeInv, NewPipe, CleanPipe, Working
<1>5. IdlePipe'
  BY <1>1, <1>4 DEF IdlePipe
<1>6. \A d \in Calls : pc'[d] \notin Awaiting
  <2>1. \A d \in Calls \ {c} : pc[d] \notin Awaiting
    BY <1>0, AloneInside DEF InsideLabels, CallLabels, Awaiting
  <2>2. \A d \in Calls \ {c} : pc'[d] = pc[d]
    BY DEF ControlInv, ProcessInv, TypeInv, TypeOK, ThreadTypes, Threads
  <2>3. pc'[c] \in {"send", "release"}
    BY <1>0 DEF TypeInv, TypeOK, ThreadTypes, Threads
  <2> QED
    BY <2>1, <2>2, <2>3 DEF Awaiting
<1>7. OwnPipe'
  BY <1>6 DEF OwnPipe
<1> QED
  BY <1>2, <1>3, <1>5, <1>7 DEF PipeInv

\* The command goes down a clean pipe.
LEMMA SendPipe ==
  ASSUME ControlInv, PipeInv, StreamInv, NEW c \in Calls, Send(c)
  PROVE  PipeInv'
<1> USE DEF Send, Goto, callVars, engineVars
<1>0. /\ TypeInv /\ conn \in Workers /\ pc[c] = "send" /\ c # NoOne
      /\ inbox \in [Workers -> Seq(Threads)]
      /\ pc \in [Threads -> CallLabels \cup CloserLabels] /\ c \in Threads
  BY EngineAssumption DEF ControlInv, ProcessInv, TypeInv, TypeOK, EngineTypes,
     WorkerTypes, ThreadTypes, Threads
<1>1. /\ \A d \in Calls \ {c} : pc[d] \in {"idle", "lock", "end"}
      /\ pc[Closer] # "closeTerm"
  BY <1>0, AloneInside DEF InsideLabels, CallLabels
<1>2. CleanPipe(conn)
  BY <1>0, <1>1 DEF PipeInv, IdlePipe, Using, Awaiting
<1>3. ChunksFit'
  BY DEF PipeInv, ChunksFit
<1>4. NewPipe'
  <2>1. wstate[conn] # "unborn"
    BY DEF Alive
  <2> QED
    BY <1>0, <2>1 DEF PipeInv, NewPipe
<1>5. pc'[c] = "recv" /\ \A d \in Calls \ {c} : pc'[d] = pc[d]
  BY <1>0 DEF Threads
<1>6. IdlePipe'
  BY <1>5 DEF IdlePipe, Using, Awaiting
<1>7. inbox'[conn] = <<c>> /\ UNCHANGED <<conn, outbox, wstate, got, job, made>>
  BY <1>0, <1>2 DEF CleanPipe
<1>8. got[c] = <<>>
  BY <1>0 DEF StreamInv, Streams
<1>9. Carries(c, conn)'
  BY <1>2, <1>7, <1>8 DEF Carries, CleanPipe, Working
<1>10. OwnPipe'
  BY <1>1, <1>5, <1>9 DEF OwnPipe, Awaiting
<1> QED
  BY <1>3, <1>4, <1>6, <1>10 DEF PipeInv

\* The reply received is the next of the call's own.
LEMMA ReceivedOwn ==
  ASSUME ControlInv, PipeInv, NEW c \in Calls, Receive(c)
  PROVE  /\ conn \in Workers /\ Carries(c, conn)
         /\ outbox[conn] \in Seq(Message) /\ outbox[conn] # <<>>
         /\ LET m == Head(outbox[conn]) IN
            \/ /\ m = Chunk(c, Len(got[c]) + 1)
               /\ c \notin Prewarms /\ Len(got[c]) + 1 <= MaxChunks
            \/ m \in {Done(c), Failure(c)} /\ Len(outbox[conn]) = 1 /\ ~Working(conn)
<1>1. conn \in Workers /\ conn # NoOne /\ outbox[conn] # <<>> /\ pc[c] = "poll"
  BY EngineAssumption
     DEF Receive, ControlInv, ProcessInv, TypeInv, HasRef, Workers
<1>2. Carries(c, conn)
  BY <1>1 DEF PipeInv, OwnPipe, Awaiting
<1>3. outbox[conn] \in Seq(Message) /\ got[c] \in Seq(Message)
  BY <1>1 DEF ControlInv, ProcessInv, TypeInv, TypeOK, WorkerTypes, CallTypes
<1>4. 1 \in 1..Len(outbox[conn]) /\ Head(outbox[conn]) = outbox[conn][1]
  BY <1>1, <1>3
<1>5. CASE outbox[conn][1] = Chunk(c, Len(got[c]) + 1)
  BY <1>1, <1>2, <1>3, <1>4, <1>5 DEF PipeInv, ChunksFit, Chunk
<1>6. CASE /\ 1 = Len(outbox[conn]) /\ ~Working(conn)
           /\ outbox[conn][1] \in {Done(c), Failure(c)}
  BY <1>1, <1>2, <1>3, <1>4, <1>6
<1> QED
  BY <1>2, <1>4, <1>5, <1>6 DEF Carries

LEMMA ReceivePipe ==
  ASSUME ControlInv, PipeInv, NEW c \in Calls, Receive(c)
  PROVE  PipeInv'
<1> DEFINE m == Head(outbox[conn])
           box == outbox[conn]
<1>0. /\ conn \in Workers /\ Carries(c, conn) /\ box \in Seq(Message) /\ box # <<>>
      /\ \/ m = Chunk(c, Len(got[c]) + 1) /\ c \notin Prewarms
         \/ m \in {Done(c), Failure(c)} /\ Len(box) = 1 /\ ~Working(conn)
  BY ReceivedOwn
<1>1. /\ outbox \in [Workers -> Seq(Message)] /\ got \in [Calls -> Seq(Message)]
      /\ pc \in [Threads -> CallLabels \cup CloserLabels] /\ c \in Threads
      /\ pc[c] = "poll"
  BY DEF Receive, ControlInv, ProcessInv, TypeInv, TypeOK, WorkerTypes, CallTypes,
         ThreadTypes, Threads
<1>2. /\ UNCHANGED <<conn, ref, wstate, job, made, inbox>>
      /\ outbox' = [outbox EXCEPT ![conn] = Tail(box)]
      /\ got' = [got EXCEPT ![c] = Append(got[c], m)]
  BY <1>0 DEF Receive, engineVars
<1>3. /\ outbox'[conn] = Tail(box) /\ got'[c] = Append(got[c], m)
      /\ Len(got'[c]) = Len(got[c]) + 1 /\ Len(got[c]) \in Nat
  BY <1>0, <1>1, <1>2
<1>10. /\ Len(box) \in Nat /\ Len(Tail(box)) \in Nat /\ Len(Tail(box)) = Len(box) - 1
       /\ Tail(box) = <<>> <=> Len(box) = 1
       /\ \A i \in 1..Len(Tail(box)) : i + 1 \in 1..Len(box) /\ Tail(box)[i] = box[i + 1]
  BY <1>0, TailParts
<1>4. \A d \in Calls \ {c} : pc'[d] = pc[d] /\ pc[d] \in {"idle", "lock", "end"}
  <2>1. \A d \in Calls \ {c} : pc[d] \in {"idle", "lock", "end"}
    BY <1>1, AloneInside DEF InsideLabels, CallLabels
  <2> QED
    BY <1>1, <2>1 DEF Receive, Goto, End, Threads
<1>5. ChunksFit'
  <2>1. \A w \in Workers : \A i \in 1..Len(outbox'[w]) :
           \E j \in 1..Len(outbox[w]) : outbox'[w][i] = outbox[w][j]
    BY <1>0, <1>2, TakenFromBox DEF ControlInv, ProcessInv, NothingSent
  <2> QED
    BY <1>2, <2>1 DEF PipeInv, ChunksFit
<1>6. NewPipe'
  BY <1>0, <1>1, <1>2 DEF PipeInv, NewPipe
<1>7. CASE m = Chunk(c, Len(got[c]) + 1) /\ c \notin Prewarms
  <2>1. pc'[c] = "yielded"
    BY <1>0, <1>1, <1>7 DEF Receive, Goto, End, Chunk
  <2>2. Carries(c, conn)'
    <3>1. ASSUME NEW i \in 1..Len(Tail(box))
          PROVE  \/ Tail(box)[i] = Chunk(c, Len(got'[c]) + i)
                 \/ /\ i = Len(Tail(box)) /\ ~Working(conn)
                    /\ Tail(box)[i] \in {Done(c), Failure(c)}
      <4> DEFINE k == Len(box)
                 l == Len(Tail(box))
                 n == Len(got[c])
                 n1 == Len(got'[c])
      <4>1. k \in Nat /\ l = k - 1 /\ n \in Nat /\ n1 = n + 1 /\ i \in 1..l
        BY <1>3, <1>10
      <4>2. i + 1 \in 1..k /\ n + (i + 1) = n1 + i /\ (i + 1 = k <=> i = l)
        <5> HIDE DEF k, l, n, n1
        <5> QED
          BY <4>1
      <4>3. Tail(box)[i] = box[i + 1]
        BY <1>10
      <4> QED
        BY <1>0, <4>2, <4>3 DEF Carries
    <3>2. Working(conn) => /\ job[conn] = c /\ inbox[conn] = <<>>
                           /\ made[conn] = Len(got'[c]) + Len(Tail(box))
      <4> DEFINE k == Len(box)
                 l == Len(Tail(box))
                 n == Len(got[c])
                 n1 == Len(got'[c])
      <4>1. k \in Nat /\ l = k - 1 /\ n \in Nat /\ n1 = n + 1
        BY <1>3, <1>10
      <4>2. n + k = n1 + l
        <5> HIDE DEF k, l, n, n1
        <5> QED
          BY <4>1
      <4> QED
        BY <1>0, <4>2 DEF Carries
    <3>3. inbox[conn] = <<>>
      BY <1>0 DEF Carries
    <3> QED
      BY <1>2, <1>3, <3>1, <3>2, <3>3 DEF Carries, Working
  <2>3. OwnPipe'
    BY <1>4, <2>1, <2>2 DEF OwnPipe, Awaiting
  <2>4. IdlePipe'
    BY <2>1 DEF IdlePipe, Using, Awaiting
  <2> QED
    BY <1>5, <1>6, <2>3, <2>4 DEF PipeInv
<1>8. CASE m \in {Done(c), Failure(c)} /\ Len(box) = 1 /\ ~Working(conn)
  <2>1. pc'[c] \in {"finish", "term"}
    BY <1>0, <1>1, <1>8 DEF Receive, Goto, End, Done, Failure
  <2>2. CleanPipe(conn)'
    <3>1. inbox[conn] = <<>>
      BY <1>0 DEF Carries
    <3>2. Tail(box) = <<>>
      BY <1>8, <1>10
    <3> QED
      BY <1>2, <1>3, <1>8, <3>1, <3>2 DEF CleanPipe, Working
  <2>3. OwnPipe'
    BY <1>4, <2>1 DEF OwnPipe, Awaiting
  <2>4. IdlePipe'
    BY <2>2 DEF IdlePipe
  <2> QED
    BY <1>5, <1>6, <2>3, <2>4 DEF PipeInv
<1> QED
  BY <1>0, <1>7, <1>8

LEMMA CallPipe ==
  ASSUME ControlInv, PipeInv, StreamInv, NEW c \in Calls,
         CallProgress(c) \/ Consume(c) \/ Enter(c)
  PROVE  PipeInv'
<1>0. /\ TypeInv /\ c \in Threads /\ c # Closer
      /\ pc \in [Threads -> CallLabels \cup CloserLabels]
  BY EngineAssumption DEF ControlInv, ProcessInv, TypeInv, TypeOK, ThreadTypes, Threads
<1> USE <1>0 DEF Goto, End, callVars, engineVars, workerVars, Using, Awaiting
<1>1. ASSUME UNCHANGED <<conn, wstate, job, made, inbox, outbox, got>>,
             NEW here, NEW there,
             pc[c] = here, pc' = [pc EXCEPT ![c] = there],
             here \in Using => there \in Using \/ conn = NoOne,
             there \in Awaiting => here \in Awaiting,
             there = "poll" => ref'[c] = conn,
             \A d \in Calls \ {c} : ref'[d] = ref[d]
      PROVE  PipeInv'
  <2>1. pc'[Closer] = pc[Closer] /\ \A d \in Calls \ {c} : pc'[d] = pc[d]
    BY <1>1, EngineAssumption DEF Threads
  <2>2. pc'[c] = there
    BY <1>1
  <2> QED
    BY <1>1, <2>1, <2>2, PipeQuiet DEF Working
<1>2. CASE Enter(c) \/ Resume(c) \/ Abandon(c)
  BY <1>1, <1>2 DEF Enter, Resume, Abandon
<1>3. CASE AcquireLock(c) \/ AcquireLate(c) \/ QueueTimeout(c)
  BY <1>1, <1>3 DEF AcquireLock, AcquireLate, QueueTimeout
<1>4. CASE StartClosed(c) \/ StartKeeps(c) \/ SendNoPipe(c)
  BY <1>1, <1>4 DEF StartClosed, StartKeeps, SendNoPipe
<1>5. CASE ReadRefClosed(c) \/ PollTimeout(c) \/ PollBroken(c)
  BY <1>1, <1>5 DEF ReadRefClosed, PollTimeout, PollBroken
<1>6. CASE ReadRef(c)
  <2>1. ref'[c] = conn /\ \A d \in Calls \ {c} : ref'[d] = ref[d]
    BY <1>6 DEF ReadRef, TypeInv, TypeOK, CallTypes
  <2> QED
    BY <1>1, <1>6, <2>1 DEF ReadRef
<1>7. CASE SetReady(c) \/ ReleaseLock(c)
  BY <1>1, <1>7 DEF SetReady, ReleaseLock
<1>8. CASE SendBroken(c) \/ Terminate(c)
  <2>1. \A w \in Workers : outbox'[w] \in {outbox[w], <<>>}
    BY <1>8 DEF SendBroken, Terminate, BeginTeardown, ClosePipe
  <2>2. conn' = NoOne /\ UNCHANGED <<made, inbox, wstate>>
    BY <1>8 DEF SendBroken, Terminate, BeginTeardown, ClosePipe
  <2> QED
    BY <2>1, <2>2, PipeClosed
<1>9. CASE FinishTerminate(c) \/ TerminateRaises(c)
  <2>1. conn = NoOne
    BY <1>9 DEF FinishTerminate, TerminateRaises, ControlInv, LifeHeld, Teardown
  <2>2. UNCHANGED <<conn, made, inbox, outbox>>
    BY <1>9 DEF FinishTerminate, TerminateRaises
  <2>3. \A w \in Workers : wstate'[w] = "unborn" => wstate[w] = "unborn"
    BY <1>9 DEF FinishTerminate, TerminateRaises, Killed, KillIgnored,
                TypeInv, TypeOK, WorkerTypes, EngineTypes
  <2> QED
    BY <2>1, <2>2, <2>3, PipeClosed
<1> QED
  BY <1>2, <1>3, <1>4, <1>5, <1>6, <1>7, <1>8, <1>9, SpawnPipe, SendPipe, ReceivePipe
     DEF CallProgress, Consume

LEMMA CloserPipe ==
  ASSUME ControlInv, PipeInv, CallAbort \/ CallClose \/ AbortProgress \/ CloseProgress
  PROVE  PipeInv'
<1>0. /\ TypeInv /\ Closer \in Threads
      /\ pc \in [Threads -> CallLabels \cup CloserLabels]
      /\ inbox \in [Workers -> Seq(Threads)]
  BY DEF ControlInv, ProcessInv, TypeInv, TypeOK, ThreadTypes, Threads, WorkerTypes
<1> USE <1>0 DEF Goto, callVars, engineVars, workerVars
<1>1. \A c \in Calls : pc'[c] = pc[c]
  BY CloserFrame, CloserCalled, EngineAssumption DEF Threads
<1>2. CASE CallAbort \/ CallClose \/ CloseLocks
  <2>1. /\ UNCHANGED <<conn, wstate, job, made, inbox, outbox, got, ref>>
        /\ pc[Closer] # "closeTerm"
    BY <1>2 DEF CallAbort, CallClose, CloseLocks
  <2> QED
    BY <1>1, <2>1, PipeQuiet DEF Working
<1>3. CASE Abort \/ CloseTerminates
  <2>1. \A w \in Workers : outbox'[w] \in {outbox[w], <<>>}
    BY <1>3 DEF Abort, CloseTerminates, BeginTeardown, ClosePipe
  <2>2. conn' = NoOne /\ UNCHANGED <<made, inbox, wstate>>
    BY <1>3 DEF Abort, CloseTerminates, BeginTeardown, ClosePipe
  <2> QED
    BY <2>1, <2>2, PipeClosed
<1>4. CASE FinishAbort \/ FinishClose
  <2>1. conn = NoOne
    BY <1>4 DEF FinishAbort, FinishClose, ControlInv, LifeHeld, Teardown
  <2>2. UNCHANGED <<conn, made, inbox, outbox>>
    BY <1>4 DEF FinishAbort, FinishClose
  <2>3. \A w \in Workers : wstate'[w] = "unborn" => wstate[w] = "unborn"
    BY <1>4 DEF FinishAbort, FinishClose, Killed, KillIgnored,
                TypeInv, TypeOK, WorkerTypes, EngineTypes
  <2> QED
    BY <2>1, <2>2, <2>3, PipeClosed
<1>5. CASE CloseSends
  <2>1. /\ UNCHANGED <<conn, proc, wstate, job, made, outbox, got, ref>>
        /\ pc[Closer] = "closeSend" /\ pc'[Closer] = "closeTerm"
        /\ \A w \in Workers : w # conn => inbox'[w] = inbox[w]
    BY <1>5 DEF CloseSends
  <2>2. \A c \in Calls : pc'[c] \notin Awaiting
    <3>1. \A c \in Calls : pc[c] \notin InsideLabels
      BY <2>1, EngineAssumption DEF ControlInv, LocksHeld
    <3> QED
      BY <1>1, <3>1 DEF InsideLabels, CallLabels, Awaiting
  <2>3. ChunksFit'
    BY <2>1 DEF PipeInv, ChunksFit
  <2>4. NewPipe'
    <3>1. conn # NoOne => wstate[conn] # "unborn"
      BY DEF ControlInv, ConnIsProc, ProcessInv, ProcBorn
    <3> QED
      BY <2>1, <3>1, EngineAssumption DEF PipeInv, NewPipe, Workers
  <2>5. IdlePipe' /\ OwnPipe'
    BY <2>1, <2>2 DEF IdlePipe, OwnPipe
  <2> QED
    BY <2>3, <2>4, <2>5 DEF PipeInv
<1> QED
  BY <1>2, <1>3, <1>4, <1>5 DEF AbortProgress, CloseProgress

\* A worker that is working was given its work by the call that waits for it.
LEMMA WorkingForCall ==
  ASSUME ControlInv, PipeInv, conn \in Workers, ~CleanPipe(conn), pc'= pc
  PROVE  \/ /\ pc[Closer] = "closeTerm" \/ \E c \in Calls : pc[c] = "term"
            /\ \A c \in Calls : pc'[c] \notin Awaiting
            /\ IdlePipe' /\ OwnPipe'
         \/ \E c \in Calls :
               /\ pc[c] \in Awaiting /\ Carries(c, conn)
               /\ \A d \in Calls \ {c} : pc[d] \notin Using
<1>0. conn # NoOne
  BY EngineAssumption DEF Workers
<1>1. CASE \E c \in Calls : pc[c] \in Awaiting
  <2>1. PICK c \in Calls : pc[c] \in Awaiting
    BY <1>1
  <2>2. Carries(c, conn)
    BY <1>0, <2>1 DEF PipeInv, OwnPipe
  <2>3. \A d \in Calls \ {c} : pc[d] \notin Using
    BY <2>1, AloneInside DEF InsideLabels, CallLabels, Awaiting, Using
  <2> QED
    BY <2>1, <2>2, <2>3
<1>2. CASE \A c \in Calls : pc[c] \notin Awaiting
  <2>1. pc[Closer] = "closeTerm" \/ \E c \in Calls : pc[c] = "term"
    BY <1>0, <1>2 DEF PipeInv, IdlePipe, Using
  <2>2. IdlePipe' /\ OwnPipe'
    BY <1>2, <2>1 DEF IdlePipe, OwnPipe, Using
  <2> QED
    BY <1>2, <2>1, <2>2
<1> QED
  BY <1>1, <1>2

LEMMA WorkerTakesPipe ==
  ASSUME ControlInv, PipeInv, NEW w \in Workers, WorkerTakes(w)
  PROVE  PipeInv'
<1>0. /\ wstate \in [Workers -> WorkerStates] /\ job \in [Workers -> Calls \cup {NoOne}]
      /\ made \in [Workers -> Nat] /\ inbox \in [Workers -> Seq(Threads)]
      /\ w # NoOne /\ 0 <= MaxChunks
  BY EngineAssumption
     DEF ControlInv, ProcessInv, TypeInv, TypeOK, WorkerTypes, Workers
<1>1. /\ UNCHANGED <<pc, conn, ref, got, outbox>>
      /\ wstate[w] = "idle" /\ wstate'[w] \in {"busy", "dead"} /\ inbox[w] # <<>>
      /\ \A v \in Workers \ {w} : UNCHANGED <<wstate[v], job[v], made[v], inbox[v]>>
      /\ made'[w] \in {0, made[w]}
  BY <1>0 DEF WorkerTakes, Become, callVars, engineVars
<1>2. ChunksFit'
  BY <1>0, <1>1 DEF PipeInv, ChunksFit
<1>3. NewPipe'
  BY <1>1 DEF PipeInv, NewPipe
<1>4. CASE w # conn
  <2>1. \A c \in Calls : conn # NoOne => (Carries(c, conn) => Carries(c, conn)')
    BY <1>1, <1>4 DEF Carries, Working, ControlInv, ProcessInv, TypeInv, TypeOK, EngineTypes
  <2>2. OwnPipe'
    BY <1>1, <2>1 DEF PipeInv, OwnPipe
  <2>3. IdlePipe'
    BY <1>1, <1>4 DEF PipeInv, IdlePipe, CleanPipe, Working, ControlInv, ProcessInv,
                      TypeInv, TypeOK, EngineTypes
  <2> QED
    BY <1>2, <1>3, <2>2, <2>3 DEF PipeInv
<1>5. CASE w = conn
  <2>1. ~CleanPipe(conn)
    BY <1>1, <1>5 DEF CleanPipe
  <2>2. CASE IdlePipe' /\ OwnPipe'
    BY <1>2, <1>3, <2>2 DEF PipeInv
  <2>3. ASSUME NEW c \in Calls, pc[c] \in Awaiting, Carries(c, w),
               \A d \in Calls \ {c} : pc[d] \notin Using
        PROVE  PipeInv'
    <3>1. inbox[w] = <<c>> /\ outbox[w] = <<>> /\ got[c] = <<>> /\ c # Closer
      BY <1>1, <2>3, EngineAssumption DEF Carries
    <3>2. /\ wstate'[w] = "busy" /\ job'[w] = c /\ made'[w] = 0 /\ inbox'[w] = <<>>
      BY <1>0, <3>1 DEF WorkerTakes, Become
    <3>3. Carries(c, w)'
      BY <1>1, <3>1, <3>2 DEF Carries, Working
    <3>4. IdlePipe' /\ OwnPipe'
      BY <1>1, <1>5, <2>3, <3>3 DEF PipeInv, IdlePipe, OwnPipe, Using, Awaiting
    <3> QED
      BY <1>2, <1>3, <3>4 DEF PipeInv
  <2> QED
    BY <1>1, <1>5, <2>1, <2>2, <2>3, WorkingForCall
<1> QED
  BY <1>4, <1>5

LEMMA WorkerReplyPipe ==
  ASSUME ControlInv, PipeInv, NEW w \in Workers,
         WorkerChunk(w) \/ WorkerDone(w) \/ WorkerError(w)
  PROVE  PipeInv'
<1> DEFINE box == outbox[w]
<1>0. /\ wstate \in [Workers -> WorkerStates] /\ made \in [Workers -> Nat]
      /\ outbox \in [Workers -> Seq(Message)] /\ got \in [Calls -> Seq(Message)]
      /\ w # NoOne /\ MaxChunks \in Nat
  BY EngineAssumption
     DEF ControlInv, ProcessInv, TypeInv, TypeOK, WorkerTypes, CallTypes, Workers
<1>1. /\ UNCHANGED <<pc, conn, ref, got, inbox>>
      /\ conn = w /\ wstate[w] = "busy"
      /\ \A v \in Workers \ {w} : UNCHANGED <<wstate[v], made[v], outbox[v]>>
      /\ job[w] \in Calls
  BY DEF ControlInv, ProcessInv, TypeInv, TypeOK, HasJob, WorkerTypes, WorkerChunk,
         WorkerDone, WorkerError, Reply, Become, callVars, engineVars
<1>2. \E n \in Message :
         /\ outbox'[w] = Append(box, n)
         /\ \/ /\ n = Chunk(job[w], made[w] + 1) /\ job[w] \notin Prewarms
               /\ made[w] < MaxChunks /\ made'[w] = made[w] + 1
               /\ job' = job /\ wstate' = wstate
            \/ /\ n \in {Done(job[w]), Failure(job[w])}
               /\ made' = made /\ wstate'[w] = "idle"
  <2>1. /\ Done(job[w]) \in Message /\ Failure(job[w]) \in Message
        /\ Chunk(job[w], made[w] + 1) \in Message
    BY <1>0, <1>1 DEF Done, Failure, Chunk, Message
  <2> QED
    BY <1>0, <2>1 DEF WorkerChunk, WorkerDone, WorkerError, Reply, Become
<1>3. PICK n \in Message :
         /\ outbox'[w] = Append(box, n)
         /\ \/ /\ n = Chunk(job[w], made[w] + 1) /\ job[w] \notin Prewarms
               /\ made[w] < MaxChunks /\ made'[w] = made[w] + 1
               /\ job' = job /\ wstate' = wstate
            \/ /\ n \in {Done(job[w]), Failure(job[w])}
               /\ made' = made /\ wstate'[w] = "idle"
  BY <1>2
<1>4. /\ Len(box) \in Nat /\ Len(outbox'[w]) = Len(box) + 1
      /\ outbox'[w][Len(box) + 1] = n
      /\ \A i \in 1..Len(box) : outbox'[w][i] = box[i]
  BY <1>0, <1>3, AppendProperties
<1>5. \A i \in 1..Len(outbox'[w]) : i \in 1..Len(box) \/ i = Len(box) + 1
  BY <1>4
<1>6. ChunksFit'
  <2>1. made'[w] <= MaxChunks
    BY <1>0, <1>3 DEF PipeInv, ChunksFit
  <2>2. n.kind = "chunk" => n.for \notin Prewarms /\ n.n <= MaxChunks
    BY <1>0, <1>3 DEF Chunk, Done, Failure
  <2>3. \A i \in 1..Len(outbox'[w]) : outbox'[w][i].kind = "chunk" =>
           outbox'[w][i].for \notin Prewarms /\ outbox'[w][i].n <= MaxChunks
    BY <1>4, <1>5, <2>2 DEF PipeInv, ChunksFit
  <2> QED
    BY <1>1, <2>1, <2>3 DEF PipeInv, ChunksFit
<1>7. NewPipe'
  BY <1>1, <1>3 DEF PipeInv, NewPipe
<1>8. CASE IdlePipe' /\ OwnPipe'
  BY <1>6, <1>7, <1>8 DEF PipeInv
<1>9. ASSUME NEW c \in Calls, pc[c] \in Awaiting, Carries(c, w),
             \A d \in Calls \ {c} : pc[d] \notin Using
      PROVE  PipeInv'
  <2>1. /\ job[w] = c /\ made[w] = Len(got[c]) + Len(box) /\ inbox[w] = <<>>
        /\ \A i \in 1..Len(box) : box[i] = Chunk(c, Len(got[c]) + i)
        /\ Len(got[c]) \in Nat
    BY <1>0, <1>1, <1>9 DEF Carries, Working
  <2>2. made[w] + 1 = Len(got[c]) + (Len(box) + 1)
    <3> DEFINE k == Len(box)
               n0 == Len(got[c])
               d == made[w]
    <3>1. k \in Nat /\ n0 \in Nat /\ d = n0 + k
      BY <1>4, <2>1
    <3> HIDE DEF k, n0, d
    <3>2. d + 1 = n0 + (k + 1)
      BY <3>1
    <3> QED
      BY <3>2 DEF k, n0, d
  <2>3. Carries(c, w)'
    <3>1. CASE n = Chunk(c, made[w] + 1) /\ made'[w] = made[w] + 1
               /\ job' = job /\ wstate' = wstate
      <4>1. \A i \in 1..Len(outbox'[w]) : outbox'[w][i] = Chunk(c, Len(got[c]) + i)
        BY <1>4, <1>5, <2>1, <2>2, <3>1
      <4>2. made'[w] = Len(got[c]) + Len(outbox'[w])
        BY <1>4, <2>2, <3>1
      <4> QED
        BY <1>1, <2>1, <3>1, <4>1, <4>2 DEF Carries
    <3>2. CASE n \in {Done(c), Failure(c)} /\ wstate'[w] = "idle"
      <4>1. ~Working(w)'
        BY <3>2 DEF Working
      <4>2. \A i \in 1..Len(outbox'[w]) :
               \/ outbox'[w][i] = Chunk(c, Len(got[c]) + i)
               \/ i = Len(outbox'[w]) /\ outbox'[w][i] \in {Done(c), Failure(c)}
        BY <1>4, <1>5, <2>1, <3>2
      <4> QED
        BY <1>1, <2>1, <4>1, <4>2 DEF Carries
    <3> QED
      BY <1>3, <2>1, <3>1, <3>2
  <2>4. IdlePipe' /\ OwnPipe'
    BY <1>1, <1>9, <2>3 DEF PipeInv, IdlePipe, OwnPipe, Using, Awaiting
  <2> QED
    BY <1>6, <1>7, <2>4 DEF PipeInv
<1>10. ~CleanPipe(conn)
  BY <1>1 DEF CleanPipe, Working
<1> QED
  BY <1>1, <1>8, <1>9, <1>10, WorkingForCall

LEMMA WorkerPipe ==
  ASSUME ControlInv, PipeInv, NEW w \in Workers, WorkerStep(w)
  PROVE  PipeInv'
<1>1. CASE \/ WorkerBoot(w) \/ WorkerHangsUp(w) \/ WorkerCrash(w)
           \/ WorkerSticks(w) \/ WorkerUnsticks(w)
  <2>1. UNCHANGED <<pc, conn, ref, got, job, made, inbox, outbox>>
    BY <1>1 DEF WorkerBoot, WorkerHangsUp, WorkerCrash, WorkerSticks,
                WorkerUnsticks, callVars, engineVars
  <2>2. \A v \in Workers : /\ Working(v)' => Working(v)
                           /\ wstate'[v] = "unborn" => wstate[v] = "unborn"
    BY <1>1 DEF WorkerBoot, WorkerHangsUp, WorkerCrash, WorkerSticks,
                WorkerUnsticks, Become, Working, Alive, ControlInv, ProcessInv,
                TypeInv, TypeOK, WorkerTypes
  <2> QED
    BY <2>1, <2>2, PipeQuiet DEF Using
<1> QED
  BY <1>1, WorkerTakesPipe, WorkerReplyPipe DEF WorkerStep

LEMMA PipeStep == ControlInv /\ PipeInv /\ StreamInv /\ [Next]_vars => PipeInv'
<1> SUFFICES ASSUME ControlInv, PipeInv, StreamInv, [Next]_vars PROVE PipeInv'
  OBVIOUS
<1>1. CASE UNCHANGED vars
  <2>1. UNCHANGED <<pc, conn, ref, wstate, job, made, inbox, outbox, got>>
    BY <1>1 DEF vars, callVars, engineVars, workerVars
  <2> QED
    BY <2>1, PipeQuiet DEF Using, Working
<1> QED
  BY <1>1, CallPipe, WorkerPipe, CloserPipe DEF Next, EngineStep, Finished

\* A call's stream grows only by its own next reply.
LEMMA ReceiveStream ==
  ASSUME ControlInv, PipeInv, StreamInv, NEW c \in Calls, Receive(c)
  PROVE  StreamInv'
<1> DEFINE m == Head(outbox[conn])
<1>0. /\ \/ m = Chunk(c, Len(got[c]) + 1) /\ c \notin Prewarms
         \/ m \in {Done(c), Failure(c)}
      /\ pc[c] = "poll" /\ got \in [Calls -> Seq(Message)] /\ m \in Message
      /\ fate \in [Calls -> Fates]
      /\ pc \in [Threads -> CallLabels \cup CloserLabels] /\ c \in Threads
  <2>1. outbox[conn] \in Seq(Message) /\ outbox[conn] # <<>>
    BY ReceivedOwn
  <2>2. m \in Message
    BY <2>1
  <2> QED
    BY <2>2, ReceivedOwn DEF Receive, ControlInv, ProcessInv, TypeInv, TypeOK, CallTypes,
       ThreadTypes, Threads
<1>1. /\ got' = [got EXCEPT ![c] = Append(got[c], m)]
      /\ pc'[c] \in {"finish", "yielded", "term"}
      /\ \A d \in Calls \ {c} : pc'[d] = pc[d] /\ fate'[d] = fate[d]
      /\ pc'[c] = "yielded" => m.kind = "chunk"
      /\ fate'[c] = "done" => m.kind = "done"
  BY <1>0 DEF Receive, Goto, End, Fates, ControlInv, FateByPlace, Threads
<1> HIDE DEF m
<1>2. /\ Len(got[c]) \in Nat /\ Len(got'[c]) = Len(got[c]) + 1
      /\ got'[c][Len(got[c]) + 1] = m
      /\ \A i \in 1..Len(got[c]) : got'[c][i] = got[c][i]
  BY <1>0, <1>1, AppendProperties
<1>3. \A i \in 1..Len(got'[c]) : i \in 1..Len(got[c]) \/ i = Len(got[c]) + 1
  BY <1>2
<1>4. \A i \in 1..Len(got[c]) : got[c][i] = Chunk(c, i)
  BY <1>0 DEF StreamInv, Streams, Awaiting
<1>5. \A d \in Calls \ {c} : got'[d] = got[d]
  BY <1>0, <1>1
<1>6. Streams'
  <2>1. pc'[c] = "yielded" => m = Chunk(c, Len(got[c]) + 1)
    BY <1>0, <1>1 DEF Done, Failure
  <2>2. pc'[c] \in Awaiting => \A i \in 1..Len(got'[c]) : got'[c][i] = Chunk(c, i)
    BY <1>1, <1>2, <1>3, <1>4, <2>1 DEF Awaiting
  <2> QED
    BY <1>1, <1>5, <2>2 DEF StreamInv, Streams
<1>7. OwnStream'
  <2>1. \A i \in 1..Len(got'[c]) :
           /\ got'[c][i].for = c
           /\ got'[c][i].kind = "chunk" => got'[c][i].n = i
    <3>1. \A i \in 1..Len(got[c]) : got'[c][i].for = c /\ got'[c][i].n = i
      <4> TAKE i \in 1..Len(got[c])
      <4>1. got'[c][i] = Chunk(c, i)
        BY <1>2, <1>4
      <4>2. Chunk(c, i).for = c /\ Chunk(c, i).n = i
        BY DEF Chunk
      <4> QED
        BY <4>1, <4>2
    <3>2. m.for = c /\ (m.kind = "chunk" => m.n = Len(got[c]) + 1)
      BY <1>0 DEF Chunk, Done, Failure
    <3> QED
      BY <1>2, <1>3, <3>1, <3>2
  <2>2. fate'[c] = "done" => got'[c] # <<>> /\ got'[c][Len(got'[c])] = Done(c)
    <3>1. m.kind = "done" => m = Done(c)
      BY <1>0 DEF Chunk, Done, Failure
    <3>2. got'[c] # <<>>
      BY <1>0, <1>1, AppendProperties
    <3> QED
      BY <1>1, <1>2, <3>1, <3>2
  <2> QED
    BY <1>1, <1>5, <2>1, <2>2 DEF StreamInv, OwnStream
<1> QED
  BY <1>6, <1>7 DEF StreamInv

\* Of a call's steps only Receive delivers, and only it completes the call.
LEMMA OnlyReceiveDelivers ==
  ASSUME TypeInv, NEW c \in Calls, CallProgress(c) \/ Consume(c) \/ Enter(c), ~Receive(c)
  PROVE  got' = got /\ ~(pc[c] = "poll" /\ pc'[c] = "finish")
<1> USE EngineAssumption DEF Goto, End, callVars, TypeInv, TypeOK, ThreadTypes, Threads
<1>1. CASE Enter(c) \/ Consume(c)
  BY <1>1 DEF Enter, Consume, Resume, Abandon
<1>2. CASE AcquireLock(c) \/ AcquireLate(c) \/ QueueTimeout(c)
  BY <1>2 DEF AcquireLock, AcquireLate, QueueTimeout
<1>3. CASE StartClosed(c) \/ StartKeeps(c) \/ StartSpawns(c) \/ SpawnFails(c)
  BY <1>3 DEF StartClosed, StartKeeps, StartSpawns, SpawnFails, Replace
<1>4. CASE Send(c) \/ SendBroken(c) \/ SendNoPipe(c) \/ Terminate(c)
  BY <1>4 DEF Send, SendBroken, SendNoPipe, Terminate
<1>5. CASE ReadRef(c) \/ ReadRefClosed(c) \/ PollTimeout(c) \/ PollBroken(c)
  BY <1>5 DEF ReadRef, ReadRefClosed, PollTimeout, PollBroken
<1>6. CASE SetReady(c) \/ ReleaseLock(c) \/ FinishTerminate(c) \/ TerminateRaises(c)
  BY <1>6 DEF SetReady, ReleaseLock, FinishTerminate, TerminateRaises
<1> QED
  BY <1>1, <1>2, <1>3, <1>4, <1>5, <1>6 DEF CallProgress

\* Every other step leaves the streams as they are, and makes no call "done".
LEMMA StreamsKept ==
  ASSUME StreamInv, got' = got,
         \A c \in Calls : pc'[c] \in {"idle", "lock", "start", "send"}
            => pc[c] \in {"idle", "lock", "start", "send"},
         \A c \in Calls : pc'[c] \in Awaiting => pc[c] \in {"send"} \cup Awaiting,
         \A c \in Calls : fate'[c] = "done" => fate[c] = "done"
  PROVE  StreamInv'
BY DEF StreamInv, Streams, OwnStream

LEMMA StreamStep == ControlInv /\ PipeInv /\ StreamInv /\ [Next]_vars => StreamInv'
<1> SUFFICES ASSUME ControlInv, PipeInv, StreamInv, [Next]_vars PROVE StreamInv'
  OBVIOUS
<1>1. ASSUME NEW c \in Calls, CallProgress(c) \/ Consume(c) \/ Enter(c), ~Receive(c)
      PROVE  StreamInv'
  <2>0. got' = got /\ ~(pc[c] = "poll" /\ pc'[c] = "finish")
    BY <1>1, OnlyReceiveDelivers DEF ControlInv, ProcessInv
  <2>1. CallMove(c)
    BY <1>1, CallMoves
  <2>2. \A d \in Calls \ {c} : pc'[d] = pc[d] /\ fate'[d] = fate[d]
    BY <2>1 DEF CallMove, Moves, Outcome, Threads, ControlInv, ProcessInv, TypeInv,
                TypeOK, CallTypes
  <2>3. fate'[c] = "done" => fate[c] = "done"
    BY <2>0, <2>1 DEF CallMove, Moves, Outcome, ControlInv, ProcessInv, TypeInv,
                      TypeOK, CallTypes
  <2>4. /\ pc'[c] \in {"idle", "lock", "start", "send"}
             => pc[c] \in {"idle", "lock", "start", "send"}
        /\ pc'[c] \in Awaiting => pc[c] \in {"send"} \cup Awaiting
    BY <2>1 DEF CallMove, Moves, Awaiting
  <2> QED
    BY <2>0, <2>2, <2>3, <2>4, StreamsKept
<1>2. ASSUME NEW w \in Workers, WorkerStep(w) PROVE StreamInv'
  <2>1. got' = got
    BY <1>2 DEF WorkerStep, WorkerBoot, WorkerTakes, WorkerChunk, WorkerDone,
                WorkerError, WorkerHangsUp, WorkerCrash, WorkerSticks,
                WorkerUnsticks, callVars
  <2> QED
    BY <1>2, <2>1, WorkerFrame, StreamsKept
<1>3. ASSUME CallAbort \/ CallClose \/ AbortProgress \/ CloseProgress PROVE StreamInv'
  <2>1. got' = got
    BY <1>3 DEF CallAbort, CallClose, AbortProgress, CloseProgress, Abort, FinishAbort,
                CloseLocks, CloseSends, CloseTerminates, FinishClose, callVars
  <2>2. fate' = fate /\ \A c \in Calls : pc'[c] = pc[c]
    BY <1>3, CloserFrame, CloserCalled, EngineAssumption
       DEF ControlInv, ProcessInv, TypeInv, TypeOK, ThreadTypes, Threads
  <2> QED
    BY <2>1, <2>2, StreamsKept
<1>4. CASE UNCHANGED vars
  BY <1>4, StreamsKept DEF vars, callVars
<1> QED
  BY <1>1, <1>2, <1>3, <1>4, ReceiveStream DEF Next, EngineStep, Finished

LEMMA PipeInvariant == Spec => [](ControlInv /\ PipeInv /\ StreamInv)
<1>1. Init => PipeInv /\ StreamInv
  <2> SUFFICES ASSUME Init PROVE PipeInv /\ StreamInv
    OBVIOUS
  <2>1. ChunksFit /\ NewPipe
    BY EngineAssumption DEF Init, ChunksFit, NewPipe
  <2>2. IdlePipe /\ OwnPipe /\ Streams
    BY EngineAssumption DEF Init, IdlePipe, OwnPipe, Streams, Awaiting, Threads
  <2>3. OwnStream
    BY DEF Init, OwnStream
  <2> QED
    BY <2>1, <2>2, <2>3 DEF PipeInv, StreamInv
<1> QED
  BY <1>1, InitControl, ControlStep, PipeStep, StreamStep, PTL DEF Spec

\* What a call consumes is its own reply, in order and, when it ends as
\* "done", whole, whatever earlier calls abandoned, timed out or left behind in
\* a worker that was killed half way through.
THEOREM EachHearsItsOwn == Spec => []OwnStream
<1>1. StreamInv => OwnStream
  BY DEF StreamInv
<1> QED
  BY <1>1, PipeInvariant, PTL

-----------------------------------------------------------------------------
(***************************************************************************)
(* The contract.  A call is served from the moment it takes the generation *)
(* lock to the moment it gives it back: every step of the threads, the     *)
(* pipe and the worker is a step of EngineContract or is invisible to it.  *)
(***************************************************************************)
Serving == [c \in Calls |-> ServedPhase(c)]

LEMMA PhasesOfPlaces ==
  ASSUME TypeInv, NEW c \in Calls
  PROVE  /\ Serving[c] = "outside" <=> pc[c] = "idle"
         /\ Serving[c] = "queued" <=> pc[c] = "lock"
         /\ Serving[c] = "served" <=> pc[c] \in InsideLabels
         /\ Serving[c] = "over" <=> pc[c] = "end"
         /\ Serving[c] \in {"outside", "queued", "served", "over"}
<1>1. pc[c] \in CallLabels
  BY DEF TypeInv, TypeOK, ThreadTypes
<1> QED
  BY <1>1 DEF Serving, ServedPhase, InsideLabels, CallLabels

\* A call that moves alone changes its own phase alone.
LEMMA PhaseMoves ==
  ASSUME TypeInv, NEW c \in Calls, \A d \in Calls \ {c} : pc'[d] = pc[d]
  PROVE  Serving' = [Serving EXCEPT ![c] = ServedPhase(c)']
<1>1. \A d \in Calls \ {c} : ServedPhase(d)' = ServedPhase(d)
  BY DEF ServedPhase
<1>2. Serving' = [d \in Calls |-> ServedPhase(d)']
  BY DEF Serving
<1> QED
  BY <1>1, <1>2 DEF Serving

LEMMA SamePhases ==
  ASSUME \A c \in Calls : pc'[c] = pc[c]
  PROVE  Serving' = Serving
<1>1. \A d \in Calls : ServedPhase(d)' = ServedPhase(d)
  BY DEF ServedPhase
<1>2. Serving' = [d \in Calls |-> ServedPhase(d)']
  BY DEF Serving
<1> QED
  BY <1>1, <1>2 DEF Serving

Visible == Contract!Next \/ UNCHANGED <<Serving, got, fate>>

LEMMA ReceiveDelivers ==
  ASSUME ControlInv, PipeInv, StreamInv, NEW c \in Calls, Receive(c)
  PROVE  Visible
<1> DEFINE m == Head(outbox[conn])
<1>0. /\ pc[c] = "poll" /\ c \in Threads /\ fate[c] = "none"
      /\ pc \in [Threads -> CallLabels \cup CloserLabels]
      /\ fate \in [Calls -> Fates]
      /\ TypeInv /\ got' = [got EXCEPT ![c] = Append(@, m)]
  BY DEF Receive, ControlInv, FateByPlace, ProcessInv, TypeInv, TypeOK, ThreadTypes,
         CallTypes, Threads
<1>1. /\ \A d \in Calls \ {c} : pc'[d] = pc[d]
      /\ pc'[c] \in {"finish", "yielded", "term"}
  BY <1>0 DEF Receive, Goto, End, Threads
<1>2. Serving[c] = "served" /\ Serving' = Serving
  <2>1. Serving[c] = "served"
    BY <1>0, PhasesOfPlaces DEF InsideLabels, CallLabels
  <2>2. ServedPhase(c)' = "served"
    BY <1>1 DEF ServedPhase
  <2> QED
    BY <1>0, <1>1, <2>1, <2>2, PhaseMoves DEF Serving
<1>3. CASE /\ m = Chunk(c, Len(got[c]) + 1)
           /\ c \notin Prewarms /\ Len(got[c]) + 1 <= MaxChunks
  <2>1. fate' = fate
    BY <1>3 DEF Receive, Goto, End, Chunk
  <2>2. Len(got[c]) < MaxChunks
    BY <1>0, <1>3, EngineAssumption DEF TypeInv, TypeOK, CallTypes
  <2>3. Contract!DeliverChunk(c)
    BY <1>0, <1>2, <1>3, <2>1, <2>2
       DEF Contract!DeliverChunk, Contract!Reply, Chunk, Serving
  <2> QED
    BY <2>3 DEF Visible, Contract!Next
<1>4. CASE m = Done(c)
  <2>1. fate' = [fate EXCEPT ![c] = "done"]
    BY <1>4 DEF Receive, Goto, End, Done
  <2>2. Contract!DeliverEnd(c)
    BY <1>0, <1>2, <1>4, <2>1 DEF Contract!DeliverEnd, Contract!Reply, Done, Serving
  <2> QED
    BY <2>2 DEF Visible, Contract!Next
<1>5. CASE m = Failure(c)
  <2>1. fate' = [fate EXCEPT ![c] = "error"]
    BY <1>5 DEF Receive, Goto, End, Failure
  <2>2. Contract!DeliverEnd(c)
    BY <1>0, <1>2, <1>5, <2>1 DEF Contract!DeliverEnd, Contract!Reply, Failure, Serving
  <2> QED
    BY <2>2 DEF Visible, Contract!Next
<1> QED
  BY <1>3, <1>4, <1>5, ReceivedOwn

\* A call joins the queue, is served, gives up, leaves; or it fails.
LEMMA CallVisible ==
  ASSUME ControlInv, PipeInv, StreamInv, NEW c \in Calls,
         CallProgress(c) \/ Consume(c) \/ Enter(c)
  PROVE  Visible
<1>0. /\ TypeInv /\ c \in Threads /\ fate \in [Calls -> Fates]
      /\ pc \in [Threads -> CallLabels \cup CloserLabels]
  BY DEF ControlInv, ProcessInv, TypeInv, TypeOK, ThreadTypes, CallTypes, Threads
<1>1. CASE Receive(c)
  BY <1>1, ReceiveDelivers
<1>2. CASE ~Receive(c)
  <2>1. got' = got /\ \A d \in Calls \ {c} : pc'[d] = pc[d]
    BY <1>0, <1>2, OnlyReceiveDelivers, CallMoves DEF CallMove, Moves, Threads
  <2>2. Serving' = [Serving EXCEPT ![c] = ServedPhase(c)']
    BY <1>0, <2>1, PhaseMoves
  <2>3. CASE Enter(c)
    <3>1. pc[c] = "idle" /\ pc'[c] = "lock" /\ fate' = fate
      BY <1>0, <2>3 DEF Enter, Goto, callVars
    <3>2. Serving[c] = "outside" /\ Serving' = [Serving EXCEPT ![c] = "queued"]
      BY <1>0, <2>2, <3>1, PhasesOfPlaces DEF ServedPhase
    <3>3. Contract!Queue(c)
      BY <2>1, <3>1, <3>2 DEF Contract!Queue, Serving
    <3> QED
      BY <3>3 DEF Visible, Contract!Next
  <2>4. CASE AcquireLock(c) \/ AcquireLate(c)
    <3>1. /\ pc[c] = "lock" /\ pc'[c] \in {"start", "release"} /\ lock = NoOne
          /\ \/ fate' = fate
             \/ c \notin Prewarms /\ fate' = [fate EXCEPT ![c] = "timeout"]
      BY <1>0, <2>4 DEF AcquireLock, AcquireLate, Goto, End, callVars
    <3>2. Serving[c] = "queued" /\ Serving' = [Serving EXCEPT ![c] = "served"]
      BY <1>0, <2>2, <3>1, PhasesOfPlaces DEF ServedPhase
    <3>3. \A d \in Calls : Serving[d] # "served"
      BY <1>0, <3>1, PhasesOfPlaces, EngineAssumption DEF ControlInv, LocksHeld
    <3>4. Contract!Serve(c)
      BY <2>1, <3>1, <3>2, <3>3 DEF Contract!Serve, Serving
    <3> QED
      BY <3>4 DEF Visible, Contract!Next
  <2>5. CASE QueueTimeout(c)
    <3>1. /\ pc[c] = "lock" /\ pc'[c] = "end" /\ c \notin Prewarms
          /\ fate' = [fate EXCEPT ![c] = "timeout"]
      BY <1>0, <2>5 DEF QueueTimeout, End, Goto
    <3>2. Serving[c] = "queued" /\ Serving' = [Serving EXCEPT ![c] = "over"]
      BY <1>0, <2>2, <3>1, PhasesOfPlaces DEF ServedPhase
    <3>3. Contract!GiveUp(c)
      BY <2>1, <3>1, <3>2 DEF Contract!GiveUp, Serving
    <3> QED
      BY <3>3 DEF Visible, Contract!Next
  <2>6. CASE ReleaseLock(c)
    <3>1. pc[c] = "release" /\ pc'[c] = "end" /\ fate' = fate /\ fate[c] # "none"
      BY <1>0, <2>6 DEF ReleaseLock, Goto, callVars, ControlInv, FateByPlace
    <3>2. Serving[c] = "served" /\ Serving' = [Serving EXCEPT ![c] = "over"]
      BY <1>0, <2>2, <3>1, PhasesOfPlaces DEF ServedPhase, InsideLabels, CallLabels
    <3>3. Contract!Leave(c)
      BY <2>1, <3>1, <3>2 DEF Contract!Leave, Serving
    <3> QED
      BY <3>3 DEF Visible, Contract!Next
  <2>7. CASE ~(\/ Enter(c) \/ AcquireLock(c) \/ AcquireLate(c) \/ QueueTimeout(c)
               \/ ReleaseLock(c))
    <3>1. /\ pc[c] \in InsideLabels /\ pc'[c] \in InsideLabels
          /\ \/ fate' = fate
             \/ /\ fate[c] = "none"
                /\ \E why \in {"error", "timeout", "cancelled"} :
                      fate' = [fate EXCEPT ![c] = why]
             \/ fate[c] = "timeout" /\ fate' = [fate EXCEPT ![c] = "error"]
      <4> USE <1>0 DEF Goto, End, callVars, InsideLabels, CallLabels, ControlInv, FateByPlace
      <4>1. CASE Consume(c)
        BY <4>1 DEF Consume, Resume, Abandon
      <4>2. CASE StartClosed(c) \/ StartKeeps(c) \/ StartSpawns(c) \/ SpawnFails(c)
        BY <4>2 DEF StartClosed, StartKeeps, StartSpawns, SpawnFails, Replace
      <4>3. CASE Send(c) \/ SendBroken(c) \/ SendNoPipe(c) \/ Terminate(c)
        BY <4>3 DEF Send, SendBroken, SendNoPipe, Terminate, BeginTeardown
      <4>4. CASE ReadRef(c) \/ ReadRefClosed(c) \/ PollTimeout(c) \/ PollBroken(c)
        BY <4>4 DEF ReadRef, ReadRefClosed, PollTimeout, PollBroken
      <4>5. CASE SetReady(c) \/ FinishTerminate(c)
        BY <4>5 DEF SetReady, FinishTerminate
      <4>6. CASE TerminateRaises(c)
        BY <4>6 DEF TerminateRaises
      <4> QED
        BY <1>2, <2>7, <4>1, <4>2, <4>3, <4>4, <4>5, <4>6 DEF CallProgress
    <3>2. Serving[c] = "served" /\ Serving' = Serving
      <4>1. Serving[c] = "served"
        BY <1>0, <3>1, PhasesOfPlaces
      <4>2. ServedPhase(c)' = "served"
        BY <3>1 DEF ServedPhase, InsideLabels, CallLabels
      <4> QED
        BY <2>2, <4>1, <4>2 DEF Serving
    <3>3. CASE fate' = fate
      BY <2>1, <3>2, <3>3 DEF Visible
    <3>4. CASE fate' # fate
      <4>1. Contract!Fail(c)
        BY <2>1, <3>1, <3>2, <3>4 DEF Contract!Fail, Serving
      <4> QED
        BY <4>1 DEF Visible, Contract!Next
    <3> QED
      BY <3>3, <3>4
  <2> QED
    BY <2>3, <2>4, <2>5, <2>6, <2>7
<1> QED
  BY <1>1, <1>2

LEMMA ContractInit == Init => Contract!Init
<1> SUFFICES ASSUME Init PROVE Contract!Init
  OBVIOUS
<1>1. \A c \in Calls : pc[c] = "idle"
  BY EngineAssumption DEF Init, Threads
<1>2. [c \in Calls |-> ServedPhase(c)] = [c \in Calls |-> "outside"]
  BY <1>1 DEF ServedPhase
<1> QED
  BY <1>2 DEF Init, Contract!Init

LEMMA ContractStep ==
  ControlInv /\ PipeInv /\ StreamInv /\ [Next]_vars => [Contract!Next]_(Contract!contractVars)
<1> SUFFICES ASSUME ControlInv, PipeInv, StreamInv, [Next]_vars PROVE Visible
  BY DEF Visible, Contract!contractVars, Serving
<1>1. ASSUME NEW w \in Workers, WorkerStep(w) PROVE Visible
  <2>1. got' = got
    BY <1>1 DEF WorkerStep, WorkerBoot, WorkerTakes, WorkerChunk, WorkerDone,
                WorkerError, WorkerHangsUp, WorkerCrash, WorkerSticks,
                WorkerUnsticks, callVars
  <2>2. UNCHANGED <<pc, fate>>
    BY <1>1, WorkerFrame
  <2> QED
    BY <2>1, <2>2, SamePhases DEF Visible
<1>2. ASSUME CallAbort \/ CallClose \/ AbortProgress \/ CloseProgress PROVE Visible
  <2>1. got' = got
    BY <1>2 DEF CallAbort, CallClose, AbortProgress, CloseProgress, Abort, FinishAbort,
                CloseLocks, CloseSends, CloseTerminates, FinishClose, callVars
  <2>2. fate' = fate /\ \A c \in Calls : pc'[c] = pc[c]
    BY <1>2, CloserFrame, CloserCalled, EngineAssumption
       DEF ControlInv, ProcessInv, TypeInv, TypeOK, ThreadTypes, Threads
  <2> QED
    BY <2>1, <2>2, SamePhases DEF Visible
<1>3. CASE UNCHANGED vars
  BY <1>3, SamePhases DEF vars, callVars, Visible
<1> QED
  BY <1>1, <1>2, <1>3, CallVisible DEF Next, EngineStep, Finished

\* The processes, pipes and locks of ProcessCompletionEngine implement the
\* serial service its callers are promised: one call served at a time, each
\* hearing its own reply from the first chunk on, "done" only at its end.
THEOREM EngineKeepsContract == Spec => ImplementsContract
BY ContractInit, PipeInvariant, ContractStep, PTL
   DEF Spec, ImplementsContract, Contract!Spec
=============================================================================
