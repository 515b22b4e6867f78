---------------------------- MODULE WorkerEngine ----------------------------
(***************************************************************************)
(* ProcessCompletionEngine (npu_llm/api_server.py): the parent side of the *)
(* killable inference worker.  HTTP threads call generate(), main() calls  *)
(* prewarm_default() and then close() or abort().  They share one worker   *)
(* process and one duplex pipe, a generation lock (_lock, held across      *)
(* yields) and a lifecycle lock (_lifecycle_lock, held while a worker is   *)
(* created, spoken to first, or disposed of).                              *)
(*                                                                         *)
(* One element of Calls is one call of generate() or prewarm_default().  A *)
(* call creates at most one worker process (_start_locked is reached once  *)
(* per call), so a worker is named by the call that created it.            *)
(***************************************************************************)
EXTENDS EngineParameters

Workers == Calls
Threads == Calls \cup {Closer}

VARIABLES
    pc,        \* [Threads -> label]: where each thread is
    lock,      \* _lock: its holder, or NoOne
    life,      \* _lifecycle_lock: its holder, or NoOne
    closed,    \* _closed
    ready,     \* _ready
    restarts,  \* worker_restarts
    proc,      \* _process: a worker, or NoOne
    conn,      \* _connection: the worker at the other end, or NoOne
    ref,       \* [Calls -> worker]: the local `connection` of _receive
    fate,      \* [Calls -> outcome]: how the call ended
    got,       \* [Calls -> Seq(Message)]: the replies the call has consumed
    wstate,    \* [Workers -> state of the process]
    job,       \* [Workers -> call it is working for, or NoOne]
    made,      \* [Workers -> chunks it has sent for that job]
    inbox,     \* [Workers -> Seq(command)]: sent to it and not yet read
    outbox,    \* [Workers -> Seq(Message)]: sent by it and not yet read
    warm       \* workers that have finished a command: model loaded and run

callVars   == <<ref, fate, got>>
engineVars == <<closed, ready, restarts, proc, conn>>
workerVars == <<wstate, job, made, inbox, outbox, warm>>
vars == <<pc, lock, life, callVars, engineVars, workerVars>>

CallLabels == {"idle", "lock", "start", "send", "recv", "poll", "yielded",
               "finish", "term", "kill", "release", "end"}
CloserLabels == {"open", "abort", "abortKill", "closeLock", "closeSend",
                 "closeTerm", "closeKill", "aborted", "shut"}
Fates == {"none", "done", "timeout", "error", "cancelled"}
WorkerStates == {"unborn", "boot", "idle", "busy", "stuck", "doomed", "dead"}

\* A reply of the worker: the n-th chunk of a call, its "done", or an "error".
Chunk(c, n) == [for |-> c, kind |-> "chunk", n |-> n]
Done(c)     == [for |-> c, kind |-> "done", n |-> 0]
Failure(c)  == [for |-> c, kind |-> "error", n |-> 0]
Message == [for : Calls, kind : {"chunk", "done", "error"}, n : Nat]

\* process.is_alive(); "doomed" has a SIGKILL pending it cannot take yet.
Alive(w) == wstate[w] \in {"boot", "idle", "busy", "stuck", "doomed"}
Born == {w \in Workers : wstate[w] # "unborn"}

\* The `ready` property: what a readiness probe is told.
ReadyProbe == ~closed /\ ready /\ proc # NoOne /\ Alive(proc)

Init ==
    /\ pc = [t \in Threads |-> IF t = Closer THEN "open" ELSE "idle"]
    /\ lock = NoOne /\ life = NoOne
    /\ closed = FALSE /\ ready = FALSE /\ restarts = 0
    /\ proc = NoOne /\ conn = NoOne
    /\ ref = [c \in Calls |-> NoOne]
    /\ fate = [c \in Calls |-> "none"]
    /\ got = [c \in Calls |-> <<>>]
    /\ wstate = [w \in Workers |-> "unborn"]
    /\ job = [w \in Workers |-> NoOne]
    /\ made = [w \in Workers |-> 0]
    /\ inbox = [w \in Workers |-> <<>>]
    /\ outbox = [w \in Workers |-> <<>>]
    /\ warm = {}

-----------------------------------------------------------------------------
Goto(t, label) == pc' = [pc EXCEPT ![t] = label]
End(c, label, why) == Goto(c, label) /\ fate' = [fate EXCEPT ![c] = why]

(***************************************************************************)
(* _terminate_locked.  The first half clears _ready and closes this end of *)
(* the pipe, dropping what was waiting in it; the second half waits for    *)
(* the process.  The lifecycle lock is held between them.                  *)
(***************************************************************************)
ClosePipe ==
    /\ ready' = FALSE
    /\ conn' = NoOne
    /\ outbox' = [w \in Workers |-> IF w = conn THEN <<>> ELSE outbox[w]]

BeginTeardown(t, label) ==
    /\ life = NoOne
    /\ life' = t
    /\ ClosePipe
    /\ Goto(t, label)

\* terminate(), join(5), kill(), join(5), close(), _process = None
Killed(t, count) ==
    /\ life = t
    /\ life' = NoOne
    /\ proc # NoOne => wstate[proc] \notin {"stuck", "doomed"}
    /\ wstate' = [w \in Workers |-> IF w = proc THEN "dead" ELSE wstate[w]]
    /\ proc' = NoOne
    /\ restarts' = IF count THEN restarts + 1 ELSE restarts

\* Slip: _process is forgotten although the process is still there.
KillIgnoredForgets(t) ==
    /\ life = t
    /\ life' = NoOne
    /\ proc # NoOne
    /\ wstate[proc] \in {"stuck", "doomed"}
    /\ wstate' = [wstate EXCEPT ![proc] = "doomed"]
    /\ proc' = NoOne
    /\ UNCHANGED restarts

\* Neither signal ends a process blocked inside the driver: Process.close()
\* raises ValueError before _process is cleared or the restart counted.
KillIgnored(t) ==
    /\ life = t
    /\ life' = NoOne
    /\ proc # NoOne
    /\ wstate[proc] \in {"stuck", "doomed"}
    /\ wstate' = [wstate EXCEPT ![proc] = "doomed"]
    /\ UNCHANGED <<proc, restarts>>

-----------------------------------------------------------------------------
(***************************************************************************)
(* generate() and prewarm_default()                                        *)
(***************************************************************************)
Enter(c) ==
    /\ pc[c] = "idle"
    /\ Goto(c, "lock")
    /\ UNCHANGED <<lock, life, callVars, engineVars, workerVars>>

\* Slip: the generation lock is not taken.
AcquireNothing(c) ==
    /\ pc[c] = "lock"
    /\ Goto(c, "start")
    /\ UNCHANGED <<lock, life, callVars, engineVars, workerVars>>

AcquireLock(c) ==
    /\ pc[c] = "lock"
    /\ lock = NoOne
    /\ lock' = c
    /\ Goto(c, "start")
    /\ UNCHANGED <<life, callVars, engineVars, workerVars>>

\* _lock.acquire(timeout=budget) fails; prewarm_default() waits without limit.
QueueTimeout(c) ==
    /\ pc[c] = "lock"
    /\ c \notin Prewarms
    /\ End(c, "end", "timeout")
    /\ UNCHANGED <<lock, life, ref, got, engineVars, workerVars>>

\* The lock is acquired, but the deadline is found passed.
AcquireLate(c) ==
    /\ pc[c] = "lock"
    /\ c \notin Prewarms
    /\ lock = NoOne
    /\ lock' = c
    /\ End(c, "release", "timeout")
    /\ UNCHANGED <<life, ref, got, engineVars, workerVars>>

\* _send_command takes the lifecycle lock and _start() raises: permanently closed.
StartClosed(c) ==
    /\ pc[c] = "start"
    /\ life = NoOne
    /\ closed
    /\ End(c, "release", "error")
    /\ UNCHANGED <<lock, life, ref, got, engineVars, workerVars>>

\* _start_locked finds its process alive and keeps it, whatever _connection is.
StartKeeps(c) ==
    /\ pc[c] = "start"
    /\ life = NoOne
    /\ ~closed
    /\ proc # NoOne /\ Alive(proc)
    /\ life' = c
    /\ Goto(c, "send")
    /\ UNCHANGED <<lock, callVars, engineVars, workerVars>>

\* Slips in _start_locked: readiness is not withdrawn; the restart is not
\* counted.
ReplaceStaysReady(c) ==
    /\ pc[c] = "start"
    /\ life = NoOne
    /\ ~closed
    /\ proc # NoOne => ~Alive(proc)
    /\ restarts' = IF proc # NoOne THEN restarts + 1 ELSE restarts
    /\ proc' = c
    /\ UNCHANGED ready
    /\ outbox' = [w \in Workers |-> IF w = conn THEN <<>> ELSE outbox[w]]

ReplaceUncounted(c) ==
    /\ pc[c] = "start"
    /\ life = NoOne
    /\ ~closed
    /\ proc # NoOne => ~Alive(proc)
    /\ UNCHANGED restarts
    /\ proc' = c
    /\ ready' = FALSE
    /\ outbox' = [w \in Workers |-> IF w = conn THEN <<>> ELSE outbox[w]]

\* _start_locked disposes of a dead process, counting a restart, then spawns.
Replace(c) ==
    /\ pc[c] = "start"
    /\ life = NoOne
    /\ ~closed
    /\ proc # NoOne => ~Alive(proc)
    /\ restarts' = IF proc # NoOne THEN restarts + 1 ELSE restarts
    /\ proc' = c
    /\ ready' = FALSE
    /\ outbox' = [w \in Workers |-> IF w = conn THEN <<>> ELSE outbox[w]]

StartSpawns(c) ==
    /\ Replace(c)
    /\ conn' = c
    /\ wstate' = [wstate EXCEPT ![c] = "boot"]
    /\ life' = c
    /\ Goto(c, "send")
    /\ UNCHANGED <<lock, callVars, closed, job, made, inbox, warm>>

\* Process.start() raises after _process was assigned and before _connection.
SpawnFails(c) ==
    /\ Replace(c)
    /\ conn' = NoOne
    /\ wstate' = [wstate EXCEPT ![c] = "dead"]
    /\ End(c, "release", "error")
    /\ UNCHANGED <<lock, life, ref, got, closed, job, made, inbox, warm>>

\* connection.send(command): a large command needs a worker that is reading.
Send(c) ==
    /\ pc[c] = "send"
    /\ conn # NoOne
    /\ Alive(conn)
    /\ c \in LargeCalls => wstate[conn] = "idle"
    /\ inbox' = [inbox EXCEPT ![conn] = Append(@, c)]
    /\ life' = NoOne
    /\ Goto(c, "recv")
    /\ UNCHANGED <<lock, callVars, engineVars, wstate, job, made, outbox, warm>>

\* BrokenPipeError: _terminate_locked runs under the lock already held.
SendBroken(c) ==
    /\ pc[c] = "send"
    /\ conn # NoOne
    /\ ~Alive(conn)
    /\ ClosePipe
    /\ End(c, "kill", "error")
    /\ UNCHANGED <<lock, life, ref, got, closed, restarts, proc,
                   wstate, job, made, inbox, warm>>

\* A worker that outlived its kill has no pipe: None.send raises AttributeError.
SendNoPipe(c) ==
    /\ pc[c] = "send"
    /\ conn = NoOne
    /\ life' = NoOne
    /\ End(c, "release", "error")
    /\ UNCHANGED <<lock, ref, got, engineVars, workerVars>>

\* _receive takes its own reference to the pipe, without the lifecycle lock.
ReadRef(c) ==
    /\ pc[c] = "recv"
    /\ conn # NoOne
    /\ ref' = [ref EXCEPT ![c] = conn]
    /\ Goto(c, "poll")
    /\ UNCHANGED <<lock, life, fate, got, engineVars, workerVars>>

ReadRefClosed(c) ==
    /\ pc[c] = "recv"
    /\ conn = NoOne
    /\ End(c, "release", "error")
    /\ UNCHANGED <<lock, life, ref, got, engineVars, workerVars>>

\* connection.recv() on a pipe that is still open and holds a reply
Receive(c) ==
    /\ pc[c] = "poll"
    /\ conn = ref[c]
    /\ outbox[conn] # <<>>
    /\ got' = [got EXCEPT ![c] = Append(@, Head(outbox[conn]))]
    /\ outbox' = [outbox EXCEPT ![conn] = Tail(@)]
    /\ LET kind == Head(outbox[conn]).kind
       IN \/ /\ kind = "done"
             /\ End(c, "finish", "done")
          \/ /\ kind = "chunk" /\ c \notin Prewarms
             /\ Goto(c, "yielded")
             /\ UNCHANGED fate
          \/ /\ kind # "done"
             /\ kind = "chunk" => c \in Prewarms
             /\ End(c, "term", "error")
    /\ UNCHANGED <<lock, life, ref, engineVars,
                   wstate, job, made, inbox, warm>>

\* self._ready = True, without the lifecycle lock
SetReady(c) ==
    /\ pc[c] = "finish"
    /\ ready' = TRUE
    /\ Goto(c, "release")
    /\ UNCHANGED <<lock, life, callVars, closed, restarts, proc, conn, workerVars>>

\* The deadline passes first.
PollTimeout(c) ==
    /\ pc[c] = "poll"
    /\ End(c, "term", "timeout")
    /\ UNCHANGED <<lock, life, ref, got, engineVars, workerVars>>

\* EOFError once a dead worker's replies are drained, OSError on a closed pipe
PollBroken(c) ==
    /\ pc[c] = "poll"
    /\ conn = ref[c] => (~Alive(conn) /\ outbox[conn] = <<>>)
    /\ End(c, "term", "error")
    /\ UNCHANGED <<lock, life, ref, got, engineVars, workerVars>>

Resume(c) ==
    /\ pc[c] = "yielded"
    /\ Goto(c, "recv")
    /\ UNCHANGED <<lock, life, callVars, engineVars, workerVars>>

\* Slip: GeneratorExit is let through without disposing of the worker.
AbandonKeepsWorker(c) ==
    /\ pc[c] = "yielded"
    /\ End(c, "release", "cancelled")
    /\ UNCHANGED <<lock, life, ref, got, engineVars, workerVars>>

\* The consumer closes the generator: GeneratorExit at the yield.
Abandon(c) ==
    /\ pc[c] = "yielded"
    /\ End(c, "term", "cancelled")
    /\ UNCHANGED <<lock, life, ref, got, engineVars, workerVars>>

Terminate(c) ==
    /\ pc[c] = "term"
    /\ BeginTeardown(c, "kill")
    /\ UNCHANGED <<lock, callVars, closed, restarts, proc,
                   wstate, job, made, inbox, warm>>

\* Slip: _terminate counts a restart after the engine was closed.
FinishTerminateCounts(c) ==
    /\ pc[c] = "kill"
    /\ Killed(c, TRUE)
    /\ Goto(c, "release")
    /\ UNCHANGED <<lock, callVars, closed, ready, conn,
                   job, made, inbox, outbox, warm>>

FinishTerminate(c) ==
    /\ pc[c] = "kill"
    /\ Killed(c, ~closed)
    /\ Goto(c, "release")
    /\ UNCHANGED <<lock, callVars, closed, ready, conn,
                   job, made, inbox, outbox, warm>>

\* Slip: the disposal of a timed-out worker is retried until it succeeds.
TerminateRetriesForever(c) ==
    /\ pc[c] = "kill"
    /\ KillIgnored(c)
    /\ IF fate[c] = "timeout" THEN Goto(c, "term") /\ UNCHANGED fate
                              ELSE Goto(c, "release") /\ UNCHANGED fate
    /\ UNCHANGED <<lock, ref, got, closed, ready, conn,
                   job, made, inbox, outbox, warm>>

\* _receive catches ValueError around the timeout's _terminate() and calls it
\* once more; from every other caller it propagates.
TerminateRaises(c) ==
    /\ pc[c] = "kill"
    /\ KillIgnored(c)
    /\ IF fate[c] = "timeout" THEN End(c, "term", "error")
                              ELSE Goto(c, "release") /\ UNCHANGED fate
    /\ UNCHANGED <<lock, ref, got, closed, ready, conn,
                   job, made, inbox, outbox, warm>>

\* finally: self._lock.release()
ReleaseLock(c) ==
    /\ pc[c] = "release"
    /\ lock' = NoOne
    /\ Goto(c, "end")
    /\ UNCHANGED <<life, callVars, engineVars, workerVars>>

-----------------------------------------------------------------------------
(***************************************************************************)
(* _worker_loop                                                            *)
(***************************************************************************)
Become(w, state) == wstate' = [wstate EXCEPT ![w] = state]

WorkerBoot(w) ==
    /\ wstate[w] = "boot"
    /\ Become(w, "idle")
    /\ UNCHANGED <<pc, lock, life, callVars, engineVars,
                   job, made, inbox, outbox, warm>>

WorkerTakes(w) ==
    /\ wstate[w] = "idle"
    /\ inbox[w] # <<>>
    /\ inbox' = [inbox EXCEPT ![w] = Tail(@)]
    /\ IF Head(inbox[w]) = Closer
       THEN Become(w, "dead") /\ UNCHANGED <<job, made>>
       ELSE /\ Become(w, "busy")
            /\ job' = [job EXCEPT ![w] = Head(inbox[w])]
            /\ made' = [made EXCEPT ![w] = 0]
    /\ UNCHANGED <<pc, lock, life, callVars, engineVars, outbox, warm>>

Reply(w, m) ==
    /\ wstate[w] = "busy"
    /\ conn = w
    /\ outbox' = [outbox EXCEPT ![w] = Append(@, m)]

WorkerChunk(w) ==
    /\ job[w] \notin Prewarms
    /\ made[w] < MaxChunks
    /\ Reply(w, Chunk(job[w], made[w] + 1))
    /\ made' = [made EXCEPT ![w] = @ + 1]
    /\ UNCHANGED <<pc, lock, life, callVars, engineVars,
                   wstate, job, inbox, warm>>

WorkerDone(w) ==
    /\ Reply(w, Done(job[w]))
    /\ Become(w, "idle")
    /\ job' = [job EXCEPT ![w] = NoOne]
    /\ warm' = warm \cup {w}
    /\ UNCHANGED <<pc, lock, life, callVars, engineVars, made, inbox>>

\* Any exception of the model; the loop itself goes on.
WorkerError(w) ==
    /\ Reply(w, Failure(job[w]))
    /\ Become(w, "idle")
    /\ job' = [job EXCEPT ![w] = NoOne]
    /\ UNCHANGED <<pc, lock, life, callVars, engineVars, made, inbox, warm>>

\* The other end is closed: EOFError in recv, BrokenPipeError in send.
WorkerHangsUp(w) ==
    /\ conn # w
    /\ \/ wstate[w] = "idle" /\ inbox[w] = <<>>
       \/ wstate[w] = "busy"
    /\ Become(w, "dead")
    /\ UNCHANGED <<pc, lock, life, callVars, engineVars,
                   job, made, inbox, outbox, warm>>

WorkerCrash(w) ==
    /\ Alive(w)
    /\ Become(w, "dead")
    /\ UNCHANGED <<pc, lock, life, callVars, engineVars,
                   job, made, inbox, outbox, warm>>

\* The worker blocks uninterruptibly in the NPU driver, and comes back.
WorkerSticks(w) ==
    /\ wstate[w] = "busy"
    /\ Become(w, "stuck")
    /\ UNCHANGED <<pc, lock, life, callVars, engineVars,
                   job, made, inbox, outbox, warm>>

WorkerUnsticks(w) ==
    /\ wstate[w] = "stuck"
    /\ Become(w, "busy")
    /\ UNCHANGED <<pc, lock, life, callVars, engineVars,
                   job, made, inbox, outbox, warm>>

-----------------------------------------------------------------------------
(***************************************************************************)
(* abort() and close(), called once by the thread that ran serve()         *)
(***************************************************************************)
CallAbort ==
    /\ pc[Closer] = "open"
    /\ Goto(Closer, "abort")
    /\ UNCHANGED <<lock, life, callVars, engineVars, workerVars>>

\* Slips: abort() does not close the engine for good; abort() waits for the
\* generation lock as close() does.
AbortStaysOpen ==
    /\ pc[Closer] = "abort"
    /\ BeginTeardown(Closer, "abortKill")
    /\ UNCHANGED <<lock, callVars, closed, restarts, proc,
                   wstate, job, made, inbox, warm>>

AbortWaitsForLock ==
    /\ pc[Closer] = "abort"
    /\ lock = NoOne
    /\ BeginTeardown(Closer, "abortKill")
    /\ closed' = TRUE
    /\ UNCHANGED <<lock, callVars, restarts, proc,
                   wstate, job, made, inbox, warm>>

Abort ==
    /\ pc[Closer] = "abort"
    /\ BeginTeardown(Closer, "abortKill")
    /\ closed' = TRUE
    /\ UNCHANGED <<lock, callVars, restarts, proc,
                   wstate, job, made, inbox, warm>>

FinishAbort ==
    /\ pc[Closer] = "abortKill"
    /\ Killed(Closer, FALSE) \/ KillIgnored(Closer)
    /\ Goto(Closer, "aborted")
    /\ UNCHANGED <<lock, callVars, closed, ready, conn,
                   job, made, inbox, outbox, warm>>

CallClose ==
    /\ pc[Closer] = "open"
    /\ Goto(Closer, "closeLock")
    /\ UNCHANGED <<lock, life, callVars, engineVars, workerVars>>

\* with self._lock: nothing to do when there is no process
CloseLocks ==
    /\ pc[Closer] = "closeLock"
    /\ lock = NoOne
    /\ IF proc = NoOne
       THEN Goto(Closer, "shut") /\ UNCHANGED lock
       ELSE Goto(Closer, "closeSend") /\ lock' = Closer
    /\ UNCHANGED <<life, callVars, engineVars, workerVars>>

\* send({"op": "close"}); its failures are swallowed or run the same finally.
CloseSends ==
    /\ pc[Closer] = "closeSend"
    /\ inbox' = [w \in Workers |->
                    IF w = conn THEN Append(inbox[w], Closer) ELSE inbox[w]]
    /\ Goto(Closer, "closeTerm")
    /\ UNCHANGED <<lock, life, callVars, engineVars,
                   wstate, job, made, outbox, warm>>

\* join(timeout=5) returned, whether or not the worker has exited.
CloseTerminates ==
    /\ pc[Closer] = "closeTerm"
    /\ BeginTeardown(Closer, "closeKill")
    /\ UNCHANGED <<lock, callVars, closed, restarts, proc,
                   wstate, job, made, inbox, warm>>

FinishClose ==
    /\ pc[Closer] = "closeKill"
    /\ Killed(Closer, FALSE) \/ KillIgnored(Closer)
    /\ lock' = NoOne
    /\ Goto(Closer, "shut")
    /\ UNCHANGED <<callVars, closed, ready, conn,
                   job, made, inbox, outbox, warm>>

-----------------------------------------------------------------------------
\* What a call does on its own once entered, and what its consumer decides.
CallProgress(c) ==
    \/ AcquireLock(c) \/ AcquireLate(c) \/ QueueTimeout(c)
    \/ StartClosed(c) \/ StartKeeps(c) \/ StartSpawns(c) \/ SpawnFails(c)
    \/ Send(c) \/ SendBroken(c) \/ SendNoPipe(c)
    \/ ReadRef(c) \/ ReadRefClosed(c)
    \/ Receive(c) \/ SetReady(c) \/ PollTimeout(c) \/ PollBroken(c)
    \/ Terminate(c) \/ FinishTerminate(c) \/ TerminateRaises(c)
    \/ ReleaseLock(c)

Consume(c) == Resume(c) \/ Abandon(c)

WorkerStep(w) ==
    \/ WorkerBoot(w) \/ WorkerTakes(w)
    \/ WorkerChunk(w) \/ WorkerDone(w) \/ WorkerError(w)
    \/ WorkerHangsUp(w) \/ WorkerCrash(w)
    \/ WorkerSticks(w) \/ WorkerUnsticks(w)

AbortProgress == Abort \/ FinishAbort
CloseProgress == CloseLocks \/ CloseSends \/ CloseTerminates \/ FinishClose

\* Every call has returned and the engine was shut: nothing is left to do.
Finished ==
    /\ pc[Closer] \in {"aborted", "shut"}
    /\ \A c \in Calls : pc[c] = "end"
    /\ UNCHANGED vars

EngineStep ==
    \/ \E c \in Calls : CallProgress(c) \/ Consume(c)
    \/ \E w \in Workers : WorkerStep(w)
    \/ AbortProgress \/ CloseProgress

Next ==
    \/ EngineStep
    \/ \E c \in Calls : Enter(c)
    \/ CallAbort \/ CallClose
    \/ Finished

Spec == Init /\ [][Next]_vars
-----------------------------------------------------------------------------
(***************************************************************************)
(* Properties                                                              *)
(***************************************************************************)
ThreadTypes ==
    /\ pc \in [Threads -> CallLabels \cup CloserLabels]
    /\ \A c \in Calls : pc[c] \in CallLabels
    /\ pc[Closer] \in CloserLabels
    /\ lock \in Threads \cup {NoOne}
    /\ life \in Threads \cup {NoOne}

CallTypes ==
    /\ ref \in [Calls -> Workers \cup {NoOne}]
    /\ fate \in [Calls -> Fates]
    /\ got \in [Calls -> Seq(Message)]

EngineTypes ==
    /\ closed \in BOOLEAN /\ ready \in BOOLEAN /\ restarts \in Nat
    /\ proc \in Workers \cup {NoOne}
    /\ conn \in Workers \cup {NoOne}

WorkerTypes ==
    /\ wstate \in [Workers -> WorkerStates]
    /\ job \in [Workers -> Calls \cup {NoOne}]
    /\ made \in [Workers -> Nat]
    /\ inbox \in [Workers -> Seq(Threads)]
    /\ outbox \in [Workers -> Seq(Message)]
    /\ warm \in SUBSET Workers

TypeOK == ThreadTypes /\ CallTypes /\ EngineTypes /\ WorkerTypes

\* What a call consumes is its own reply, whole and in order, whatever earlier
\* calls were abandoned, timed out or killed half way through theirs
\* (GeneratorExit and deadline handling in generate() and _receive()).
OwnStream ==
    \A c \in Calls :
        /\ \A i \in 1..Len(got[c]) :
              /\ got[c][i].for = c
              /\ got[c][i].kind = "chunk" => got[c][i].n = i
        /\ fate[c] = "done" =>
              got[c] # <<>> /\ got[c][Len(got[c])] = Done(c)

\* The NPU context has one owner: no worker process lives beside _process,
\* not even one that a failed kill left behind (_terminate_locked).
SingleWorker == \A w \in Workers : Alive(w) => w = proc

\* A probe hears "ready" only from a live worker that has completed a request
\* or the prewarm, although _ready is set without the lifecycle lock.
ReadyMeansWarm == ReadyProbe => proc \in warm

\* Until the engine is shut, worker_restarts (a published metric) counts each
\* worker that was replaced or disposed of exactly once.
RestartAccounting ==
    pc[Closer] \notin {"abortKill", "aborted", "shut"} =>
        Cardinality(Born) = restarts + (IF proc = NoOne THEN 0 ELSE 1)

\* After abort() has returned no worker is left but one that has not yet taken
\* its SIGKILL, and calls that were queued cannot bring another one up.
NoWorkerAfterAbort ==
    pc[Closer] = "aborted" =>
        \A w \in Workers : Alive(w) => wstate[w] = "doomed"

\* Once abort() closed the engine nothing is spawned, teardowns finished by
\* other threads are not counted as restarts, and no probe hears "ready".
AbortIsFinal ==
    [][closed => Born' = Born /\ restarts' = restarts /\ ~ReadyProbe']_vars

\* The engine as its callers see it: a call is served while it holds _lock.
ServedPhase(c) ==
    CASE pc[c] = "idle" -> "outside"
      [] pc[c] = "lock" -> "queued"
      [] pc[c] = "end"  -> "over"
      [] OTHER -> "served"

Contract == INSTANCE EngineContract WITH
    phase   <- [c \in Calls |-> ServedPhase(c)],
    stream  <- got,
    outcome <- fate

\* The locks, the pipe and the worker protocol implement the serial service
\* of EngineContract.
ImplementsContract == Contract!Spec

\* Fairness.  A thread that can run runs, and time passes, so a wait with a
\* deadline ends; a spawned worker reaches its loop or dies.
CallsRun      == \A c \in Calls : WF_vars(CallProgress(c))
ConsumersAct  == \A c \in Calls : WF_vars(Consume(c))
WorkersBoot   == \A w \in Workers : WF_vars(WorkerBoot(w))
CloserRuns    == WF_vars(AbortProgress) /\ WF_vars(CloseProgress)

\* Consumers may never come back from a yield.
DeafConsumerSpec == Spec /\ CallsRun /\ WorkersBoot /\ CloserRuns

\* A spawned worker may hang before its first recv.
HungWorkerSpec == Spec /\ CallsRun /\ ConsumersAct /\ CloserRuns

\* No consumer stays at a yield for ever (the server's sockets have a timeout).
NobodyDeaf == \A c \in Calls : []<>(pc[c] # "yielded")

\* If every consumer takes its chunks or closes the generator, every call that
\* entered generate() or prewarm_default() returns, whatever the worker does
\* after it has started: crash, hang, or refuse to die.
CallsEnd == NobodyDeaf => \A c \in Calls : pc[c] = "lock" ~> pc[c] = "end"

\* abort() returns although the holder of the generation lock is parked at a
\* yield for ever (the abort docstring: "without waiting for its generation
\* lock").
AbortReturns == pc[Closer] = "abort" ~> pc[Closer] = "aborted"
=============================================================================
