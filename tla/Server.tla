------------------------------- MODULE Server -------------------------------
(***************************************************************************)
(* The API server as a whole (npu_llm/api_server.py): Admission decides    *)
(* which handlers may generate and when the engine is released, and        *)
(* WorkerEngine runs their calls.  An admitted handler runs the choices of *)
(* its request one after the other, each a call of generate().             *)
(***************************************************************************)
EXTENDS AdmissionParameters, EngineParameters

CONSTANT Choices   \* [Handlers -> Seq(Calls)]: the calls of a request with n choices

ASSUME ServerAssumption ==
    /\ Choices \in [Handlers -> Seq(Calls \ Prewarms)]
    /\ \A h, g \in Handlers :
          \A i \in 1..Len(Choices[h]), j \in 1..Len(Choices[g]) :
             Choices[h][i] = Choices[g][j] => h = g /\ i = j

VARIABLES
    hpc, slots, active, draining, main,                     \* Admission
    pc, lock, life, closed, ready, restarts, proc, conn,    \* WorkerEngine
    ref, fate, got, wstate, job, made, inbox, outbox, warm

Gate == INSTANCE Admission
Engine == INSTANCE WorkerEngine

admissionVars == <<hpc, slots, active, draining, main>>
engineVars == <<pc, lock, life, closed, ready, restarts, proc, conn,
                ref, fate, got, wstate, job, made, inbox, outbox, warm>>
vars == <<admissionVars, engineVars>>

Init == Gate!Init /\ Engine!Init

-----------------------------------------------------------------------------
\* main() prewarms before serve(); a failed prewarm ends the program there.
Prewarmed == \A c \in Prewarms : pc[c] = "end" /\ fate[c] = "done"

Prewarm ==
    /\ \E c \in Prewarms : Engine!Enter(c)
    /\ UNCHANGED admissionVars

CallsOf(h) == {Choices[h][i] : i \in 1..Len(Choices[h])}
InCall(h) == \E c \in CallsOf(h) : pc[c] \notin {"idle", "end"}

\* for i in range(n): the i-th choice starts when the one before succeeded.
StartChoice(h) ==
    /\ hpc[h] = "admitted"
    /\ ~InCall(h)
    /\ \E i \in 1..Len(Choices[h]) :
          /\ \A j \in 1..(i - 1) : fate[Choices[h][j]] = "done"
          /\ Engine!Enter(Choices[h][i])
    /\ UNCHANGED admissionVars

\* All choices made, one of them failed, the deadline or the client is gone.
LeaveServer(h) ==
    /\ ~InCall(h)
    /\ Gate!Leave(h)
    /\ UNCHANGED engineVars

AdmissionStep(h) ==
    /\ Prewarmed
    /\ Gate!Connect(h) \/ Gate!HandlerStep(h)
    /\ UNCHANGED engineVars

ServeStep ==
    /\ Prewarmed
    /\ Gate!RequestShutdown \/ Gate!MainStep
    /\ UNCHANGED engineVars

EngineRuns ==
    /\ Engine!EngineStep
    /\ UNCHANGED admissionVars

\* Slip: the engine is closed whether or not the drain succeeded.
ReleaseEngineByClose ==
    /\ main \in {"close", "abort"}
    /\ Engine!CallClose
    /\ UNCHANGED admissionVars

\* serve() closes a drained engine and aborts one whose drain expired.
ReleaseEngine ==
    /\ \/ main = "close" /\ Engine!CallClose
       \/ main = "abort" /\ Engine!CallAbort
    /\ UNCHANGED admissionVars

EngineReleased ==
    /\ pc[Closer] \in {"aborted", "shut"}
    /\ Gate!EngineReleased
    /\ UNCHANGED engineVars

\* The server was shut down, or its prewarm failed.
Over ==
    /\ \/ main \in {"closed", "aborted"}
       \/ \E c \in Prewarms : pc[c] = "end" /\ fate[c] # "done"
    /\ UNCHANGED vars

Next ==
    \/ Prewarm
    \/ \E h \in Handlers : AdmissionStep(h) \/ StartChoice(h) \/ LeaveServer(h)
    \/ ServeStep \/ ReleaseEngine \/ EngineReleased
    \/ EngineRuns
    \/ Over

Spec == Init /\ [][Next]_vars

-----------------------------------------------------------------------------
\* When serve() has returned, by either road, the worker and its NPU context
\* are gone (or SIGKILL is pending), and no request brings up another one:
\* the engine alone promises this for abort() only, because close() leaves
\* _closed unset and relies on the tracker to keep callers out.
NoWorkerAfterServe ==
    main \in {"closed", "aborted"} =>
        \A w \in Calls : Engine!Alive(w) => wstate[w] = "doomed"

\* engine.close() is called on an idle engine, as its docstring asks: no call
\* holds or waits for the generation lock that close() takes.
CloseFindsIdle ==
    main \in {"close", "closed"} =>
        /\ lock \in {NoOne, Closer}
        /\ \A c \in Calls : pc[c] \in {"idle", "end"}

\* Slots and the tracker's count stay exact while the engine decides how and
\* when the requests that hold them end (Admission!AccountsExact).
AccountsExact == Gate!AccountsExact

\* serve() sleeps in tracker.wait() only while an admitted request is left to
\* notify it, whatever its generation does (Admission!NoLostWakeup).
NoLostWakeup == Gate!NoLostWakeup

\* From the moment shutdown begins the admitted requests only become fewer,
\* and draining is never taken back (Admission!DrainIsFinal).
DrainIsFinal ==
    [][draining => draining' /\ Gate!Admitted' \subseteq Gate!Admitted]_admissionVars

\* Fairness: as in the two components, but the consumers of a stream may
\* never come back from a yield and admitted requests may never leave.
DeafSpec ==
    /\ Spec
    /\ \A c \in Calls : WF_vars(EngineRuns /\ Engine!CallProgress(c))
    /\ \A w \in Calls : WF_vars(EngineRuns /\ Engine!WorkerBoot(w))
    /\ WF_vars(EngineRuns /\ (Engine!AbortProgress \/ Engine!CloseProgress))
    /\ WF_vars(main # "serving" /\ ServeStep)
    /\ WF_vars(ReleaseEngine)
    /\ WF_vars(EngineReleased)

\* After SIGTERM serve() returns, with or without the cooperation of clients.
ServeReturns == draining ~> main \in {"closed", "aborted"}
=============================================================================
