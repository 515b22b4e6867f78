----------------------------- MODULE Admission ------------------------------
(***************************************************************************)
(* Admission and graceful drain of the HTTP server (npu_llm/api_server.py):*)
(* do_POST up to the point where generation starts and its finally clause, *)
(* InferenceTracker, the bounded semaphore of make_handler, and serve().   *)
(* One element of Handlers is one POST handled in its own thread.  What it *)
(* does while admitted is left open here; Server.tla fills it in.          *)
(***************************************************************************)
EXTENDS AdmissionParameters

VARIABLES
    hpc,        \* [Handlers -> label]
    slots,      \* value of the semaphore
    active,     \* InferenceTracker._active
    draining,   \* InferenceTracker._draining
    main        \* where the thread running serve() is

admissionVars == <<hpc, slots, active, draining, main>>

HandlerLabels == {"absent", "new", "checked", "slotted", "admitted", "left",
                  "served", "refused", "busy", "unavailable"}
MainLabels == {"serving", "stopping", "wait", "asleep", "expired",
               "close", "abort", "closed", "aborted"}

Admitted == {h \in Handlers : hpc[h] = "admitted"}
Holding  == {h \in Handlers : hpc[h] \in {"slotted", "admitted", "left"}}

Init ==
    /\ hpc = [h \in Handlers |-> "absent"]
    /\ slots = Capacity + 1
    /\ active = 0
    /\ draining = FALSE
    /\ main = "serving"

-----------------------------------------------------------------------------
At(h, label) == hpc[h] = label
Move(h, label) == hpc' = [hpc EXCEPT ![h] = label]

\* The listening socket hands the connection to a new thread.
Connect(h) ==
    /\ main \in {"serving", "stopping"}
    /\ At(h, "absent")
    /\ Move(h, "new")
    /\ UNCHANGED <<slots, active, draining, main>>

\* The early look at tracker.draining, before the body is read.
LookDraining(h) ==
    /\ At(h, "new")
    /\ IF draining THEN Move(h, "unavailable") ELSE Move(h, "checked")
    /\ UNCHANGED <<slots, active, draining, main>>

\* Not found, unauthorized, over the rate limit, or an invalid or late body.
Refuse(h) ==
    /\ hpc[h] \in {"new", "checked"}
    /\ Move(h, "refused")
    /\ UNCHANGED <<slots, active, draining, main>>

\* slots.acquire(blocking=False)
TakeSlot(h) ==
    /\ At(h, "checked")
    /\ slots > 0
    /\ slots' = slots - 1
    /\ Move(h, "slotted")
    /\ UNCHANGED <<active, draining, main>>

QueueFull(h) ==
    /\ At(h, "checked")
    /\ slots = 0
    /\ Move(h, "busy")
    /\ UNCHANGED <<slots, active, draining, main>>

\* Slip: draining is only looked at before the body is read.
TryEnterUnchecked(h) ==
    /\ At(h, "slotted")
    /\ active' = active + 1
    /\ Move(h, "admitted")
    /\ UNCHANGED <<slots, draining, main>>

\* tracker.try_enter()
TryEnter(h) ==
    /\ At(h, "slotted")
    /\ ~draining
    /\ active' = active + 1
    /\ Move(h, "admitted")
    /\ UNCHANGED <<slots, draining, main>>

\* Slip: the slot of a request refused by the tracker is not given back.
EnterRefusedKeepsSlot(h) ==
    /\ At(h, "slotted")
    /\ draining
    /\ Move(h, "unavailable")
    /\ UNCHANGED <<slots, active, draining, main>>

EnterRefused(h) ==
    /\ At(h, "slotted")
    /\ draining
    /\ slots' = slots + 1
    /\ Move(h, "unavailable")
    /\ UNCHANGED <<active, draining, main>>

\* Slip: the drain waiter is not notified.
LeaveSilently(h) ==
    /\ At(h, "admitted")
    /\ active > 0
    /\ active' = active - 1
    /\ UNCHANGED main
    /\ Move(h, "left")
    /\ UNCHANGED <<slots, draining>>

\* finally: tracker.leave(), which wakes the drain waiter when it was the last
Leave(h) ==
    /\ At(h, "admitted")
    /\ active > 0
    /\ active' = active - 1
    /\ main' = IF active' = 0 /\ main = "asleep" THEN "wait" ELSE main
    /\ Move(h, "left")
    /\ UNCHANGED <<slots, draining>>

\* finally: slots.release()
GiveSlot(h) ==
    /\ At(h, "left")
    /\ slots' = slots + 1
    /\ Move(h, "served")
    /\ UNCHANGED <<active, draining, main>>

-----------------------------------------------------------------------------
\* The handler of SIGINT and SIGTERM: begin_shutdown(), then server.shutdown().
RequestShutdown ==
    /\ main = "serving"
    /\ draining' = TRUE
    /\ main' = "stopping"
    /\ UNCHANGED <<hpc, slots, active>>

\* serve_forever() returns or raises; begin_shutdown(), server_close().
StopServing ==
    /\ main \in {"serving", "stopping"}
    /\ draining' = TRUE
    /\ main' = "wait"
    /\ UNCHANGED <<hpc, slots, active>>

\* tracker.wait(): the loop's test, under the condition's lock
Drained ==
    /\ main \in {"wait", "expired"}
    /\ active = 0
    /\ main' = "close"
    /\ UNCHANGED <<hpc, slots, active, draining>>

DrainSleeps ==
    /\ main = "wait"
    /\ active > 0
    /\ main' = "asleep"
    /\ UNCHANGED <<hpc, slots, active, draining>>

DrainDeadline ==
    /\ main \in {"wait", "asleep"}
    /\ main' = "expired"
    /\ UNCHANGED <<hpc, slots, active, draining>>

\* Slip: an expired wait is taken for a finished drain.
DrainExpiredCloses ==
    /\ main = "expired"
    /\ active > 0
    /\ main' = "close"
    /\ UNCHANGED <<hpc, slots, active, draining>>

DrainExpired ==
    /\ main = "expired"
    /\ active > 0
    /\ main' = "abort"
    /\ UNCHANGED <<hpc, slots, active, draining>>

\* engine.close() or engine.abort() has returned; serve() returns.
EngineReleased ==
    /\ \/ main = "close" /\ main' = "closed"
       \/ main = "abort" /\ main' = "aborted"
    /\ UNCHANGED <<hpc, slots, active, draining>>

-----------------------------------------------------------------------------
HandlerStep(h) ==
    \/ LookDraining(h) \/ Refuse(h)
    \/ TakeSlot(h) \/ QueueFull(h)
    \/ TryEnter(h) \/ EnterRefused(h)
    \/ GiveSlot(h)

MainStep == StopServing \/ Drained \/ DrainSleeps \/ DrainDeadline \/ DrainExpired

\* serve() has returned and no handler is left.
Quiescent ==
    /\ main \in {"closed", "aborted"}
    /\ \A h \in Handlers :
          hpc[h] \in {"absent", "served", "refused", "busy", "unavailable"}
    /\ UNCHANGED admissionVars

Next ==
    \/ \E h \in Handlers : Connect(h) \/ HandlerStep(h) \/ Leave(h)
    \/ RequestShutdown
    \/ MainStep
    \/ EngineReleased
    \/ Quiescent

Spec == Init /\ [][Next]_admissionVars

-----------------------------------------------------------------------------
TypeOK ==
    /\ hpc \in [Handlers -> HandlerLabels]
    /\ slots \in 0..(Capacity + 1)
    /\ active \in Nat
    /\ draining \in BOOLEAN
    /\ main \in MainLabels

\* Every slot is either free or held by one handler: no exit of do_POST loses
\* a slot, and the bounded semaphore is never released once too often.
SlotsBalanced == slots + Cardinality(Holding) = Capacity + 1

\* The tracker's count is the number of handlers inside the guarded region, so
\* leave() never raises and the drain neither ends early nor waits for ghosts.
ActiveExact == active = Cardinality(Admitted)

\* Both accounts: the semaphore and the tracker know exactly who is inside.
AccountsExact == SlotsBalanced /\ ActiveExact

\* The generation lock has at most Capacity waiters beside its holder: a
\* consequence of the two accounts above, proved in Server_proofs.
AdmissionBound == active <= Capacity + 1

\* serve() closes the engine, which needs it idle, only when no admitted
\* request is left, and none is admitted afterwards.
CloseOnlyIdle == main \in {"close", "closed"} => Admitted = {}

\* The drain waiter never sleeps with nothing to wait for (leave() notifies).
NoLostWakeup == main = "asleep" => active > 0

\* From the moment shutdown begins the admitted work only shrinks.
DrainIsFinal == [][draining => draining' /\ Admitted' \subseteq Admitted]_admissionVars
=============================================================================
