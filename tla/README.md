# Verification of HawkPoint NPU LLM

This directory holds TLA+ models of the parts of the repository whose
correctness depends on the order in which things happen: threads, a killable
worker process, a graceful shutdown, shared device memory, streamed text, and
the dataflow of the generated NPU programs. Every definition is translated from the source under `src/`; `PROJECT.json` maps each one to the lines it
stands for.

## 1. The system

The repository serves small language models on an AMD Hawk Point NPU.

| Component | Source | State it keeps | Operations |
|---|---|---|---|
| Worker engine | `npu_llm/api_server.py` `ProcessCompletionEngine`, `_worker_loop` | the worker process and its pipe, the generation lock (held across yields), the lifecycle lock, `_ready`, `_closed`, `worker_restarts` | `generate`, `prewarm_default`, `close`, `abort`, `ready`; the worker's command loop |
| Admission and drain | `npu_llm/api_server.py` `InferenceTracker`, `make_handler`, `do_POST`, `serve` | a bounded semaphore, the count of admitted requests, the draining flag | admission of a POST, its `finally`, shutdown request, drain, release of the engine |
| Request handlers | `npu_llm/api_server.py` `_complete`, `_stream`, `_complete_text`, `_stream_text` | the choices produced so far, the deadline | one `generate` per choice, closed on every exit |
| Rate limiter | `npu_llm/api_server.py` `RateLimiter` | a deque of stamps per client, the next cleanup | `allow` |
| In-process engine | `npu_llm/api_server.py` `CompletionEngine` | the active decoder and its model id | `_load` (model switch), `generate`, `close` |
| Metrics | `npu_llm/api_server.py` `ServerMetrics` | counters | `record_request`, `record_inference`, `export` |
| Decoder | `npu_llm/runtime/generate.py` | the KV cache on the device, the tokens it was computed from | `decode_token`, `warmup`, `generate`, `close` |
| Token pipeline | `npu_llm/runtime/{stopping,tokenizer,sampling}.py`, the loop of `generate.py` | held-back text, undecoded bytes, waiting log-probability entries, a random generator | stop matching, chat-window truncation, streaming detokenisation, choice of a token |
| NPU runtimes | `npu_llm/runtime/{engine,qwen_engine,model,cpu_backend}.py` | device buffers, KV position | packing of weights, one decode step of one or more dispatches |
| NPU designs | `npu_llm/designs` | tiles, ObjectFifos, shim DMAs | workers that acquire and release objects, MemTile links, runtime sequences |
| NPU kernels | `npu_llm/kernels` | none | arithmetic on one tile |
| Ollama backend | `ollama-xdna/backend/ggml-xdna.cpp` | four weight caches under one budget, slots on the device with records of what they hold | packing, uploading and running matrix products |
| Colibri backend | `colibri-xdna/backend/backend_xdna.cpp` | tensors uploaded lazily | upload, update, matmul, expert groups |
| Tools, scripts, examples, tests | `npu_llm/tools`, `scripts`, `examples`, `tests` | none that outlives a run | conversion, benchmarks, diagnosis |

Interaction: a handler thread passes rate limiting, the semaphore and the
tracker, then consumes one `generate` generator per choice. The generator holds
the generation lock across its yields and talks over a pipe to the worker, which
runs `CompletionEngine` and a decoder. The main thread prewarms, serves, and on
shutdown drains the tracker and then calls `close` (drained) or `abort`
(deadline passed). `abort` takes only the lifecycle lock.

What is hard: the consumer of a stream may stop in the middle; a deadline may
pass while the answer arrives; a worker may die, hang, ignore SIGKILL while it
is inside the driver; shutdown may begin between any two steps of a request; the
drain deadline may pass while the last request leaves; clocks are read outside
locks; a stop sequence, a character or a log-probability entry may be cut
anywhere by the tokens; two dozen workers of a generated program, each with its own loops,
must agree on the order of every object they pass on. `PROJECT.json` lists each hazard at its line with the properties that cover it.

## 2. Modules

Each code module has an `MC...` module with the small instances TLC runs, and
some a `..._proofs` module with the theorems. Definitions marked `Slip` are not
part of any specification: each is a plausible bug in the definition that follows
it, and a run must fail when it takes that definition's place. A `...Parameters`
module holds the constants that a component shares with the module that composes it.

### EngineContract: what a caller of the engine relies on

The abstract specification of `generate` and `prewarm_default`: callers queue,
one at a time is served, its stream is its own chunks in order, then "done" if
it succeeded; a call may also end without ever being served. It knows no lock,
pipe or process.

### WorkerEngine: the parent side of the killable worker

One element of `Calls` is one call of `generate` or `prewarm_default`; a worker
process is named by the call that spawned it. `lock` is `_lock`, `life` is
`_lifecycle_lock`, `proc` and `conn` are `_process` and `_connection`, `ref` the
local copy of the connection that `_receive` takes before it polls without a
lock. The two pipe directions are `inbox` and `outbox`, one sequence per worker,
so what a dead worker wrote can still be read, or is lost with the pipe.

| Actions | Code |
|---|---|
| `Enter`, `AcquireLock`, `QueueTimeout`, `AcquireLate` | the polling acquisition of `_lock` with its deadline |
| `StartClosed`, `StartKeeps`, `Replace`, `StartSpawns`, `SpawnFails` | `_start_locked`: refused after `abort`, kept, or replaced |
| `Send`, `SendBroken`, `SendNoPipe` | `_send_command`; for a call in `LargeCalls` the send waits until the worker has left its boot, lifecycle lock in hand |
| `ReadRef`, `ReadRefClosed`, `Receive`, `PollTimeout`, `PollBroken`, `SetReady` | `_receive` and the message loop |
| `Resume`, `Abandon` | the consumer takes the next chunk, or closes the generator at its yield |
| `Terminate`, `FinishTerminate`, `TerminateRaises`, `KillIgnored`, `ReleaseLock` | `_terminate_locked`, with the close of a process that survived SIGKILL raising, and the `finally` of `generate` |
| `WorkerBoot`, `WorkerTakes`, `WorkerChunk`, `WorkerDone`, `WorkerError`, `WorkerHangsUp`, `WorkerCrash`, `WorkerSticks`, `WorkerUnsticks` | `_worker_loop` and what the operating system or the driver may do to it |
| `CallAbort` ... `FinishAbort`, `CallClose` ... `FinishClose` | `abort` and `close` in the main thread |

### Admission: do_POST, the tracker and the drain

One element of `Handlers` is one POST in its thread. `slots` is the semaphore of
`make_handler`, `active` and `draining` are the tracker's, `main` is where
`serve` is. `Connect`, `LookDraining`, `Refuse`, `TakeSlot`, `QueueFull`,
`TryEnter`, `EnterRefused`, `Leave` and `GiveSlot` are the steps of a handler;
`RequestShutdown` the signal; `StopServing`, `DrainSleeps`, `Drained`,
`DrainDeadline`, `DrainExpired` the drain. The deadline and the last `leave` race:
the wait's predicate is looked at once more after the deadline, and the result
that `serve` acts on may be stale in the safe direction only.

### Server: the composition

`Server` instantiates `Admission` and `WorkerEngine` over shared variables. An
admitted handler runs the calls of its `Choices` one after the other
(`StartChoice`), leaves when none is running (`LeaveServer`), and `ReleaseEngine`
makes the decision of the drain an `abort` or a `close` of the engine. The
prewarm runs before `serve` and ends the program when it fails. `Admission` has no
run of its own: its properties are checked and proved here, where every handler leaves
for a reason.

### RateLimiter

`ReadClock` reads the clock outside the lock; `Apply` is the whole locked part:
cleanup, popping, decision, append. `Timely` bounds by `Skew` ticks how far a
thread may be overtaken between the two. `log`, `latest` and `ordered` are
history variables: every accepted stamp, the newest stamp applied, and whether
stamps have been applied in clock order so far.

### ModelSession: CompletionEngine in the worker

Switching models: the old decoder is closed before the new one is built, named
only after its warm-up succeeded, and a decoder left behind by a failure is
closed by the next load. `open` is the set of decoders whose NPU resources are
held; `Build`, `BuildFails`, `Warmup`, `WarmupFails` are the steps of `_load`,
`Reuse` and `Release` its two other branches, `Finish` the end of a generation,
`Close` the engine's `close`.

### PrefixCache: the decoder and its generation loop

A row of the KV cache is represented by the tokens it was computed from, so
"the cached prefix is right" is an equation between sequences. `Prefill`,
`ChooseEos`, `ChooseLast`, `ChooseToken`, `Resume`, `Abandon` and `Step` are the
segments of the generator between two yields or decode steps; `StepFails` is a
decode step that raises before, while or after the row is written;
`DecodeToken`, `Warmup` and `ResetPrefix` are the calls tools make between
generations. The sampler's choice is nondeterministic. `sole` is a history
variable: the generations that nobody else has written into since they started.

### DecoderSession: the decoder in use

`ModelSession` and `PrefixCache` over shared variables. `served` chooses who uses
the decoder: `CompletionEngine`, whose lock is held from the load to the end of the
generator (`Prepare`, `Build`, `Warmup`, `Generate`, `Close`), or a program that
imports `NPUDecoder` and may advance two generators in turn (`Direct`). A built or
warmed decoder starts with an empty cache and prefix.

### Completion, ChatWindow and Sampling: from a request to its last chunk

`Completion` is one call of the generation loop in `generate.py`, with the decode step
reduced to the logits it leaves. `Encode` is the prompt window, `DecodeStep` a step
and the choice of the next token, `TakeEos` and `Take` the two ways a token is
consumed, `EndMatched` and `EndFlushed` what happens after the loop. A token is a
sequence of bytes; one character takes two bytes (`Lead`, `Trail`), so tokens cut
characters. `released` is the detokenizer's, `pending` and `matched` the matcher's
state, `entries` the waiting log-probability entries.

`ChatWindow` is `encode_chat_window` and `encode_prompt_window`: the attempts in the order
of the code, each a function of the messages and the budget. The byte pair
encoding is external and modelled by a set of merges, so that a longer text may
take fewer tokens, which is what the binary search of `_longest_fitting` has to live
with. Two things read differently in the code and its comments but change no
result: the loop that walks back from the search's result never runs (the search
rests on a length that fits), and a system prompt is cut back to a word boundary
only when it has a space past its first character.

`Sampling` is the choice of a token: `GreedyFor` the argmax shortcut, `Adjusted` the
penalties and the bias, `Drawn` the tokens a draw may return after top-k and top-p.
Scores are integers and weights powers of two instead of exponentials, which keeps
the order and exact ties, which fall in either of two orders (numpy's unstable sort has
others; no property depends on it); temperature is zero or one.

### Dataflow: what a design does on the array

A design is data: `IronPrograms` has the vocabulary of `npu_llm/designs` (kernel calls
between acquires and releases, fills, drains, awaits, access patterns), and
`DecoderDesigns` (`decoder_layer.py`, `qwen_decoder.py`), `EngineDesigns` (`engine.py`,
`qwen_engine.py` with their layouts and runtimes) and `ProjectDesigns` (the one-operation
designs) translate each file into a record of FIFOs, links, programs and the host's
sequence, packing of weights included. `Dataflow` runs such a record: `Kernel` (a call
with its acquires and releases), `SplitMove` and `JoinMove` (MemTile links), `FillMove`
and `DrainMove` (shim DMAs) and `Host`. What IRON and the hardware do is external and is modelled from how the
designs rely on it: every reader of a FIFO has its own cursor, and a buffer is free
again when all have released it. An object is what it stands for, such as "the
query block 3 of layer 2 for token 1", and every call names the objects it is
written for, so a wrong order anywhere in packing, patterns, links or loops is a
mismatch at an operand. Kernels are what they read and write. The buffers a MemTile
or a DMA may have beyond the FIFO's depth are left out, which leaves less room, so a
design that runs here does not rely on them.

`DataflowPlan` says what a plan of a design is: what every FIFO will carry, how far each
program is in each FIFO before every call, for each move of an actor how many moves of
every other come before it in any order (a vector clock), a rank that grows along what a
move waits for, and the values every place in DDR goes through, with the writes that make
them. `IsPlan` compares a plan with the tables of the design and runs nothing: the next
object of a FIFO is the one a call is written for, a fill finds a place at the version its
object has (the write before it precedes the fill, the fill precedes the write after it),
what a dispatch produces precedes its return, and nothing waits in a circle. `DesignPlans`
computes a candidate from the design; nothing rests on it, since `IsPlan` is checked of
what comes out (`Planned`).

### WeightCache and XdnaBackend: the Ollama backend

`WeightCache` is the four caches of packed weights: `held`, `lru` and `bytes` per
kind, one limit, the rotating cursor of `evict_for`. A `get_...` call is a few
steps (`Ask`, `PackExpert` or `MakeTile` and `PackTile`, `Evict`, `InsertExpert`), so an
eviction or a failure can fall between any two. `XdnaBackend` extends it with
the products. `up` is `uploaded_experts`: a key stands for the very object the
cache holds, `Orphan` for any object no cache holds any more, so the pointer
comparison of `compute_experts` is an equation; `EvictUnderCall` turns the records
of an evicted object into `Orphan`. `dev` is what the device reads, `doubt` a
history variable.

| Actions | Code |
|---|---|
| `StartExperts`, `EmptySlot`, `AskExpert`, `TakeExpert`, `SyncSlot`, `Dispatch`, `Return`, `ExpertsFail` | `compute_experts` and `compute_experts_native`, with the reset of the records |
| `StartDense`, `AskTile`, `TakeTile`, `TileFails`, `Deliver` | `compute_dense_persistent` and `compute_dense_native` |
| `Fallback`, `StreamTile`, `StreamFails` | `compute_dense_streaming_locked` |
| `CacheWork` | the steps of the cache under a product |

`SupportsDenseQwen` is the gate on dense products: only a model whose architecture begins with
`qwen` and does not contain `moe` has them, as the patch of Ollama reports it (`GGML_XDNA_MODEL_ARCH`). It is
also what keeps the streamed tiles, which go through the slots of the expert products and
tell no record of it, away from slots that hold experts. `Models` gives each model the kinds
of tensors its file has, on the NPU or not.

The backend's mutex makes the products sequential, so there is one call at a
time; what is hard is what a call leaves to the next.

## 3. Runs

| Run | Instance | What it shows |
|---|---|---|
| `engine_safety` | a prewarm and two calls, the first with a large command, one chunk each | every caller gets its own stream in order (`OwnStream`), one worker at a time, readiness and the restart metric are truthful, `abort` is final, and the whole implements `EngineContract` |
| `engine_returns` | a prewarm and a call | `CallsEnd`: every call returns if consumers take their chunks |
| `engine_abort_hung_worker` | the same, a worker may hang before its first read | **expected violation** of `AbortReturns`, see section 6 |
| `server_safety` | a prewarm, two requests, two slots | no worker outlives `serve`; `close` finds no call running or queued; slots and the tracker's count stay exact, no wake-up is lost, the drain re-admits nobody |
| `server_returns` | a request with two choices and one without, one slot | a request may be rejected for want of a slot; `serve` returns after a signal even if clients never read on |
| `limiter_window` | five requests, two clients, limits 0 and 2, a minute of four ticks, nine clock values, overtaking by one tick | exact sliding-window decisions in clock order; a limit shortened by twice the skew otherwise; idle clients are forgotten |
| `limiter_rolling` | four requests of one client | **expected violation** of the documented `RollingLimit`, see section 6 |
| `decoder_session` | two callers, two models, three loads; a token and the end token, a window of four; served, and used directly by two generators | at most one decoder holds the NPU, a request is answered by a warm decoder of its model, the cached prefix is exact, reuse is invisible to an undisturbed generation, no decode leaves the window, and every generation of the server is undisturbed |
| `completion` | requests with up to two of six stop sequences, with 216 settings of sampling parameters, and with conversations of up to four messages in windows from 2 to 26 | the streamed text is the text up to the earliest stop sequence and nothing is held back needlessly; entries follow the text; a prompt fits, keeps its newest message and drops the oldest turns first; the argmax shortcut changes nothing, and a draw comes from the top |
| `npu_dispatch` | 24 designs: small shapes of both decoders and both engines, every projection, attention, rope and elementwise design | every dispatch returns; every kernel call gets the operands it is written for; DDR holds the result, and nothing is under way when a dispatch returns; and each design has a plan (`Planned`), which is the hypothesis of the theorems about every schedule |
| `backend_weights` | a qwen mixture of experts with two tensors of W8 experts, a mixture of another family with W8 and native experts, and a dense qwen, all with dense tensors of two tiles; two experts, two slots; limits 0, 1 and 3 | the budget and its books hold through evictions and failures, dense sums are exact across a fallback, and an expert product runs on the chosen weights except in slots a failed call left behind |

Deadlock is checked everywhere except in `npu_dispatch` and `completion`, where one
sequence of dispatches, or one request, comes to its end.

### Bounds, and why they are enough

- `MaxChunks = 1`: the hazards are about whose message is read next and about
  messages left over; one chunk and a "done" make both possible, and the
  consumer parks at a yield between them.
- Two calls and a prewarm: a call that timed out or was abandoned, one that
  inherits its worker, and one queued behind both an abort and a call. A worker
  is named by its creator, so up to three successive workers exist.
- Large commands only occur in the engine runs (the send that blocks, the
  finding); the server runs have `LargeCalls` empty, and their claim that
  `serve` returns holds under that restriction.
- Two handlers: with two slots one is admitted while the other is between its
  early look and its entry, or leaves while the drain decides; with one slot the second is rejected. The
  theorems of `Server_proofs` hold for any number.
- The limiter's window and clock allow two cleanups, entries that expire, and a
  thread that applies its stamp one tick late on either side of a cleanup.
- A window of four positions with two new tokens: a prompt longer than one
  token, a reused prefix shorter than the prompt and longer than zero, an
  overwritten row in the middle, and a generation that ends at the window. Three
  decoders: a switch with a failed build or warm-up and a switch back.
- Stop sequences that share beginnings, contain one another, end in half a
  character or contain the replacement character; four tokens, some of two characters, one
  that ends a character and begins another, and invalid bytes. Conversations with and without a system prompt,
  with turns to drop, empty contents and contents that take fewer tokens when
  longer, in every window from hopeless to ample.
- Two layers, heads, parallel gate workers and tiles, one or two blocks per
  projection, two tokens or two chunks of layers: every loop of a design runs
  more than once and hands over to the next layer and dispatch; the Qwen engine
  has tiles with different numbers of rows and steps with and without logits.
- `npu_dispatch` runs the six large designs under one schedule per actor, in which
  that actor moves only when nothing else can, and the other eighteen in every order as
  well. For the invariants and for lock-ups the choice of schedules is no bound:
  `Planned` holds of all 24 designs, so the theorems of `Dataflow_proofs` answer for every
  order of their moves. What remains bounded are the shapes.
- An expert takes one unit and a tile two: with a limit of 0 nothing is cached,
  with 1 no tile, with 3 an entry of each kind fits and the next evicts one of
  either. Two slots and two experts: the same expert in both, one slot unused,
  the two exchanged. The three models are the three answers of the gate on
  dense products: a qwen that names its experts, another family, and a dense qwen.

### Fairness, and why the code justifies it

Weak fairness of each call's own steps (`CallsRun`) says that a runnable thread
runs and that time passes, so every wait with a deadline ends: `_lock` is
acquired with a timeout, `connection.poll` has a timeout, `Process.join` has a
timeout. `life` is held only across steps that are themselves fair, except a
blocking send. `WorkersBoot` says that a spawned process reaches its loop or
dies; `engine_abort_hung_worker` drops it. Nothing is assumed about a worker
that has booted: it may crash, loop without answering, or survive SIGKILL.
Nothing is assumed about consumers in `engine_returns` and `server_returns`
(`DeafConsumerSpec`, `DeafSpec`); `CallsEnd` has their cooperation as a
hypothesis, which the server's socket timeout gives. In `npu_dispatch` the array
takes some possible move as long as there is one (`Schedules`), since nothing on it
preempts a worker or a DMA. There is no fairness on
arrivals, on the signal, or on a client's departure.

## 4. Proofs

TLAPS proves for every value of the constants:

| Module | Theorem | Inductive invariant |
|---|---|---|
| `WorkerEngine_proofs` | `TypeCorrect`; `OneWorker` (`SingleWorker`); `AbortReleasesTheNPU` (`NoWorkerAfterAbort`); `AbortStays` (`AbortIsFinal`); `RestartsAreCounted` (`RestartAccounting`); `ReadyIsWarm` (`ReadyMeansWarm`); `EachHearsItsOwn` (`OwnStream`); `EngineKeepsContract` (`ImplementsContract`) | `TypeInv`, `ProcessInv`; `CallInv` for the server; `ControlInv`, `RestartInv`, `WarmInv`, `PipeInv`, `StreamInv` |
| `Server_proofs` | `ExactInTheServer` (`AccountsExact`), `BoundedInTheServer`, `DrainIsWoken` (`NoLostWakeup`), `DrainShrinks` (`DrainIsFinal`), `CloseIsQuiet` (`CloseFindsIdle`), `WorkerIsGone` (`NoWorkerAfterServe`) | `AdmissionInv` of the admission path, those of the engine, and `ServerInv` |
| `RateLimiter_proofs` | `IdleAreForgotten` (`IdleClientsForgotten`), `LimitHoldsUpToSkew` (`SkewedLimit`), `LimitHoldsInOrder` (`RollingLimit` if `Skew = 0`), `DecidesAsAWindow` (`ExactDecisions`) | `LimiterInv` = `LimiterTypes`, `Suffixes`, `NearlyOrdered`, `Forgotten`, `KeysAreFresh`, `InOrder` |
| `PrefixCache_proofs` | `PrefixStaysExact`, `StepsInsideWindow`, `TypeCorrect`, `ReuseIsInvisible` (`FreshLogits`) | `CacheInv` = `PrefixExact` and `Fits`; `FreshInv` adds `Owned` |
| `DecoderSession_proofs` | of the service: `OneDecoder`, `RequestsGetTheirModel`, `ServedAnswersFresh` (`ServedFresh`); in every use: `OneDecoderInUse` (`OneOpenDecoder`), `RightDecoderInUse` (`RightDecoder`), `PrefixStaysExact` (`PrefixExact`), `LogitsStayFresh` (`FreshLogits`), `WindowSuffices` (`InsideWindow`) | `SessionInv` = `OneHolder`, `NamedMeansWarm`, `PhaseFacts`; those of the cache; `Alone` |
| `Completion_proofs` | `AnswerIsExact` (`AnswerExact`), `HeldIsNeeded` (`HeldOnlyIfNeeded`), `EntriesFollow` (`EntriesFollowText`), `PromptFits` (`WindowFits`), `NewestStays` (`NewestKept`), `OldestGoFirst` (`OldestDroppedFirst`), `ShortcutIsSound` (`GreedyIsArgmax`), `SamplesAreAllowed` (`SampledFromTheTop`) | `CompletionInv` = `TokensTyped`, `WindowIsOf`, `ChoiceIsOf`; `AnswerInv` = `AllSplit`, `CutInTheLoop`, `AnswerExact`; `EntriesInv` |
| `Dataflow_proofs` | of every design with a plan: `DataflowOperandsMatch` (`OperandsMatch`), `DataflowResultsInPlace` (`ResultsInPlace`), `DataflowReturnMeansDone` (`ReturnMeansDone`), `DataflowNeverStuck`, `DataflowEnds` | `DataflowInv`: types, and `NoOverrun` itself; `PlanInv` = `FollowsCalls`, `FollowsLinks`, `FollowsHost`, `Carries`, `Ordered`, `Remembers`; `Within` |
| `XdnaBackend_proofs` | `StaleOnlyInDoubt` (`OnlyDoubtfulSlotsStale`), `SumsExact` (`EachTileOnce`), `BudgetIsKept` (`WithinBudget`) | `GateKept`; `SlotInv` = `RecordsHold`, `Behind`, `CallFacts` and types; `Sums`; `BudgetInv` = `BookTypes`, `Listed`, `RoomMade` |

Arguments:

- **WorkerEngine.** "A live worker is the one `_process` names" is not inductive:
  a step that spawns must know that no other process lives, a step that disposes
  that the process it ends is `_process`. `ProcessInv` adds what each phase
  knows of `_process`, and that the thread in such a phase holds the lifecycle
  lock; `abort` sets `_closed` under that lock, so no spawn is under way, and
  `_start_locked` looks at `_closed` under it.
- **Readiness and the metric.** `_ready` is set outside the lifecycle lock. The probe
  is right nevertheless because the setter still holds the generation lock, which
  keeps everybody but `abort` from the process (`FinishWarm`), and `abort` closes the
  engine first. `restarts` is exact because a worker leaves `_process` only in steps
  that count it or come after the shutdown, and a repeated teardown finds none.
- **The pipe.** `OwnStream` needs to know what is in the pipe at every place of a
  call: `OwnPipe` says that, while a call waits, its pipe carries the rest of its
  own reply and nothing else (`Carries`: chunk numbers follow those consumed, the end
  comes last, the command is still in the inbox or the worker works for it);
  `IdlePipe` that it is clean when no call uses it. Both hold because every way of
  leaving a reply unread closes the pipe before the generation lock is released.
  With these, `EngineKeepsContract` maps each step of threads, pipe and worker to a
  step of `EngineContract` or a stutter.
- **Admission.** The count is exact because entering and leaving change it and
  the handler's label together; the sets of handlers in each phase are finite
  and change by one element, which turns the sums of the invariant into
  cardinality facts. No wake-up is lost because the last `leave` notifies while
  it holds the condition. `close` is reached only by seeing zero after
  `draining` was set, and from then on nobody enters.
- **Server.** Every step of the server is a step of `Admission` or a stutter, and
  one of `WorkerEngine` or a stutter, so their invariants hold. `ServerInv` ties
  them: a call in progress belongs to an admitted request, or to a prewarm that is
  over before `serve` begins; the closing thread is where `main` says. When `close`
  is called nobody is admitted (from `Admission`), so no call is in progress, so the
  lock, whose holder is inside a call (`CallInv`), is free; and with no call to
  spawn a worker, what `close` disposed of stays gone although `_closed` is unset.
- **RateLimiter.** A deque is the end of its client's log (`Suffixes`) and the log is
  out of order by at most the skew (`NearlyOrdered`). What was popped or pruned is
  older than the shortened window for every decision that can still come
  (`Forgotten`), so counting the deque counts at least what such a window of the log
  holds. In clock order the log is sorted and only what expired is gone
  (`InOrder`), which makes the decision exactly that of a window over the whole log.
- **DecoderSession.** Every step of a composed program is one of `ModelSession` and of
  `PrefixCache` or a stutter, so their invariants hold in both uses. The new fact is
  `Alone`: under the lock of the engine a generation in progress is the only one, so
  none of the others has written since it started, which is the hypothesis of
  `FreshLogits`.
- **Dataflow.** `WellFormed` is what IRON itself requires of a design (a FIFO is
  written by one actor and each reader moves only its own cursor); TLC evaluates it on
  all 24. `DataflowInv`, types and room in every FIFO, follows from it and is no result
  about the designs; it is what the proofs about plans stand on.
- **Dataflow, every schedule.** That a call finds its operands is not inductive: it
  depends on what is still under way in every FIFO, in DDR and at the host. `PlanInv`
  says that a run follows a plan of its design: each program, link and DMA has taken
  and made what the plan has for its place (`FollowsCalls`, `FollowsLinks`,
  `FollowsHost`), FIFOs carry beginnings of what they will carry (`Carries`), what the
  clocks put before a move that has happened has happened (`Ordered`), and a place in
  DDR has the value of the last of its writes that happened (`Remembers`). Each kind of
  move is shown to be the plan's next move of its actor, with all it needs behind it
  (`KernelReady` ... `HostReady`, `KernelAdvances` ... `HostAdvances`); `OrderedNext` and
  `VersionNext` then carry clocks and versions through any move, and `ReadsNow` says
  that a fill or the host finds the version of the plan, because the write before
  has happened and the write after cannot have. A run that follows its plan cannot lock
  up (`DataflowNeverStuck`): among the moves not yet made, one of least rank waits for
  none of the others, and a move whose needs have happened can be made (`KernelCan` ...
  `HostCan`). `DataflowEnds` adds that a step is one move of one actor and that no actor
  makes more moves than its plan has. Together they leave every schedule that does not
  idle nothing but to end with the host done, which is what `DispatchReturns` says; the
  last inference, from a bound to "eventually", is liveness and stays with TLC.
  The hypothesis `HasPlan` is about the design alone. It is what TLC evaluates as
  `Planned`, and fails for the slips of packing, loops and drains that break the
  properties in a run.
- **ModelSession.** One caller at a time is past the lock; what it may assume in
  each phase of `_load` (no decoder open while one is built, the new one
  assigned before it is warmed) closes the induction.
- **PrefixCache.** `DecodeKeepsExact` is the heart: a decode of any token at any
  position cuts the prefix there and extends it only if it then ends exactly
  there, and over the rows of one run the next token extends that run
  (`NewRowExtends`). No assumption about generators is needed. `Fits` ties a
  generator's position to its text and to the tokens it may still make;
  `Owned` says that the rows below an undisturbed generator's position are
  those of its text, which `Reusable` establishes at the start.
- **XdnaBackend.** `RecordsHold` says that outside `doubt` a record names what the
  device holds; it is broken between the copy of a slot and its transfer, so
  `Behind` carries the slots the call has passed: still dirty, doubtful, or right.
  `GateKept` says that a dense product under way means a model the gate lets through,
  and such a model has no experts, so no streamed tile lands on a recorded slot.
  Nothing about the caches' books is needed, because an eviction can only turn a
  record into `Orphan`, which equals no later object. For the budget, `Listed` says that
  an LRU list has each cached entry once and that the bytes are those of its entries;
  `RoomMade` that what is about to be inserted is in no map and fits once the evictions
  are over.
- **Completion.** The operators recurse over data, so each first gets a lemma that says
  what the recursion computes (`ReadsExist` and `Upward` give its solution,
  `StrongInduction` what it satisfies): a flattened sequence, pieces of a text, a binary search
  that ends at a length that fits while the next does not (`LongestFits`, which uses no order
  among the lengths), the mass of a set of tokens, decoded bytes. The window and
  sampling theorems are then about single values. `AnswerInv` is the inductive one: until a
  stop sequence is found or the rest let go, `AllSplit` says that what is yielded and
  what is held, put together, are a beginning of the decoded text that more bytes cannot
  change (`MoreBytes`), that no stop sequence is in it, and that one can only be
  completed with what is held (`OpenWithin`). Hence the next feed, which sees no more than
  the held end and the new characters, finds the same earliest stop sequence as a
  search in the whole text (`HitsInBuffer`, `SameMatch`). `EntriesInv` says that every
  token has one entry at the byte its text starts at, the first ones reported in order and
  the others waiting, and that the reported ones are those that start before the end of what
  is yielded. The
  count is in bytes while text is cut at characters; `BytesOfText` and `BytesBeyond` join
  the two, as long as the text is valid, and `ReleaseStep` carries them through a feed.

Assumptions are the named `ASSUME`s of the modules (membership, positivity,
distinctness of the null value) and nothing else.

Some of these assumptions say what an input is: a qwen with experts has `moe` in the name of
its architecture (`ModelAssumption`, about model files, which are not in the repository); texts have no control tokens in them
(`tokenizer.py:39-46` encodes contents without special tokens), the budget of a prompt
is positive (`generate.py:1023`), stop sequences are not empty (`stopping.py:32`), and
sampling parameters are validated (`SamplingParams.build`). A token of the vocabulary is a
sequence of single bytes: a character of several bytes comes as its bytes, since the
vocabulary is one of byte sequences, and is put together by the detokenizer.

Only model-checked: the liveness properties (liveness under fairness and
`ENABLED` are outside what the prover handles), and `Planned`, a fact about 24 given
tables that is the hypothesis of theorems rather than one itself. `RollingLimit` is
refuted (section 6) and proved without skew.

## 5. What is not modelled

- Arithmetic of layers, quantisation, kernels: numerical, not a matter of order.
- HTTP parsing, authentication, metrics text, logging: the handler's outcomes are
  kept (`Refuse`, `Leave`), their wording is not. `ServerMetrics` is planned.
- Byte pair encoding and the vocabulary: external, a set of merges stands for them.
- Sampling: the temperature's scale, float rounding, the random stream, the
  validation of parameters.
- Designs: the compiler that turns them into a bitstream, placement and routing;
  `route_hidden`, which nothing reaches; real sizes.
- Ollama backend: quantisation, the choice of operations to offload except for the
  gate on the architecture (`SupportsDenseQwen`), device registration; and the reuse of a freed tensor's address as a cache key, since
  a process keeps its model.
- Colibri backend: planned (section 7).
- Tools, scripts, examples: batch programs without lasting state.
- Time is not measured in the engine: a deadline may pass at any point where the
  code looks at it, so any relation of durations is allowed.

`PROJECT.json` gives the reason for every part, and hazards without a property
have a note.

## 6. Where documentation and code disagree

1. The docstring of `abort` promises cancellation without waiting for the
   generation lock and a bounded cleanup (`api_server.py:908-914`). `abort`
   takes the lifecycle lock, which `_send_command` holds across a blocking
   `connection.send` (`api_server.py:889`). For a command larger than the pipe's
   buffer and a worker that hangs before its first read, the send never returns
   and neither does `abort`. A worker that dies frees both.
2. `RateLimiter.allow` documents a rolling one-minute limit
   (`api_server.py:431`). The clock is read before the lock is taken (`:434`),
   so stamps can enter the deque out of order, and an entry that still counts can
   be forgotten behind one that expired, or with a deque whose newest entry is
   not its last. `limiter_window` shows the excess is confined to twice the
   overtaking delay.
`ollama-xdna/README.md:448-449` still says that the cache limit applies
independently to expert rows and dense tiles; the code and the main README
(`README.md:946`) have one budget, which is what `WithinBudget` states.

Met while modelling, without a run of their own:

- `decoder_layer.py` with three or more layers per dispatch locks up in the model
  without any help from firmware: the two buffers of the cache outputs (`decoder_layer.py:182-188`) are
  drained only by tasks that start after the loop over the layers (`:428-443`).
  Two layers are the default, an environment variable can ask for more, and the comment blames the current
  firmware (`generate.py:114-118`).
- A log-probability entry may be reported for text that a stop sequence discards when
  that text has invalid bytes: `release` counts a replacement character as three bytes
  (`generate.py:1090`) while an entry's place counts raw bytes, against the comment at
  `generate.py:1065`. `EntriesFollowText` is stated for valid text.
- The streamed fallback of the Ollama backend writes through the slots of `weights_bo` and
  leaves `uploaded_experts` as it was (`ggml-xdna.cpp:1575-1624`). Only the gate on the
  architecture (`:1718-1724`, fed by `ollama-v0.33.3-xdna.patch:953-955`) keeps it away from
  slots that hold experts. The gate goes by the name: an architecture that begins with
  `qwen`, has experts and does not say `moe` would pass it, which `ModelAssumption` excludes.
- The docstring of `_fit_system_prefix` promises a word boundary; a first word longer
  than the room is cut inside.

## 7. Plan

1. **Server metrics**: requests and inferences counted once each over failing
   streams, against `Server`.
2. **Colibri tensors**: lazy upload, update and expert groups behind the mutex.
3. **Crash of the whole server**: what a supervisor's restart finds.
4. **Proofs**: that the designs of any size have a plan. Their programs are built by
   folds over layers, heads and blocks, so this is induction over data, which the
   installed provers do not reach.
