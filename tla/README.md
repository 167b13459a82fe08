# TLA+ models of the Inngest executor

This directory holds TLA+ models of `src/pkg/execution/executor/executor.go`,
the durable step-function executor, together with the TLC configurations that
check them. `PROJECT.json` maps each model definition to the lines of code it
translates. It also lists every run, the mutants that show each property can
fail, the findings and the hazards.

## The system

A *function run* is driven by queue items. Each item is processed by one queue
worker at a time. Several workers process items of the same run concurrently.

| Part | Code | What it does |
|---|---|---|
| Scheduler | `Schedule` (272-582) | Applies debounce, idempotency, pause-skip and throttle. Creates the run state (`sm.New`), saves cancel pauses and enqueues the start item `"<fn>:<key>"` with `sourceEdgeRetries` attempts. |
| Step executor | `Execute`, `run`, `executeDriverForStep` (586-843, 1089-1161) | Loads state and validates it (a cancelled run stops). Rewrites the trigger edge to the function's step and sets `MaxAttempts = retries+1`. On the first attempt it writes metadata back. A memoized step short-circuits here. Otherwise it calls the SDK through the driver and marks the last attempt `NoRetry`. |
| Response handler | `HandleResponse` (849-982) | A retryable driver error is returned to the queue. A permanent one sets status failed and runs the finish handler. An opcode list goes to the interpreter. A final output is saved under the function's step: `ErrDuplicateResponse` coalesces parallel ends, and otherwise the handler runs the finish handler and sets status completed. |
| Opcode interpreter | `HandleGeneratorResponse`, `handleGeneratorGroup`, `HandleGenerator`, `handle*` (1738-2404) | Updates the metadata (request version; a fan-out turns immediate execution off). Then it runs the handlers of all opcodes concurrently. Step and StepError save the output and enqueue `"<key>-<step>"` or `"<key>-<step>-failure"`. StepPlanned enqueues `"<key>-<step>-plan"`. Sleep enqueues a sleep item. WaitForEvent and Invoke save pauses. |
| Pause engine | `HandlePauses`, `handlePausesAllNaively`, `handleAggregatePauses`, `HandleInvokeFinish`, `Resume` (1164-1555, 1597-1736) | Matches events against pauses, then leases, consumes and resumes them. |
| Cancellation | `Cancel` (1557-1594) | Loads the run and returns if it has ended. Then it calls `sm.Cancel`, deletes the state and runs the finish handler. It is called by the API and by `HandlePauses` for an event matching the run's cancellation pause. |
| Batch glue | `AppendAndScheduleBatch`, `RetrieveAndScheduleBatch` (2443-2554) | Appends events to batches and schedules the run of a full batch. |
| Lifecycle, tracing | listeners, `extractTraceCtx` | Fire-and-forget notifications and span context. |

The queue, the state store, the run validator and the SDK behind the driver are
not under `src/`. They are modelled from `spec.md` (sections 3, 5 and 6) and
marked `spec_modelled` in the map:

- **Queue.** `Enqueue` refuses a job id it has seen (`ErrQueueItemExists`). Items are leased to a worker and retried until `ShouldRetry(attempt, max) == attempt+1 < max` fails. A never-retry error drops the item. A lapsed lease redelivers the item at the same attempt.
- **State store.** `SaveResponse` refuses a re-save. `SetStatus` is unconditional. `sm.Cancel` refuses a run that has already ended. `Delete` makes every later call fail.

## Modules

### `Executor.tla`: one run processed by several queue workers

**State:**

- The queue: `queue` and `enqueued`.
- The state store: `output` (per step `none`/`data`/`error`), `status`, `exists`, `md` and `pauses`. `md` holds the request version being set and `DisableImmediateExecution`. `pauses` holds the pause of each wait step: none, saved or consumed.
- Per-worker locals: `pc`, `job`, the rewritten item `it`, `resp`, the pending `ops`, `cur`, `opErr`, and the metadata snapshot `mdRead`.
- For each caller of `Cancel` (the API, and the goroutine for an event matching the run's cancellation pause), a program counter in `cpc`. `cancelPause` is that pause: none, saved, orphaned (saved, but dropped from the aggregator index), consumed or deleted. `cagg` says the goroutine came through the aggregate strategy.
- Two history variables: `finished` (the outcomes passed to the finish handler, in order) and `stepRuns` (how often the user code of each step completed).

**The user function** is the constant `Stages`, a sequence of sets of step ids; a set of more than one id is a `Promise.all` fan-out. `SleepSteps` are `step.sleep` calls and `WaitSteps` are `step.waitForEvent` calls. The SDK's behaviour is a function of the outputs it is sent:

- It runs the step it is asked to run (a planned edge), with every outcome in `Outcomes`: ok, retryable error, `NonRetriableError`, or a transport error.
- On discovery it reports the first stage not yet done. A fan-out reports all its pending steps as planned. A single step is run in line unless immediate execution is off; then it is planned.
- Once a branch of a fan-out is done, the SDK may report the pending ones again or return `OpcodeNone`. The comment in `HandleGenerator` expects the latter "for all but the last" branch.

**Actions.** Each call into the store or the queue that another worker can observe is its own step:

| Action | Code |
|---|---|
| `Dequeue` | the queue leasing an item |
| `Execute` | `Execute` from `Load` to the normalised driver response. Everything after `Load` reads the loaded snapshot only, so it is one step. |
| `StartMetadata` | `UpdateMetadata` on the trigger's first attempt, writing back the loaded metadata |
| `RetryableError`, `FailFunction` | the two `resp.Err` branches of `HandleResponse` |
| `ReadMetadata`, `UpdateMetadata` | `HandleGeneratorResponse`: read, then write the update built from what was read (`MetadataUpdate`) |
| `HandleGenerator` | one opcode handler at a time, in any order: the goroutines of `handleGeneratorGroup` |
| `HandleGenerator` on WaitForEvent | `handleGeneratorWaitForEvent` (2276-2369): `SavePause` under the deterministic id. `ErrPauseAlreadyExists` returns nil, and another error is returned. The timeout item it then enqueues is left to `Pauses.tla`. |
| `ResumePause` | the pause engine resolving the pause once, as `PauseResolution` promises: `Resume` (1597-1660) consumes it, storing the resume data under the step, and enqueues the continuation `"<key>-<step>"`. That item is built without `MaxAttempts`, so it gets the queue's default, the constant `DefaultMaxAttempts`. |
| `EnqueueNext` | the enqueue that ends `handleGeneratorStep` and `handleStepError` |
| `OpcodesDone` | `eg.Wait` and the never-retry wrapping |
| `FinalSave`, `FinalFinish`, `FinalStatus` | the final-output path of `HandleResponse` |
| `CancelCall` | a caller starting `Cancel`. The event goroutine first calls `sm.Exists` (1248-1259, 1416-1427) and deletes the pause of a run whose state is gone. |
| `CancelLoad`, `CancelMark`, `CancelDelete` | `Cancel` (1558-1594): `Load`; `ErrFunctionEnded` or nil for an ended run; `sm.Cancel`, whose refusal of an ended run (`ErrFunctionComplete`, `ErrFunctionFailed`, `ErrFunctionCancelled`) is taken as ended, and which may fail otherwise; `Delete` and the finish handler. Each result goes back to the caller through `CancelReturn`. |
| `CancelReturn` | for the event goroutine, how each strategy treats `Cancel`'s result. `NaiveAfterCancel` (1300-1318) consumes on nil or `no status stored in metadata`. The aggregate strategy (1432-1461) consumes only on nil, and `AggregateOrphans` drops the pause from its index on ended or no status. |
| `ConsumeCancelPause` | `ConsumePause` after `Cancel` (1319-1325, 1462-1471); `ErrPauseLeased` and `ErrPauseNotFound` count as done |
| `Crash`, `LeaseExpires` | a worker dying, and a lease lapsing under a live worker |

A failed `Enqueue` is a third kind of fault, and a failed `sm.Cancel` a fourth. `MaxFaults` bounds all of them together, and `MaxCancels` bounds the calls of `Cancel`.

`MCExecutor.tla` gives seven function shapes, the cancel strategies, a symmetry of the workers and the outcome sets for the configurations.

### `Scheduler.tla`: `Schedule` as its callers drive it

**State:** `runs`, the keys the store holds run state for (`sm.New`); `pauses`, the keys with a saved cancellation pause; `queued`, the keys of start items `"<fn>:<key>"` the queue accepted; and per request `pc`, the `key` its current call computed and `mints`, the run ids it has minted.

**Actions.** A caller retries a request on error and takes `ErrIdentifierExists`, `ErrFunctionDebounced` and `ErrFunctionSkipped` as answers. Requests are scheduled concurrently.

| Action | Code |
|---|---|
| `Call` | lines 272-343: the debounce hand-off; a new run id (`RunID`) and the key (`ScheduleKey`): a rerun's run id overrides an explicit key, then a single event's id, then the batch id; the pause skip |
| `New` | `sm.New` (440-456): an existing key answers `ErrIdentifierExists`, another error is retried |
| `SaveCancelPause` | the cancellation pauses of a run that is not batched (458-517) |
| `EnqueueStart` | the start item (551-581): `ErrQueueItemExists` answers `ErrIdentifierExists` |

Each store or queue call may fail, within `MaxFaults`. `MCScheduler.tla` schedules one event twice (plain, and inside a batch), a rerun of it, a batch of two events, a debounced request and a request for a paused function. `MaxMints = MaxFaults + 1`, so the bound on minted run ids never blocks a retry.

### `Pauses.tla`: one WaitForEvent or InvokeFunction pause

**State:**

- `kind`: the opcode that created the pause.
- In the store: `pause` (none, saved, consumed or deleted), `leasedBy` (the `LeasePause` holder) and `data` (what `ConsumePause` stored: an event, or `"nil"` on timeout).
- In the queue: `timeoutQ` (the timeout item) and `cont` (the continuation item `"<key>-<step>"`).
- `sent`: the invocation event is published.
- `expired`: the clock is past the pause's expiry.
- Program counters: `opc` for the opcode handler, and `pc` for each actor. An actor is one event goroutine or the timeout item.
- The aggregate strategy: `indexed` (the pause is in the expression aggregator's index) and `agg` (an event goroutine came through `handleAggregatePauses`).

**Actions:**

| Action | Code |
|---|---|
| `SavePause`, `EnqueueTimeout` | `handleGeneratorWaitForEvent` (2276-2404). The same calls are made in `handleGeneratorInvokeFunction`. A retried step starts again at `SavePause`, whose `ErrPauseAlreadyExists` returns nil. A failed timeout enqueue is returned for a wait and retried; for an invoke its error is overwritten by the publish's result (line 2260), so the invocation goes out with no timeout. |
| `SendInvocation` | `handleSendingEvent` in `handleGeneratorInvokeFunction` (2140-2274) |
| `HandlePausesNaively` | the goroutine of `handlePausesAllNaively` (1184-1360): a pause not returned is skipped, an expired one is deleted, and a false expression (`ExpressionTrue`) is skipped |
| `HandlePausesAggregate` | the goroutine of `handleAggregatePauses` (1362-1496): the aggregator returns the indexed pauses whose expression holds; an expired one is deleted and removed from the index, otherwise `Resume` runs |
| `RemovePause` | `exprAggregator.RemovePause` after `Resume` returns nil (1485-1490), including the nil of `ErrPauseLeased`; `Returned` sends an aggregate goroutine there |
| `HandleInvokeFinish` | 1498-1555: the pause is found by correlation id, and an expired one is deleted |
| `HandleTimeout` | the pause-timeout queue item (not under `src/`, from spec.md 5): it loads the pause and calls `Resume` with OnTimeout set |
| `LeasePause`, `ConsumePause`, `EnqueueContinuation` | `Resume` (1597-1736). A `LeasePause` error other than leased or not found is not checked, and `Resume` consumes without the lease. `TimeoutOnly` is the early return for an OnTimeout pause resumed by an event. An error from an event goroutine is dropped by `HandlePauses` (`Failed`). An error from the timeout item retries it. |
| `Expire` | time passing the pause's expiry |

`FaultSites` selects which calls may fail (save, timeout, send, lease, consume, enqueue), within `MaxFaults`. `LateEvents` says whether an event may arrive after the expiry.

**Fairness.** The queue eventually runs the opcode item and the due timeout item, and time passes. A started `Resume` runs to its end, and so does the aggregate goroutine's `RemovePause`. Event arrivals are not fair: an event may never come.

### `PauseResolution.tla`: what a pause promises

The abstract specification has three variables: `kind`, `expired` and `result`. A step resolves once, either with an event its wait accepts or, after expiry, with nil, and it eventually resolves. `Pauses` maps `result` to `data` once the continuation is enqueued, through `INSTANCE PauseResolution WITH result <- ...`. Its other variables map by name. `ImplementsResolution == Resolution!Spec` is checked as a property.

## Properties

| Property | Kind | What it says |
|---|---|---|
| `TypeOK` | invariant | Types, including that every metadata update writes every field. |
| `StepRunsOnce` | invariant | Without faults, the user code of each step completes at most once. It relies on a fan-out turning immediate execution off, and on `-plan` job ids deduplicating the join step. |
| `CompletedOnce` | invariant | "completed" reaches the finish handler at most once (spec.md invariant 10). |
| `ImmediateStaysOff` | action | Once `DisableImmediateExecution` is set, no metadata write clears it. Checked only in `lost_update`, where a redelivered start item breaks it. |
| `TerminalSticky` | action | A terminal status is never overwritten (spec.md invariant 8). |
| `RunTerminates` | liveness | The run eventually reaches a terminal status, through waits, retries and final step errors. |
| `CancelPauseHeld` | invariant | While the run is running, its cancellation pause stays saved and indexed, so an event can still cancel it. This must hold through the API Cancel, the workers and a failed `sm.Cancel` racing the event goroutine. |
| `RequestsAnswered` | liveness (Scheduler) | Every schedule request is eventually answered: a caller retrying after a failure stops, because `ErrIdentifierExists` from `sm.New` or from the queue is an answer. |
| `RunResumes` | liveness (Pauses) | The continuation is eventually enqueued, by an event or by the timeout. |
| `ImplementsResolution` | refinement (Pauses) | `Pauses` implements `PauseResolution`. |
| `InvocationPublished` | liveness (Pauses) | An invoke's invocation event is eventually published. |
| `NoOrphanRun` | invariant (Scheduler) | Once every request that computed a key has its answer, a run state under that key has its start item. |

## Runs

| Run | Expect | Shape and bounds | Shows |
|---|---|---|---|
| `fanout` | pass (about 132k states) | `<<{w},{a,b},{c}>>` with `w` a wait, all four outcomes, `DefaultMaxAttempts = Retries + 1`, 2 workers, no faults, no Cancel | `TypeOK`, `StepRunsOnce` and `RunTerminates` hold. Retries, permanent failures, `OpcodeNone` and re-planning are all reached, on items resumed after the wait. |
| `faults` | pass (about 3.5M states, with symmetry of the workers) | `<<{w},{a,b}>>` with `w` a wait, ok outcomes, 1 fault, 2 Cancel calls (the API, and a cancellation event through either strategy) | `CompletedOnce` and `CancelPauseHeld` hold under crashes, redelivery, failed enqueues, `SavePause` or `sm.Cancel`, and Cancel, with two branches ending the function. A redelivered wait reaches `ErrPauseAlreadyExists`. The pause ends up deleted, consumed or orphaned in different behaviours. The API Cancel can delete the state between the goroutine's `sm.Exists` and its `Load`. |
| `crash_stall` | violation of `RunTerminates` | `<<{a},{b}>>`, 1 fault | A crash after the final `SaveResponse` leaves the run running for ever. The redelivered item is short-circuited by the memoized output (line 764). |
| `lost_update` | violation of `ImmediateStaysOff` | `<<{a,b},{c}>>`, 1 fault | The start item redelivered at attempt 0 writes back a stale snapshot (line 742) after the fan-out turned immediate execution off. |
| `terminal_race` | violation of `TerminalSticky` | `<<{s},{a,b}>>`, all outcomes, 1 Cancel | A terminal status is overwritten: `SetStatus(failed)` or `SetStatus(completed)` after Cancel, or one branch failing the run while the other completes it. |
| `retry_mismatch` | violation of `RunTerminates` | `<<{w},{a}>>`, ok, error and fatal outcomes, `Retries = 0`, `DefaultMaxAttempts = 2`, no faults | The step after the wait errs on its only configured attempt. The driver marks the response `NoRetry`, but `handleStepError` reads the item's default attempts and returns it as retryable. `handleGeneratorGroup` then returns it as never-retry, the queue drops the item, and nothing saves the error. |
| `sched_faults` | pass (about 14k states) | six requests, 1 fault | `RequestsAnswered` holds: every request ends, including one that loses the key to a redelivery of the same event, or whose own earlier call got past `sm.New` before the failure. |
| `sched_orphan` | violation of `NoOrphanRun` | six requests, 1 fault | A call that fails after `sm.New` leaves a run that no retry starts. |
| `pause_pass` | pass (about 8k states) | wait or invoke, events e1-e3 (e1 and e2 match) through either strategy, no late events, 1 failed `SavePause`, publish or `LeasePause` | `RunResumes` and `ImplementsResolution` hold. The failed calls are retried by the queue. A `Resume` past a failed `LeasePause` consumes without the lease, and the lease holder's `ConsumePause` then finds nothing, so exactly one resumer still wins. Late events and failed timeout or continuation enqueues are left to the three violation runs below, because they break `RunResumes`. |
| `pause_expiry_race` | violation of `RunResumes` | wait, late events, no fault | An event after expiry deletes the pause before the due timeout item loads it. |
| `pause_lost_wakeup` | violation of `RunResumes` | wait, no events, 1 failed timeout enqueue, `ConsumePause` or continuation enqueue | The retry ends on `ErrPauseAlreadyExists`, `ErrPauseLeased` or `ErrPauseNotFound`, and nothing resumes the run. |
| `pause_invoke_unsent` | violation of `InvocationPublished` | invoke, 1 failed publish | The retried step returns at `ErrPauseAlreadyExists` and never publishes. |

**Bounds.**

- Two workers are enough for every race here: each race involves two items of one run, or one item and Cancel. Two Cancel calls let the API and the cancellation event race each other. The workers are interchangeable, so `faults`, which checks only invariants, uses their symmetry.
- `Retries = 1` gives every step a retry and a last attempt, which is where `NoRetry` is decided. `retry_mismatch` uses `Retries = 0` with a default of 2, the smallest pair that disagrees. The code's own default is not under `src/`.
- `SourceEdgeRetries` is 2 instead of the code's 20. It only bounds redeliveries of the start item, and after the trigger rewrite the executor's decisions use `Retries + 1`.
- In `Pauses`, three events cover a matching event, a second matching event racing it for the lease, and a non-matching event. The timeout item is a fourth actor.
- One fault is enough for each crash or lost-update trace. The state space grows quickly with more.

**Fairness.** Each worker's steps are weakly fair, and so is `ResumePause`: `pause_pass` shows that the pause engine resumes the run when no event arrives late and no timeout enqueue, `ConsumePause` or continuation enqueue fails. Each worker's steps are fair because a queue worker keeps polling while an item is available, and a started `Execute` runs to its end unless the worker crashes. A started `Cancel` runs to its end (`CancelStep` is weakly fair for each caller): it is a synchronous call with no queue in between. Faults and the calls of `Cancel` are not fair. In `Scheduler` each request's steps are weakly fair: a caller keeps calling until it has an answer. All runs set `CHECK_DEADLOCK FALSE`. In `Scheduler`, every request answered is the end. In `Pauses`, so is every actor done with the pause. In `Executor`, once the run has ended and the queue is drained, the workers legitimately have nothing to do, and `RunTerminates` catches the runs that stop too early.

## Findings

1. **Crash after the final save (`crash_stall`).** A crash or failed call between `SaveResponse` of the function output and `SetStatus(completed)` is never repaired. The retry short-circuits through `s.ActionID` and skips the finish handler and the status. The same happens to a planned step whose discovery `Enqueue` failed after its output was saved.
2. **Stale write-back of metadata (`lost_update`).** Execute writes back its loaded metadata at line 742, which can clear `DisableImmediateExecution` after a fan-out. The join step is then run in line by every branch.
3. **Terminal status overwritten (`terminal_race`).** `SetStatus` is unconditional. `SetStatus(completed)` or `SetStatus(failed)` overwrites cancelled when it races `Cancel`, and one branch of a fan-out failing the run races the other completing it.

4. **Orphaned run state (`sched_orphan`).** `Schedule` creates the run state before it saves the cancellation pauses and enqueues the start item. If either call fails, the caller's retry gets `ErrIdentifierExists` from `sm.New` and stops. For a rerun, the retry mints a new key and creates a second run. The first run is never started.

5. **Expired pause deleted under the timeout (`pause_expiry_race`).** An event that arrives after the expiry deletes the pause (line 1238). The timeout item, due at that moment but not yet run, then finds no pause, and the run never resumes.
6. **Lost wake-up (`pause_lost_wakeup`).**
   - A failed timeout enqueue in `handleGeneratorWaitForEvent` retries the step. The retry gets `ErrPauseAlreadyExists` and returns nil (line 2363), so the timeout item is never enqueued.
   - A failed continuation enqueue after `ConsumePause` in `Resume` (line 1659) retries the timeout item. The retry's `LeasePause` gets `ErrPauseNotFound`, so the continuation is never enqueued.
   - A failed `ConsumePause` (line 1624) retries the timeout item without releasing the lease. The retry's `LeasePause` gets `ErrPauseLeased` and returns nil, so nothing consumes the pause.
7. **Invocation never published (`pause_invoke_unsent`).** When `handleSendingEvent` fails, the retry returns at `ErrPauseAlreadyExists` (line 2225). The invoked function never runs, and the caller resumes with nil at the timeout (`TODO Cancel pause/timeout?`, line 2262).
8. **Final step error dropped after a wait (`retry_mismatch`).** The continuation `Resume` enqueues has no `MaxAttempts` (line 1643). `executeDriverForStep` decides `NoRetry` from `step.RetryCount()+1` (line 1148), but `handleStepError` decides retryability from `item.GetMaxAttempts()` (line 1945). When the default is larger, the last configured attempt returns `ErrHandledStepError`, which `handleGeneratorGroup` wraps as never-retry (line 1813). The item is dropped with no error output and no `-failure` edge, and the run stays running. When the default is smaller, the step fails before its configured retries.

## Not modelled yet, and the plan

- **Pauses, continued.**
  - Pause expiry of cancellation pauses. `Executor.tla` models cancellation pauses matched by events, but not their expiry. After `ErrFunctionEnded` the pause of a completed run stays saved until that expiry (line 1305), although spec.md 4.5 says `ConsumePause` follows. The aggregate strategy also leaves an orphaned pause on `no status stored in metadata` (line 1452). Both are listed as hazards: each leaves a pause of a run that is already over.
  - Lease expiry. The model keeps a lease until the pause is consumed. So the aggregate `RemovePause` after `ErrPauseLeased` (line 1488), which drops a pause a lapsed lease would make resumable again, never matters in the model.
- **Batches.** `AppendAndScheduleBatch` and `RetrieveAndScheduleBatch` are two calls into the batch manager. The batch manager is not under `src/`, and spec.md 4.7 does not say whether a retried `Append` of the same event is deduplicated, or what `RetrieveItems` returns after a failed `Schedule`. Every interesting behaviour here depends on those answers, so a model would check assumptions rather than this code. The `Schedule` call it makes, with key `"<fn>-<batch>"`, is the idempotency-key case of `Scheduler.tla`. A failed `ScheduleExecution` after `BatchNew` (line 2459) leaves a batch with no timer on retry. This is listed as a hazard. The throttle key and the scheduled time of `Schedule` are also left out.
- **An abstract run specification** (each step's result recorded once, a single terminal outcome) that `Executor` refines through `INSTANCE ... WITH`, like `Pauses` refines `PauseResolution`.
- **`generateCancelExpression`** as a pure operator checked against a reference.
- **Left out:**
  - lifecycle notifications and tracing (observers only);
  - option constructors;
  - the dashboard UI files and build configuration;
  - the `error compiling expression` branch of `HandleResponse`, which belongs to the pause handlers;
  - multiple Step opcodes in one response, which the SDK model never produces.
