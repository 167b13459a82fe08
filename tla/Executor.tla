------------------------------ MODULE Executor ------------------------------
(***************************************************************************)
(* The step loop of one function run in pkg/execution/executor/executor.go *)
(* (type executor).  Queue workers pick items of the run from the queue    *)
(* and call Execute, which loads the run state, short-circuits memoized    *)
(* steps, calls the SDK through the driver and hands the response to       *)
(* HandleResponse: a transport error is retried or fails the run, a final  *)
(* output completes the run, and an opcode list is interpreted by          *)
(* HandleGeneratorResponse, whose handlers save step outputs and enqueue   *)
(* the next item.  Cancel (the API entry point) races with all of it.      *)
(*                                                                         *)
(* Every call into the state store or the queue that can interleave with   *)
(* another worker is a step of its own; workers may crash, the queue may   *)
(* redeliver a leased item and an Enqueue may fail, within MaxFaults.      *)
(*                                                                         *)
(* The queue, the state store and the SDK behind the driver are not under  *)
(* src/: they are modelled from spec.md (sections 3, 5 and 6).             *)
(***************************************************************************)
EXTENDS Naturals, FiniteSets, Sequences, FiniteSetsExt, TLC

CONSTANTS
    Workers,           \* queue workers that call Execute concurrently
    Stages,            \* the user function: a sequence of sets of step ids,
                       \* a set of more than one id is a parallel fan-out
    SleepSteps,        \* the step ids that are step.sleep() calls
    WaitSteps,         \* the step ids that are step.waitForEvent() calls
    FnStep,            \* f.Steps[0].ID, the function's single DAG step
    Retries,           \* f.Steps[0].RetryCount()
    SourceEdgeRetries, \* sourceEdgeRetries: queue attempts of the start item
    DefaultMaxAttempts,\* item.GetMaxAttempts() of an item enqueued without
                       \* MaxAttempts (the queue's default, not under src/)
    Outcomes,          \* what one SDK call may return for a step it runs:
                       \* "ok", "error" (retryable), "fatal" (NonRetriable)
                       \* or "transport" (driver error, resp.Err)
    MaxFaults,         \* bound on crashes, lease expiries, failed enqueues
    MaxCancels,        \* bound on calls of executor.Cancel
    CancelStrategies,  \* how an event reaches the run's cancellation pause:
                       \* "naive", "aggregate"; {} if the function has no
                       \* cancel configuration
    None

ASSUME Retries \in Nat /\ SourceEdgeRetries \in Nat /\ MaxFaults \in Nat
ASSUME DefaultMaxAttempts \in Nat /\ WaitSteps \cap SleepSteps = {}
ASSUME Outcomes \subseteq {"ok", "error", "fatal", "transport"}
ASSUME CancelStrategies \subseteq {"naive", "aggregate"}

VARIABLES
    queue,     \* job id -> item: the run's items in the queue
    enqueued,  \* job ids the queue has ever accepted (idempotency)
    output,    \* step id -> "none" | "data" | "error": stored step results
    status,    \* run status in the state store
    exists,    \* FALSE once the state has been deleted by Cancel
    md,        \* run metadata: request version set, immediate execution off
    pauses,    \* wait step id -> "none" | "saved" | "consumed": its pause
    pc,        \* worker -> where in Execute/HandleResponse it is
    job,       \* worker -> job id of the item it is processing
    it,        \* worker -> its local copy of that item (Execute rewrites it)
    resp,      \* worker -> the normalized driver response
    ops,       \* worker -> opcodes of the response not yet handled
    cur,       \* worker -> the opcode whose enqueue is still to be done
    opErr,     \* worker -> some opcode handler of this response failed
    mdRead,    \* worker -> metadata read by HandleGeneratorResponse
    cpc,       \* caller -> where that caller of Cancel is
    cancels,   \* number of Cancel calls made
    cancelPause, \* the run's cancellation pause: none, saved, orphaned
                 \* (saved but dropped from the aggregator index),
                 \* consumed or deleted
    cagg,      \* the event goroutine came through handleAggregatePauses
    faults,    \* number of faults injected
    finished,  \* history: outcomes passed to the finish handler, in order
    stepRuns   \* history: step id -> times user code completed the step

storeVars  == <<output, status, exists, md, pauses>>
queueVars  == <<queue, enqueued>>
workerVars == <<pc, job, it, resp, ops, cur, opErr, mdRead>>
cancelVars == <<cpc, cancels, cancelPause, cagg>>
vars == <<queueVars, storeVars, workerVars, cancelVars, faults,
          finished, stepRuns>>

Trigger  == "$trigger"   \* inngest.TriggerName
Terminal == {"completed", "failed", "cancelled"}
Cancellers == {"api", "event"}
StepIds  == UNION {Stages[i] : i \in DOMAIN Stages}
Results  == StepIds \cup {FnStep}

(* Job ids are "<fn>:<key>" for the start item and "<key>-<step>",        *)
(* "<key>-<step>-failure", "<key>-<step>-plan" for the others: distinct    *)
(* strings for distinct (suffix, step), so a record of both stands in.     *)
Job(tag, s) == [tag |-> tag, id |-> s]
StartJob    == Job("start", FnStep)
(* Mutant of PlanJob: the "-plan" suffix dropped.                          *)
PlanJobSharedId(s) == Job("step", s)
PlanJob(s)  == Job("plan", s)
JobIds      == {StartJob} \cup [tag : {"step", "failure", "plan"}, id : StepIds]

Kinds == {"start", "edge", "edge_error", "sleep"}
Items == [kind : Kinds, inc : {Trigger, FnStep}, gen : StepIds \cup {None},
          attempt : Nat, max : Nat, leasedBy : Workers \cup {None}]
Op(o, s, nr) == [op |-> o, id |-> s, noRetry |-> nr]
Opcodes == [op : {"None", "Step", "StepError", "StepPlanned", "Sleep",
                  "WaitForEvent"},
            id : StepIds \cup {None}, noRetry : BOOLEAN]
Resp(k, os) == [kind |-> k, ops |-> os, noRetry |-> FALSE]
Responses == [kind : {"gen", "final", "err", "memo"}, ops : SUBSET Opcodes,
              noRetry : BOOLEAN]

(* queue.ShouldRetry: another attempt remains after this one.              *)
ShouldRetry(attempt, max) == attempt + 1 < max

-----------------------------------------------------------------------------
(***************************************************************************)
(* The SDK behind the driver.  It replays the function against the stored  *)
(* step results it was sent: it runs a step when it is asked to (a planned *)
(* edge) or, on discovery, reports the first stage not yet done: every     *)
(* pending step of a parallel stage as planned, else its one step, run in  *)
(* line unless immediate execution is off.  Once a branch of a parallel    *)
(* stage has finished, an SDK may report the pending ones again or return  *)
(* OpcodeNone, as HandleGenerator expects of "all but the last" branch.    *)
(***************************************************************************)
RunStep(s) ==
    { CASE x = "ok"        -> Resp("gen", {Op("Step", s, FALSE)})
        [] x = "error"     -> Resp("gen", {Op("StepError", s, FALSE)})
        [] x = "fatal"     -> Resp("gen", {Op("StepError", s, TRUE)})
        [] x = "transport" -> Resp("err", {}) : x \in Outcomes }

Discover(out, noImmediate) ==
    LET undone == {i \in DOMAIN Stages : \E s \in Stages[i] : out[s] = "none"}
    IN  IF undone = {} THEN {Resp("final", {})}
        ELSE
        LET stage   == Stages[Min(undone)]
            pending == {s \in stage : out[s] = "none"}
            s       == CHOOSE x \in pending : TRUE
        IN  CASE Cardinality(stage) > 1 /\ pending # stage
                     -> {Resp("gen", {Op("StepPlanned", p, FALSE) : p \in pending}),
                         Resp("gen", {Op("None", None, FALSE)})}
              [] Cardinality(stage) > 1
                     -> {Resp("gen", {Op("StepPlanned", p, FALSE) : p \in pending})}
              [] s \in SleepSteps -> {Resp("gen", {Op("Sleep", s, FALSE)})}
              [] s \in WaitSteps  -> {Resp("gen", {Op("WaitForEvent", s, FALSE)})}
              [] noImmediate      -> {Resp("gen", {Op("StepPlanned", s, FALSE)})}
              [] OTHER            -> RunStep(s)

SDK(out, noImmediate, gen) ==
    IF gen # None THEN RunStep(gen)
    ELSE Discover(out, noImmediate)
         \cup (IF "transport" \in Outcomes THEN {Resp("err", {})} ELSE {})

(* executeDriverForStep: a lone StepError, or a driver error, on the last  *)
(* attempt the step allows is marked NoRetry.                              *)
Normalize(r, attempt) ==
    LET lastAttempt == ~ShouldRetry(attempt, Retries + 1)
        loneError   == \E o \in r.ops : r.ops = {o} /\ o.op = "StepError"
    IN  [r EXCEPT !.noRetry = lastAttempt /\ (loneError \/ r.kind = "err")]

-----------------------------------------------------------------------------
(***************************************************************************)
(* Queue operations (spec.md section 6).                                   *)
(***************************************************************************)
(* Enqueue: a job id the queue has seen is refused (ErrQueueItemExists),   *)
(* which every caller in the executor swallows.                            *)
EnqueueJob(j, item) ==
    IF j \in enqueued THEN UNCHANGED queueVars
    ELSE /\ queue'    = queue @@ (j :> item)
         /\ enqueued' = enqueued \cup {j}

NewItem(kind, gen, max) ==
    [kind |-> kind, inc |-> FnStep, gen |-> gen, attempt |-> 0, max |-> max,
     leasedBy |-> None]

Held(w) == job[w] \in DOMAIN queue /\ queue[job[w]].leasedBy = w

(* Finishing an item: Ack removes it; Requeue retries it with the next     *)
(* attempt unless the error is never-retry or attempts are exhausted.      *)
Ack(w) ==
    queue' = IF Held(w) THEN Restrict(queue, DOMAIN queue \ {job[w]}) ELSE queue

Requeue(w, neverRetry) ==
    LET q == queue[job[w]] IN
    queue' = IF ~Held(w) THEN queue
             ELSE IF ~neverRetry /\ ShouldRetry(q.attempt, q.max)
             THEN [queue EXCEPT ![job[w]] = [q EXCEPT !.attempt = @ + 1,
                                                      !.leasedBy = None]]
             ELSE Restrict(queue, DOMAIN queue \ {job[w]})

(* The worker is done with the item and idle again.                        *)
Release(w) ==
    /\ pc'     = [pc EXCEPT ![w] = "idle"]
    /\ job'    = [job EXCEPT ![w] = None]
    /\ it'     = [it EXCEPT ![w] = None]
    /\ resp'   = [resp EXCEPT ![w] = None]
    /\ ops'    = [ops EXCEPT ![w] = {}]
    /\ cur'    = [cur EXCEPT ![w] = None]
    /\ opErr'  = [opErr EXCEPT ![w] = FALSE]
    /\ mdRead' = [mdRead EXCEPT ![w] = None]

Done(w)         == Ack(w) /\ Release(w) /\ UNCHANGED enqueued
Fail(w, never)  == Requeue(w, never) /\ Release(w) /\ UNCHANGED enqueued

Goto(w, p) == pc' = [pc EXCEPT ![w] = p]

(* runFinishHandler: the function-finished events it sends are recorded as *)
(* the outcome they report.                                                *)
FinishHandler(outcome) == finished' = Append(finished, outcome)

-----------------------------------------------------------------------------
Init ==
    /\ queue    = StartJob :> [kind |-> "start", inc |-> Trigger, gen |-> None,
                               attempt |-> 0, max |-> SourceEdgeRetries,
                               leasedBy |-> None]
    /\ enqueued = {StartJob}
    /\ output   = [r \in Results |-> "none"]
    /\ status   = "running"
    /\ exists   = TRUE
    /\ md       = [versioned |-> FALSE, noImmediate |-> FALSE]
    /\ pauses   = [s \in WaitSteps |-> "none"]
    /\ pc       = [w \in Workers |-> "idle"]
    /\ job      = [w \in Workers |-> None]
    /\ it       = [w \in Workers |-> None]
    /\ resp     = [w \in Workers |-> None]
    /\ ops      = [w \in Workers |-> {}]
    /\ cur      = [w \in Workers |-> None]
    /\ opErr    = [w \in Workers |-> FALSE]
    /\ mdRead   = [w \in Workers |-> None]
    /\ cpc      = [c \in Cancellers |-> "idle"]
    /\ cancels  = 0
    /\ cancelPause = IF CancelStrategies = {} THEN "none" ELSE "saved"
    /\ cagg     = FALSE
    /\ faults   = 0
    /\ finished = <<>>
    /\ stepRuns = [s \in StepIds |-> 0]

(* A worker leases an item that no worker holds.                           *)
Dequeue(w) ==
    /\ pc[w] = "idle"
    /\ \E j \in DOMAIN queue :
          /\ queue[j].leasedBy = None
          /\ queue' = [queue EXCEPT ![j].leasedBy = w]
          /\ job'   = [job EXCEPT ![w] = j]
          /\ it'    = [it EXCEPT ![w] = queue[j]]
    /\ Goto(w, "exec")
    /\ UNCHANGED <<enqueued, storeVars, resp, ops, cur, opErr, mdRead,
                   cancelVars, faults, finished, stepRuns>>

(* Execute: load the state (the runner first records a finished sleep),    *)
(* stop on a cancelled run, rewrite the trigger edge to the function's     *)
(* step with its retries, return a memoized result without calling the     *)
(* driver, else call the SDK and normalize its response.  On the first    *)
(* attempt of the trigger edge it also writes back the metadata it loaded  *)
(* (StartMetadata).  Everything after the load reads the loaded snapshot   *)
(* and no other shared state, so it is taken in the load's step; only that *)
(* write is a step of its own.                                             *)
Memo == Resp("memo", {})

Execute(w) ==
    LET i         == it[w]
        out       == IF i.kind = "sleep" /\ exists /\ output[job[w].id] = "none"
                     THEN [output EXCEPT ![job[w].id] = "data"] ELSE output
        item      == IF i.inc = Trigger
                     THEN [i EXCEPT !.inc = FnStep, !.max = Retries + 1] ELSE i
        startMeta == i.inc = Trigger /\ i.attempt = 0
        incoming  == IF i.gen # None THEN i.gen ELSE FnStep
        memo      == out[incoming] # "none"
    IN
    /\ pc[w] = "exec"
    /\ output' = out
    /\ \/ /\ ~exists
          /\ Fail(w, FALSE)
          /\ UNCHANGED stepRuns
       \/ /\ exists /\ status = "cancelled"
          /\ Done(w)
          /\ UNCHANGED stepRuns
       \/ /\ exists /\ status # "cancelled" /\ memo /\ ~startMeta
          /\ Done(w)
          /\ UNCHANGED stepRuns
       \/ /\ exists /\ status # "cancelled"
          /\ memo => startMeta
          /\ \E r \in IF memo THEN {Memo} ELSE SDK(out, md.noImmediate, i.gen) :
                /\ resp'     = [resp EXCEPT ![w] =
                                  IF memo THEN r ELSE Normalize(r, i.attempt)]
                /\ stepRuns' = [s \in StepIds |->
                                  IF Op("Step", s, FALSE) \in r.ops
                                  THEN stepRuns[s] + 1 ELSE stepRuns[s]]
          /\ it'     = [it EXCEPT ![w] = item]
          /\ mdRead' = [mdRead EXCEPT ![w] = md]
          /\ Goto(w, IF startMeta THEN "start_meta" ELSE "handle")
          /\ UNCHANGED <<queueVars, job, ops, cur, opErr>>
    /\ UNCHANGED <<status, exists, md, pauses, cancelVars, faults, finished>>

(* UpdateMetadata on the trigger's first attempt: the snapshot loaded by   *)
(* Execute is written back in full (an error is only logged).              *)
StartMetadata(w) ==
    /\ pc[w] = "start_meta"
    /\ md' = IF exists THEN mdRead[w] ELSE md
    /\ IF resp[w] = Memo THEN Done(w)
       ELSE Goto(w, "handle") /\ UNCHANGED <<queueVars, job, it, resp, ops,
                                             cur, opErr, mdRead>>
    /\ UNCHANGED <<output, status, exists, pauses, cancelVars, faults,
                   finished, stepRuns>>

(* HandleResponse, driver error the queue may retry: return it.            *)
RetryableError(w) ==
    /\ pc[w] = "handle"
    /\ resp[w].kind = "err" /\ ~resp[w].noRetry
    /\ Fail(w, FALSE)
    /\ UNCHANGED <<storeVars, cancelVars, faults, finished, stepRuns>>

(* HandleResponse, permanent driver error: mark the run failed, load it,   *)
(* run the finish handler and return the non-retryable response.           *)
FailFunction(w) ==
    /\ pc[w] = "handle"
    /\ resp[w].kind = "err" /\ resp[w].noRetry
    /\ \/ /\ ~exists
          /\ Fail(w, FALSE)
          /\ UNCHANGED <<status, finished>>
       \/ /\ exists
          /\ status'   = "failed"
          /\ FinishHandler("failed")
          /\ Fail(w, TRUE)
    /\ UNCHANGED <<output, exists, md, pauses, cancelVars, faults, stepRuns>>

(* HandleResponse: an opcode list goes to HandleGeneratorResponse, which   *)
(* first reads the run metadata.                                           *)
ReadMetadata(w) ==
    /\ pc[w] = "handle"
    /\ resp[w].kind = "gen"
    /\ \/ /\ ~exists
          /\ Fail(w, FALSE)
       \/ /\ exists
          /\ mdRead' = [mdRead EXCEPT ![w] = md]
          /\ Goto(w, "meta_write")
          /\ UNCHANGED <<queueVars, job, it, resp, ops, cur, opErr>>
    /\ UNCHANGED <<storeVars, cancelVars, faults, finished, stepRuns>>

(* The metadata update HandleGeneratorResponse builds from what it read:   *)
(* set the request version if unset, and turn immediate execution off on   *)
(* a parallel response.  Either update writes every field.                 *)
(* Mutants of MetadataUpdate: parallelism never disables immediate         *)
(* execution; the update carries only the field it changes.              *)
MetadataUpdateKeepImmediate(m, r) ==
    IF ~m.versioned THEN [versioned |-> TRUE, noImmediate |-> m.noImmediate]
    ELSE None
MetadataUpdatePartial(m, r) ==
    IF Cardinality(r.ops) > 1 /\ ~m.noImmediate THEN [noImmediate |-> TRUE]
    ELSE IF ~m.versioned THEN [versioned |-> TRUE, noImmediate |-> m.noImmediate]
    ELSE None

MetadataUpdate(m, r) ==
    IF Cardinality(r.ops) > 1 /\ ~m.noImmediate
    THEN [versioned |-> TRUE, noImmediate |-> TRUE]
    ELSE IF ~m.versioned
    THEN [versioned |-> TRUE, noImmediate |-> m.noImmediate]
    ELSE None

UpdateMetadata(w) ==
    LET u == MetadataUpdate(mdRead[w], resp[w]) IN
    /\ pc[w] = "meta_write"
    /\ \/ /\ u # None /\ ~exists
          /\ Fail(w, FALSE)
          /\ UNCHANGED md
       \/ /\ u = None \/ exists
          /\ md'  = IF u = None THEN md ELSE u
          /\ ops' = [ops EXCEPT ![w] = resp[w].ops]
          /\ Goto(w, "ops")
          /\ UNCHANGED <<queueVars, job, it, resp, cur, opErr, mdRead>>
    /\ UNCHANGED <<output, status, exists, pauses, cancelVars, faults,
                   finished, stepRuns>>

(* The enqueue every handler ends with: ErrQueueItemExists is success, any *)
(* other error (a fault) fails the handler.                                *)
OpEnqueue(w, j, item) ==
    \/ /\ EnqueueJob(j, item)
       /\ UNCHANGED <<opErr, faults>>
    \/ /\ faults < MaxFaults
       /\ faults' = faults + 1
       /\ opErr'  = [opErr EXCEPT ![w] = TRUE]
       /\ UNCHANGED queueVars

(* SaveResponse of a step's "data" or "error" output; the duplicate of a   *)
(* saved step, or a deleted state, fails the handler.  On success the      *)
(* handler goes on to its enqueue (EnqueueNext).                           *)
SaveOutput(w, o, val) ==
    /\ IF exists /\ output[o.id] = "none"
       THEN /\ output' = [output EXCEPT ![o.id] = val]
            /\ cur'    = [cur EXCEPT ![w] = o]
            /\ Goto(w, "op_enqueue")
            /\ UNCHANGED opErr
       ELSE /\ opErr'  = [opErr EXCEPT ![w] = TRUE]
            /\ UNCHANGED <<output, cur, pc>>
    /\ UNCHANGED <<queueVars, faults>>

(* The opcode handlers HandleGenerator dispatches to (first halves).       *)
handleGeneratorStep(w, o) == SaveOutput(w, o, "data")

StepRetryable(w, o) == ~o.noRetry /\ ShouldRetry(it[w].attempt, it[w].max)

handleStepError(w, o) ==
    IF StepRetryable(w, o)
    THEN /\ opErr' = [opErr EXCEPT ![w] = TRUE]
         /\ UNCHANGED <<output, cur, pc, queueVars, faults>>
    ELSE SaveOutput(w, o, "error")

handleGeneratorStepPlanned(w, o) ==
    /\ OpEnqueue(w, PlanJob(o.id), NewItem("edge", o.id, it[w].max))
    /\ UNCHANGED <<output, cur, pc>>

handleGeneratorSleep(w, o) ==
    /\ OpEnqueue(w, Job("step", o.id), NewItem("sleep", None, it[w].max))
    /\ UNCHANGED <<output, cur, pc>>

(* handleGeneratorWaitForEvent: SavePause under the deterministic id;    *)
(* ErrPauseAlreadyExists returns nil, any other error is returned.  The    *)
(* timeout item it then enqueues belongs to the pause engine (Pauses.tla). *)
handleGeneratorWaitForEvent(w, o) ==
    /\ \/ /\ pauses[o.id] # "none"
          /\ UNCHANGED <<pauses, opErr, faults>>
       \/ /\ pauses[o.id] = "none"
          /\ pauses' = [pauses EXCEPT ![o.id] = "saved"]
          /\ UNCHANGED <<opErr, faults>>
       \/ /\ pauses[o.id] = "none" /\ faults < MaxFaults
          /\ faults' = faults + 1
          /\ opErr'  = [opErr EXCEPT ![w] = TRUE]
          /\ UNCHANGED pauses
    /\ UNCHANGED <<output, cur, pc, queueVars>>

(* handleGeneratorGroup runs the handlers of the opcodes concurrently: the *)
(* worker takes them in any order.  OpcodeNone ends the thread.            *)
HandleGenerator(w) ==
    /\ pc[w] = "ops"
    /\ \E o \in ops[w] :
       /\ ops' = [ops EXCEPT ![w] = @ \ {o}]
       /\ CASE o.op = "None"        -> UNCHANGED <<output, cur, pc, opErr,
                                                   queueVars, faults>>
            [] o.op = "Step"        -> handleGeneratorStep(w, o)
            [] o.op = "StepError"   -> handleStepError(w, o)
            [] o.op = "StepPlanned" -> handleGeneratorStepPlanned(w, o)
            [] o.op = "Sleep"       -> handleGeneratorSleep(w, o)
            [] o.op = "WaitForEvent" -> handleGeneratorWaitForEvent(w, o)
       /\ o.op # "WaitForEvent" => UNCHANGED pauses
    /\ UNCHANGED <<status, exists, md, job, it, resp, mdRead, cancelVars,
                   finished, stepRuns>>

(* Second half of handleGeneratorStep / handleStepError: enqueue the       *)
(* discovery edge "<key>-<step>", or the edge_error "<key>-<step>-failure".*)
EnqueueNext(w) ==
    LET o == cur[w] IN
    /\ pc[w] = "op_enqueue"
    /\ IF o.op = "Step"
       THEN OpEnqueue(w, Job("step", o.id), NewItem("edge", None, it[w].max))
       ELSE OpEnqueue(w, Job("failure", o.id), NewItem("edge_error", None, it[w].max))
    /\ cur' = [cur EXCEPT ![w] = None]
    /\ Goto(w, "ops")
    /\ UNCHANGED <<storeVars, job, it, resp, ops, mdRead, cancelVars,
                   finished, stepRuns>>

(* All handlers returned: a failed group is returned as never-retry when   *)
(* the response is NoRetry, else as a plain error.                         *)
OpcodesDone(w) ==
    /\ pc[w] = "ops" /\ ops[w] = {}
    /\ IF opErr[w] THEN Fail(w, resp[w].noRetry) ELSE Done(w)
    /\ UNCHANGED <<storeVars, cancelVars, faults, finished, stepRuns>>

(* HandleResponse, final output: SaveResponse under the function's step;   *)
(* a duplicate (a parallel branch finished first) returns the response.    *)
(* Mutant of FinalDuplicate: ErrDuplicateResponse not reported.            *)
FinalDuplicateIgnored == FALSE
FinalDuplicate == output[FnStep] # "none"

FinalSave(w) ==
    /\ pc[w] = "handle"
    /\ resp[w].kind = "final"
    /\ \/ /\ exists /\ ~FinalDuplicate
          /\ output' = [output EXCEPT ![FnStep] = "data"]
          /\ Goto(w, "final_finish")
          /\ UNCHANGED <<queueVars, job, it, resp, ops, cur, opErr, mdRead>>
       \/ /\ ~exists \/ FinalDuplicate
          /\ Fail(w, FALSE)
          /\ UNCHANGED output
    /\ UNCHANGED <<status, exists, md, pauses, cancelVars, faults, finished,
                   stepRuns>>

(* Load the run and run the finish handler.                                *)
FinalFinish(w) ==
    /\ pc[w] = "final_finish"
    /\ \/ /\ exists
          /\ FinishHandler("completed")
          /\ Goto(w, "final_status")
          /\ UNCHANGED <<queueVars, job, it, resp, ops, cur, opErr, mdRead>>
       \/ /\ ~exists
          /\ Fail(w, FALSE)
          /\ UNCHANGED finished
    /\ UNCHANGED <<storeVars, cancelVars, faults, stepRuns>>

(* SetStatus(completed), the last call of HandleResponse.                  *)
FinalStatus(w) ==
    /\ pc[w] = "final_status"
    /\ \/ /\ exists
          /\ status' = "completed"
          /\ Done(w)
       \/ /\ ~exists
          /\ Fail(w, FALSE)
          /\ UNCHANGED status
    /\ UNCHANGED <<output, exists, md, pauses, cancelVars, faults, finished,
                   stepRuns>>

-----------------------------------------------------------------------------
(***************************************************************************)
(* Faults: a worker dies at any point (its lease then lapses), or the      *)
(* queue's lease on an item lapses while its worker is still running it.   *)
(***************************************************************************)
Crash(w) ==
    /\ pc[w] # "idle"
    /\ faults < MaxFaults
    /\ faults' = faults + 1
    /\ queue'  = IF Held(w) THEN [queue EXCEPT ![job[w]].leasedBy = None]
                 ELSE queue
    /\ Release(w)
    /\ UNCHANGED <<enqueued, storeVars, cancelVars, finished, stepRuns>>

LeaseExpires ==
    /\ faults < MaxFaults
    /\ \E j \in DOMAIN queue :
          /\ queue[j].leasedBy # None
          /\ queue' = [queue EXCEPT ![j].leasedBy = None]
    /\ faults' = faults + 1
    /\ UNCHANGED <<enqueued, storeVars, workerVars, cancelVars, finished,
                   stepRuns>>

-----------------------------------------------------------------------------
(***************************************************************************)
(* Cancel has two callers: the API, and the goroutine HandlePauses starts  *)
(* for an event that matches the run's cancellation pause (saved by        *)
(* Schedule).  That goroutine first asks sm.Exists and deletes the pause   *)
(* of a run whose state is gone; it then calls Cancel and, on the results  *)
(* it accepts, consumes the pause.                                         *)
(***************************************************************************)
CancelCall(c) ==
    /\ cpc[c] = "idle" /\ cancels < MaxCancels
    /\ cancels' = cancels + 1
    /\ \/ /\ c = "api"
          /\ cpc' = [cpc EXCEPT ![c] = "load"]
          /\ UNCHANGED <<cancelPause, cagg>>
       \/ /\ c = "event"
          /\ \E strategy \in CancelStrategies :
                /\ cancelPause = "saved" \/ (strategy = "naive" /\ cancelPause = "orphaned")
                /\ cagg' = (strategy = "aggregate")
          /\ IF exists
             THEN cpc' = [cpc EXCEPT ![c] = "load"] /\ UNCHANGED cancelPause
             ELSE cancelPause' = "deleted" /\ UNCHANGED cpc
    /\ UNCHANGED <<queueVars, storeVars, workerVars, faults, finished, stepRuns>>

(* handlePausesAllNaively on Cancel's result: "ended" (ErrFunctionEnded,  *)
(* ErrFunctionComplete, ErrFunctionFailed, ErrFunctionCancelled) returns, a *)
(* load of a deleted state ("no status stored in metadata") and nil go on  *)
(* to ConsumePause, any other error returns.                               *)
NaiveAfterCancelAnyError(err) == IF err # "ended" THEN "consume" ELSE "idle"
NaiveAfterCancel(err) == IF err \in {"nil", "nostatus"} THEN "consume" ELSE "idle"

(* handleAggregatePauses on Cancel's result: only nil goes on to           *)
(* ConsumePause; the ended errors and "no status stored in metadata" drop  *)
(* the pause from the aggregator index and leave it saved.                 *)
AggregateOrphans(err) == err \in {"ended", "nostatus"}

(* Cancel returns err to caller c.                                         *)
CancelReturn(c, err) ==
    /\ cpc' = [cpc EXCEPT ![c] =
                 CASE c = "api" -> "idle"
                   [] cagg      -> IF err = "nil" THEN "consume" ELSE "idle"
                   [] OTHER     -> NaiveAfterCancel(err)]
    /\ cancelPause' = IF c = "event" /\ cagg /\ AggregateOrphans(err)
                         /\ cancelPause = "saved"
                      THEN "orphaned" ELSE cancelPause

(* Cancel: sm.Load fails for a deleted state; an ended run returns         *)
(* ErrFunctionEnded and a cancelled one nil.                               *)
CancelLoad(c) ==
    /\ cpc[c] = "load"
    /\ CASE ~exists                           -> CancelReturn(c, "nostatus")
         [] status \in {"completed", "failed"} -> CancelReturn(c, "ended")
         [] status = "cancelled"              -> CancelReturn(c, "nil")
         [] OTHER -> cpc' = [cpc EXCEPT ![c] = "mark"] /\ UNCHANGED cancelPause
    /\ UNCHANGED <<queueVars, storeVars, workerVars, cancels, cagg, faults,
                   finished, stepRuns>>

(* sm.Cancel marks the run cancelled; it refuses a run already ended with  *)
(* ErrFunctionComplete, ErrFunctionFailed or ErrFunctionCancelled, which   *)
(* the goroutine takes as ended, and may fail with another error.          *)
CancelMark(c) ==
    /\ cpc[c] = "mark"
    /\ \/ /\ exists /\ status \notin Terminal
          /\ status' = "cancelled"
          /\ cpc' = [cpc EXCEPT ![c] = "delete"]
          /\ UNCHANGED <<cancelPause, faults>>
       \/ /\ ~(exists /\ status \notin Terminal)
          /\ CancelReturn(c, "ended")
          /\ UNCHANGED <<status, faults>>
       \/ /\ faults < MaxFaults
          /\ faults' = faults + 1
          /\ CancelReturn(c, "other")
          /\ UNCHANGED status
    /\ UNCHANGED <<queueVars, output, exists, md, pauses, workerVars, cancels,
                   cagg, finished, stepRuns>>

(* sm.Delete, then the finish handler; Cancel returns nil.                 *)
CancelDelete(c) ==
    /\ cpc[c] = "delete"
    /\ exists' = FALSE
    /\ FinishHandler("cancelled")
    /\ CancelReturn(c, "nil")
    /\ UNCHANGED <<queueVars, output, status, md, pauses, workerVars, cancels,
                   cagg, faults, stepRuns>>

(* sm.ConsumePause of the cancellation pause; ErrPauseLeased and           *)
(* ErrPauseNotFound count as done.                                         *)
ConsumeCancelPause ==
    /\ cpc["event"] = "consume"
    /\ cancelPause' = IF cancelPause \in {"saved", "orphaned"}
                      THEN "consumed" ELSE cancelPause
    /\ cpc' = [cpc EXCEPT !["event"] = "idle"]
    /\ UNCHANGED <<queueVars, storeVars, workerVars, cancels, cagg, faults,
                   finished, stepRuns>>

CancelStep(c) == CancelLoad(c) \/ CancelMark(c) \/ CancelDelete(c)
                 \/ (c = "event" /\ ConsumeCancelPause)

-----------------------------------------------------------------------------
(***************************************************************************)
(* The pause engine resolves a saved pause once (PauseResolution.tla, which *)
(* Pauses.tla implements): Resume consumes it, storing the resume data     *)
(* under the step's data key, and enqueues the continuation               *)
(* "<key>-<step>", a discovery edge built without MaxAttempts, so the      *)
(* queue gives it its default attempts.                                    *)
(***************************************************************************)
ResumePause(s) ==
    /\ pauses[s] = "saved"
    /\ pauses' = [pauses EXCEPT ![s] = "consumed"]
    /\ output' = IF exists THEN [output EXCEPT ![s] = "data"] ELSE output
    /\ EnqueueJob(Job("step", s), NewItem("edge", None, DefaultMaxAttempts))
    /\ UNCHANGED <<status, exists, md, workerVars, cancelVars, faults,
                   finished, stepRuns>>

-----------------------------------------------------------------------------
WorkerStep(w) ==
    \/ Dequeue(w) \/ Execute(w) \/ StartMetadata(w)
    \/ RetryableError(w) \/ FailFunction(w)
    \/ ReadMetadata(w) \/ UpdateMetadata(w)
    \/ HandleGenerator(w) \/ EnqueueNext(w) \/ OpcodesDone(w)
    \/ FinalSave(w) \/ FinalFinish(w) \/ FinalStatus(w)

Next ==
    \/ \E w \in Workers : WorkerStep(w) \/ Crash(w)
    \/ LeaseExpires
    \/ \E s \in WaitSteps : ResumePause(s)
    \/ \E c \in Cancellers : CancelCall(c) \/ CancelStep(c)

(* Queue workers keep polling: each is weakly fair, and so is the pause    *)
(* engine, whose runs resume (Pauses.tla, RunResumes), and a started      *)
(* Cancel runs to its end.  Faults and the calls of Cancel are not.        *)
Spec == /\ Init /\ [][Next]_vars
        /\ \A w \in Workers : WF_vars(WorkerStep(w))
        /\ \A s \in WaitSteps : WF_vars(ResumePause(s))
        /\ \A c \in Cancellers : WF_vars(CancelStep(c))

-----------------------------------------------------------------------------
(***************************************************************************)
(* Properties.                                                             *)
(***************************************************************************)
TypeOK ==
    /\ DOMAIN queue \subseteq JobIds /\ \A j \in DOMAIN queue : queue[j] \in Items
    /\ enqueued \subseteq JobIds
    /\ output \in [Results -> {"none", "data", "error"}]
    /\ status \in {"running"} \cup Terminal
    /\ exists \in BOOLEAN
    /\ md \in [versioned : BOOLEAN, noImmediate : BOOLEAN]
    /\ pauses \in [WaitSteps -> {"none", "saved", "consumed"}]
    /\ pc \in [Workers -> {"idle", "exec", "start_meta", "handle", "meta_write",
                           "ops", "op_enqueue", "final_finish", "final_status"}]
    /\ job \in [Workers -> JobIds \cup {None}]
    /\ resp \in [Workers -> Responses \cup {None}]
    /\ \A w \in Workers : ops[w] \subseteq Opcodes /\ opErr[w] \in BOOLEAN
    /\ cpc \in [Cancellers -> {"idle", "load", "mark", "delete", "consume"}]
    /\ cancelPause \in {"none", "saved", "orphaned", "consumed", "deleted"}
    /\ cagg \in BOOLEAN
    /\ finished \in Seq({"completed", "failed", "cancelled"})

(* Without crashes or redelivery, the user code of every step completes at *)
(* most once: once a parallel fan-out has been seen, HandleGeneratorResponse*)
(* turns immediate execution off, so the discovery items of the branches   *)
(* plan the next step (deduplicated by its "-plan" job id) instead of each *)
(* running it.                                                              *)
StepRunsOnce == \A s \in StepIds : stepRuns[s] <= 1

(* Two branches of a parallel stage that both reach the end of the         *)
(* function coalesce: ErrDuplicateResponse on the final SaveResponse lets  *)
(* only one of them run the finish handler, so "completed" is reported at  *)
(* most once (spec.md invariant 10).                                       *)
CompletedOnce ==
    Cardinality({i \in DOMAIN finished : finished[i] = "completed"}) <= 1

(* Once a parallel fan-out has turned immediate execution off it stays off: *)
(* no metadata write, whether HandleGeneratorResponse's update built from  *)
(* the metadata it read or Execute's write-back of the metadata it loaded, *)
(* may turn it back on.  Otherwise the join step after a fan-out is run in *)
(* line by every branch's discovery call.                                  *)
ImmediateStaysOff == [][md.noImmediate => md'.noImmediate]_md

(* A run's status never leaves a terminal state (spec.md invariant 8):     *)
(* neither SetStatus(failed) in HandleResponse, SetStatus(completed) after *)
(* the final save, nor Cancel may overwrite completed, failed or cancelled.*)
TerminalSticky == [][(status \in Terminal) => (status' = status)]_status

(* Every run ends: the items enqueued by the opcode handlers keep the run  *)
(* moving until HandleResponse or Cancel gives it a terminal status.       *)
RunTerminates == <>(status \in Terminal)

(* While the run is running its cancellation pause stays saved and         *)
(* indexed, so a matching event can still cancel it: neither strategy of   *)
(* HandlePauses consumes, deletes or drops the pause unless Cancel has     *)
(* found the run ended or gone, whatever the API Cancel, the workers and a *)
(* failed sm.Cancel do in between.                                         *)
CancelPauseHeld ==
    (CancelStrategies # {} /\ status = "running") => cancelPause = "saved"


=============================================================================
