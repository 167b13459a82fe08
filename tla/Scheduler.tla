----------------------------- MODULE Scheduler -----------------------------
(***************************************************************************)
(* executor.Schedule (pkg/execution/executor/executor.go) turning schedule *)
(* requests into runs, as its callers drive it: a caller retries a         *)
(* request on error and takes ErrIdentifierExists, ErrFunctionDebounced    *)
(* and ErrFunctionSkipped as answers (spec.md section 7: conflicts are     *)
(* idempotent success, transient errors are retried).  Each call into the  *)
(* state store or the queue is a step of its own and may fail, within      *)
(* MaxFaults.  Requests are scheduled concurrently.                        *)
(***************************************************************************)
EXTENDS Naturals, FiniteSets

CONSTANTS
    Requests,    \* the schedule requests, records (see Request below)
    Events,      \* internal event ids
    IdemKeys,    \* explicit idempotency keys
    Batches,     \* batch ids
    HasCancel,   \* the function declares a cancellation trigger
    MaxMints,    \* bound on run ids a request may mint (one per call)
    MaxFaults,   \* bound on failed store or queue calls
    None

(* A request: its explicit idempotency key, its first event, the number of *)
(* events, its batch, whether it is a rerun of an earlier run, whether the *)
(* function debounces it, whether the function is paused.                  *)
Request == [idem : IdemKeys \cup {None}, evt : Events, nevents : {1, 2},
            batch : Batches \cup {None}, rerun : BOOLEAN, debounce : BOOLEAN,
            paused : BOOLEAN]

ASSUME Requests \subseteq Request

VARIABLES
    runs,     \* keys the state store holds a run state for (sm.New)
    pauses,   \* keys whose cancellation pause has been saved
    queued,   \* keys whose start item "<fn>:<key>" the queue has accepted
    pc,       \* request -> where its current Schedule call is
    key,      \* request -> the key its current call computed
    mints,    \* request -> run ids minted so far (one per call)
    faults

vars == <<runs, pauses, queued, pc, key, mints, faults>>

(* The run id of the n-th call of request r: ulid.MustNew(ulid.Now(), ...) *)
(* is new on every call.                                                   *)
RunID(r, n) == <<"run", r, n>>

(* The idempotency key of a call: a rerun's new run id overrides the      *)
(* explicit key; without either, the id of a single event, then the batch *)
(* id, else "".                                                            *)
ScheduleKey(r, n) ==
    IF r.rerun THEN RunID(r, n)
    ELSE IF r.idem # None THEN <<"idem", r.idem>>
    ELSE IF r.nevents = 1 THEN <<"event", r.evt>>
    ELSE IF r.batch # None THEN <<"batch", r.batch>>
    ELSE <<"empty">>

Init ==
    /\ runs   = {}
    /\ pauses = {}
    /\ queued = {}
    /\ pc     = [r \in Requests |-> "call"]
    /\ key    = [r \in Requests |-> None]
    /\ mints  = [r \in Requests |-> 0]
    /\ faults = 0

Answer(r) == pc' = [pc EXCEPT ![r] = "done"]
Retry(r)  == pc' = [pc EXCEPT ![r] = "call"]
Goto(r, p) == pc' = [pc EXCEPT ![r] = p]
Fault == faults < MaxFaults /\ faults' = faults + 1

(* Schedule up to sm.New: a debounced request is handed to the debouncer;  *)
(* a new run id and the key are computed; a paused function is skipped.   *)
Call(r) ==
    /\ pc[r] = "call"
    /\ \/ /\ r.debounce
          /\ Answer(r)
          /\ UNCHANGED <<key, mints>>
       \/ /\ ~r.debounce /\ mints[r] < MaxMints
          /\ mints' = [mints EXCEPT ![r] = @ + 1]
          /\ key'   = [key EXCEPT ![r] = ScheduleKey(r, mints[r] + 1)]
          /\ IF r.paused THEN Answer(r) ELSE Goto(r, "new")
    /\ UNCHANGED <<runs, pauses, queued, faults>>

(* Mutant of AfterNew: a batched run returns before its start enqueue.    *)
AfterNewBatchReturns(r) ==
    IF HasCancel /\ r.batch = None THEN "pause"
    ELSE IF r.batch = None THEN "enqueue" ELSE "done"

(* After sm.New: cancellation pauses for a run that is not batched, then   *)
(* the start item.                                                         *)
AfterNew(r) == IF HasCancel /\ r.batch = None THEN "pause" ELSE "enqueue"

(* Mutant of New: ErrIdentifierExists treated as a transient error.      *)
NewExistsRetried(r) ==
    /\ pc[r] = "new"
    /\ \/ /\ key[r] \in runs
          /\ Retry(r)
          /\ UNCHANGED <<runs, faults>>
       \/ /\ key[r] \notin runs
          /\ Fault
          /\ Retry(r)
          /\ UNCHANGED runs
       \/ /\ key[r] \notin runs
          /\ runs' = runs \cup {key[r]}
          /\ Goto(r, AfterNew(r))
          /\ UNCHANGED faults
    /\ UNCHANGED <<pauses, queued, key, mints>>

(* sm.New: ErrIdentifierExists is surfaced (and taken as an answer); any   *)
(* other error is retried.                                                 *)
New(r) ==
    /\ pc[r] = "new"
    /\ \/ /\ key[r] \in runs
          /\ Answer(r)
          /\ UNCHANGED <<runs, faults>>
       \/ /\ key[r] \notin runs
          /\ Fault
          /\ Retry(r)
          /\ UNCHANGED runs
       \/ /\ key[r] \notin runs
          /\ runs' = runs \cup {key[r]}
          /\ Goto(r, AfterNew(r))
          /\ UNCHANGED faults
    /\ UNCHANGED <<pauses, queued, key, mints>>

(* sm.SavePause of the cancellation pause; an error returns &id, err.      *)
SaveCancelPause(r) ==
    /\ pc[r] = "pause"
    /\ \/ /\ Fault
          /\ Retry(r)
          /\ UNCHANGED pauses
       \/ /\ pauses' = pauses \cup {key[r]}
          /\ Goto(r, "enqueue")
          /\ UNCHANGED faults
    /\ UNCHANGED <<runs, queued, key, mints>>

(* Mutant of QueueKey: the start item's job id built from the run id.     *)
QueueKeyRunID(r) == RunID(r, mints[r])

(* The job id "<fn>:<key>" of the start item (the function is fixed).     *)
QueueKey(r) == key[r]

(* queue.Enqueue of the start item: ErrQueueItemExists is mapped to       *)
(* ErrIdentifierExists; any other error is returned.                       *)
EnqueueStart(r) ==
    /\ pc[r] = "enqueue"
    /\ \/ /\ QueueKey(r) \in queued
          /\ Answer(r)
          /\ UNCHANGED <<queued, faults>>
       \/ /\ QueueKey(r) \notin queued
          /\ Fault
          /\ Retry(r)
          /\ UNCHANGED queued
       \/ /\ QueueKey(r) \notin queued
          /\ queued' = queued \cup {QueueKey(r)}
          /\ Answer(r)
          /\ UNCHANGED faults
    /\ UNCHANGED <<runs, pauses, key, mints>>

Step(r) == Call(r) \/ New(r) \/ SaveCancelPause(r) \/ EnqueueStart(r)

Next == \E r \in Requests : Step(r)

(* A caller keeps calling until it has an answer.                         *)
Spec == Init /\ [][Next]_vars /\ \A r \in Requests : WF_vars(Step(r))

-----------------------------------------------------------------------------
(* A run whose requests have all been answered has its start item in the  *)
(* queue: Schedule never leaves a run state (or its cancellation pause)    *)
(* behind without the item that starts the run, whatever calls failed and  *)
(* were retried.                                                           *)
NoOrphanRun ==
    \A k \in runs :
        (\A r \in Requests : key[r] = k => pc[r] = "done") => k \in queued

(* Every request is eventually answered: the callers' retry loops end,   *)
(* because sm.New's and the queue's ErrIdentifierExists are answers, so a  *)
(* request that loses the key to another delivery of the same event, or   *)
(* whose own earlier call got past sm.New before a failure, stops.         *)
RequestsAnswered == <>(\A r \in Requests : pc[r] = "done")

=============================================================================
