------------------------------ MODULE Pauses ------------------------------
(***************************************************************************)
(* One opcode pause of a run (pkg/execution/executor/executor.go): the     *)
(* WaitForEvent or InvokeFunction handler saving it and enqueueing its     *)
(* timeout item, events handled by HandlePauses or HandleInvokeFinish, the *)
(* timeout item when it falls due, and Resume, which leases the pause,     *)
(* consumes it and enqueues the continuation.  An event reaches the pause  *)
(* through the naive strategy (the pause iterator) or, when many pauses    *)
(* wait on its name, through the aggregate strategy (the expression        *)
(* aggregator's index).  Each event is handled by its own goroutine; the   *)
(* timeout item and the opcode item are queue items, retried when their   *)
(* handler returns an error.  Calls into the store or the queue may fail,  *)
(* within MaxFaults.                                                       *)
(***************************************************************************)
EXTENDS Naturals

CONSTANTS
    Kinds,       \* opcodes: "wait" (WaitForEvent), "invoke" (InvokeFunction)
    Events,      \* events delivered for the pause's event name
    Matching,    \* the events whose data satisfies the pause expression
    LateEvents,  \* whether an event may arrive after the pause expired
    FaultSites,  \* the calls that may fail: save, timeout, send, lease,
                 \* consume, enqueue
    MaxFaults,
    None

ASSUME /\ Kinds \subseteq {"wait", "invoke"} /\ Matching \subseteq Events
       /\ FaultSites \subseteq {"save", "timeout", "send", "lease", "consume",
                             "enqueue"}

Timer == "timer"              \* the pause-timeout queue item
Actors == Events \cup {Timer}

VARIABLES
    kind,      \* the opcode that created the pause
    pause,     \* the pause in the store: none, saved, consumed, deleted
    leasedBy,  \* the actor holding the pause lease (sm.LeasePause)
    data,      \* what ConsumePause stored: None, an event, or "nil"
    timeoutQ,  \* the timeout item "<key>-<step>-wait|invoke" is enqueued
    sent,      \* the invocation event is published (invoke only)
    cont,      \* the continuation item "<key>-<step>" is enqueued
    expired,   \* the clock is past the pause's expiry
    opc,       \* the opcode handler: save, timeout, send, done
    pc,        \* actor -> idle, lease, consume, enqueue, remove, retry, done
    agg,       \* actor -> the event came through handleAggregatePauses
    indexed,   \* the pause is in the expression aggregator's index
    faults

vars == <<kind, pause, leasedBy, data, timeoutQ, sent, cont, expired, opc, pc,
          agg, indexed, faults>>

Init ==
    /\ kind \in Kinds
    /\ pause = "none" /\ leasedBy = None /\ data = None
    /\ timeoutQ = FALSE /\ sent = FALSE /\ cont = FALSE /\ expired = FALSE
    /\ opc = "save"
    /\ pc = [a \in Actors |-> "idle"]
    /\ agg = [a \in Actors |-> FALSE] /\ indexed = FALSE
    /\ faults = 0

Fault(site) == site \in FaultSites /\ faults < MaxFaults /\ faults' = faults + 1
Goto(a, p) == pc' = [pc EXCEPT ![a] = p]

(* A pause the store can return: saved and not yet consumed or deleted.    *)
Found == pause = "saved"

-----------------------------------------------------------------------------
(* The opcode handler.  An error returns to the queue, which runs the     *)
(* step again; the SDK reports the same opcode and the handler starts over *)
(* at SavePause, whose deterministic id answers ErrPauseAlreadyExists,     *)
(* taken as success (return nil).                                          *)
SavePause ==
    /\ opc = "save"
    /\ \/ /\ pause # "none"
          /\ opc' = "done"
          /\ UNCHANGED <<kind, pause, faults>>
       \/ /\ pause = "none"
          /\ Fault("save")
          /\ UNCHANGED <<kind, pause, opc>>
       \/ /\ pause = "none"
          /\ pause' = "saved"
          /\ opc' = "timeout"
          /\ UNCHANGED faults
    /\ indexed' = (indexed \/ (pause = "none" /\ pause' = "saved"))
    /\ UNCHANGED <<kind, leasedBy, data, timeoutQ, sent, cont, expired, pc, agg>>

(* The timeout item at `expires`; ErrQueueItemExists returns nil.  For a   *)
(* wait any other error is returned; InvokeFunction overwrites it with the *)
(* publish's result and goes on to publish the event without a timeout.   *)
EnqueueTimeout ==
    /\ opc = "timeout"
    /\ \/ /\ Fault("timeout")
          /\ opc' = IF kind = "invoke" THEN "send" ELSE "save"
          /\ UNCHANGED timeoutQ
       \/ /\ timeoutQ' = TRUE
          /\ opc' = IF kind = "invoke" /\ ~timeoutQ THEN "send" ELSE "done"
          /\ UNCHANGED faults
    /\ UNCHANGED <<kind, pause, leasedBy, data, sent, cont, expired, pc, agg, indexed>>

(* handleSendingEvent of the invocation event; an error is returned.       *)
SendInvocation ==
    /\ opc = "send"
    /\ \/ /\ Fault("send")
          /\ opc' = "save"
          /\ UNCHANGED sent
       \/ /\ sent' = TRUE
          /\ opc' = "done"
          /\ UNCHANGED faults
    /\ UNCHANGED <<kind, pause, leasedBy, data, timeoutQ, cont, expired, pc, agg, indexed>>

(* Time passes the pause's expiry.                                         *)
Expire ==
    /\ pause # "none" /\ ~expired
    /\ expired' = TRUE
    /\ UNCHANGED <<kind, pause, leasedBy, data, timeoutQ, sent, cont, opc, pc, agg, indexed,
                   faults>>

-----------------------------------------------------------------------------
(* Mutant of ExpressionTrue: the evaluation result not required true.    *)
ExpressionIgnored(e) == TRUE

(* The pause expression evaluated on the event's data (with the pause's   *)
(* pre-filtered expression data); an error skips the pause.               *)
ExpressionTrue(e) == e \in Matching

(* handlePausesAllNaively, one goroutine per event, for a wait: a pause  *)
(* the iterator no longer returns is skipped, an expired one deleted, one *)
(* whose expression is false skipped; otherwise Resume is called.          *)
HandlePausesNaively(e) ==
    /\ kind = "wait" /\ pc[e] = "idle"
    /\ LateEvents \/ ~expired
    /\ \/ /\ ~Found
          /\ Goto(e, "done") /\ UNCHANGED pause
       \/ /\ Found /\ expired
          /\ pause' = "deleted"
          /\ Goto(e, "done")
       \/ /\ Found /\ ~expired /\ ~ExpressionTrue(e)
          /\ Goto(e, "done") /\ UNCHANGED pause
       \/ /\ Found /\ ~expired /\ ExpressionTrue(e)
          /\ Goto(e, "lease") /\ UNCHANGED pause
    /\ UNCHANGED <<kind, leasedBy, data, timeoutQ, sent, cont, expired, opc, agg, indexed,
                   faults>>

(* handleAggregatePauses, one goroutine per pause the aggregator returns: *)
(* the aggregator evaluates the expression over its index and hands back  *)
(* its copy of the pause, whatever the store now holds.  An expired pause  *)
(* is deleted and removed from the index; otherwise Resume is called.      *)
HandlePausesAggregate(e) ==
    /\ kind = "wait" /\ pc[e] = "idle"
    /\ LateEvents \/ ~expired
    /\ indexed /\ ExpressionTrue(e)
    /\ agg' = [agg EXCEPT ![e] = TRUE]
    /\ \/ /\ expired
          /\ pause' = IF Found THEN "deleted" ELSE pause
          /\ indexed' = FALSE
          /\ Goto(e, "done")
       \/ /\ ~expired
          /\ Goto(e, "lease")
          /\ UNCHANGED <<pause, indexed>>
    /\ UNCHANGED <<kind, leasedBy, data, timeoutQ, sent, cont, expired, opc, faults>>

(* HandleInvokeFinish, for a function-finished event of the invoked run:  *)
(* PauseByInvokeCorrelationID failing returns the error, an expired pause *)
(* is deleted, otherwise Resume is called.                                 *)
HandleInvokeFinish(e) ==
    /\ kind = "invoke" /\ sent /\ pc[e] = "idle"
    /\ LateEvents \/ ~expired
    /\ \/ /\ ~Found
          /\ Goto(e, "done") /\ UNCHANGED pause
       \/ /\ Found /\ expired
          /\ pause' = "deleted"
          /\ Goto(e, "done")
       \/ /\ Found /\ ~expired
          /\ Goto(e, "lease") /\ UNCHANGED pause
    /\ UNCHANGED <<kind, leasedBy, data, timeoutQ, sent, cont, expired, opc, agg, indexed,
                   faults>>

(* The pause-timeout item, once due, loads the pause and calls Resume with *)
(* OnTimeout set and no event; a pause no longer found ends the item.      *)
HandleTimeout ==
    /\ pc[Timer] \in {"idle", "retry"}
    /\ timeoutQ /\ expired
    /\ Goto(Timer, IF Found THEN "lease" ELSE "done")
    /\ UNCHANGED <<kind, pause, leasedBy, data, timeoutQ, sent, cont, expired, opc, agg,
                   indexed, faults>>

-----------------------------------------------------------------------------
(* Resume.  An error from the event path is logged and dropped by         *)
(* HandlePauses; one from the timeout item sends it back to the queue.     *)
Failed(a) == IF a = Timer THEN "retry" ELSE "done"

(* Where Resume returning nil leads: the aggregate strategy then removes   *)
(* the pause from its index; the naive one and the timeout item are done.  *)
Returned(a) == IF agg[a] THEN "remove" ELSE "done"

(* sm.LeasePause: ErrPauseLeased or ErrPauseNotFound returns nil; any      *)
(* other error is not checked, and Resume goes on without the lease.      *)
LeasePause(a) ==
    /\ pc[a] = "lease"
    /\ \/ /\ Found /\ leasedBy = None
          /\ leasedBy' = a
          /\ Goto(a, "consume")
          /\ UNCHANGED faults
       \/ /\ ~(Found /\ leasedBy = None)
          /\ Goto(a, Returned(a))
          /\ UNCHANGED <<leasedBy, faults>>
       \/ /\ Fault("lease")
          /\ Goto(a, "consume")
          /\ UNCHANGED leasedBy
    /\ UNCHANGED <<kind, pause, data, timeoutQ, sent, cont, expired, opc, agg, indexed>>

(* Mutant of TimeoutOnly: the r.EventID check dropped.                   *)
TimeoutOnlyNoEventCheck(a) == a = Timer

(* The early return `pause.OnTimeout && r.EventID != nil`: the timeout   *)
(* item passes OnTimeout and no event, an event the stored pause, whose   *)
(* OnTimeout is unset; the pause is consumed without data.                 *)
TimeoutOnly(a) == a = Timer /\ a \in Events

(* The data ConsumePause stores: the event's, or nil for the timeout.     *)
ResumeData(a) == IF a = Timer THEN "nil" ELSE a

(* sm.ConsumePause with the resume data; a pause deleted meanwhile gives  *)
(* ErrPauseNotFound, an error, as does a failed call.                      *)
ConsumePause(a) ==
    /\ pc[a] = "consume"
    /\ \/ /\ Found
          /\ pause' = "consumed"
          /\ data' = IF TimeoutOnly(a) THEN "nil" ELSE ResumeData(a)
          /\ Goto(a, IF TimeoutOnly(a) THEN Returned(a) ELSE "enqueue")
          /\ UNCHANGED faults
       \/ /\ ~Found
          /\ Goto(a, Failed(a))
          /\ UNCHANGED <<pause, data, faults>>
       \/ /\ Fault("consume")
          /\ Goto(a, Failed(a))
          /\ UNCHANGED <<pause, data>>
    /\ UNCHANGED <<kind, leasedBy, timeoutQ, sent, cont, expired, opc, agg, indexed>>

(* queue.Enqueue of the continuation "<key>-<data key>", after consuming  *)
(* so the resume data is stored first; ErrQueueItemExists is success.     *)
EnqueueContinuation(a) ==
    /\ pc[a] = "enqueue"
    /\ \/ /\ Fault("enqueue")
          /\ Goto(a, Failed(a))
          /\ UNCHANGED cont
       \/ /\ cont' = TRUE
          /\ Goto(a, Returned(a))
          /\ UNCHANGED faults
    /\ UNCHANGED <<kind, pause, leasedBy, data, timeoutQ, sent, expired, opc, agg, indexed>>

(* exprAggregator.RemovePause after Resume returned nil.                  *)
RemovePause(a) ==
    /\ pc[a] = "remove"
    /\ indexed' = FALSE
    /\ Goto(a, "done")
    /\ UNCHANGED <<kind, pause, leasedBy, data, timeoutQ, sent, cont, expired, opc,
                   agg, faults>>

-----------------------------------------------------------------------------
Resume(a) == LeasePause(a) \/ ConsumePause(a) \/ EnqueueContinuation(a)

Next ==
    \/ SavePause \/ EnqueueTimeout \/ SendInvocation \/ Expire
    \/ HandleTimeout
    \/ \E e \in Events : \/ HandlePausesNaively(e) \/ HandlePausesAggregate(e)
                        \/ HandleInvokeFinish(e) \/ RemovePause(e)
    \/ \E a \in Actors : Resume(a)

(* The queue runs the opcode and timeout items, time passes, and Resume   *)
(* runs to its end; events arrive when they arrive.                        *)
Spec ==
    /\ Init /\ [][Next]_vars
    /\ WF_vars(SavePause \/ EnqueueTimeout \/ SendInvocation)
    /\ WF_vars(Expire) /\ WF_vars(HandleTimeout)
    /\ \A a \in Actors : WF_vars(Resume(a))
    /\ \A e \in Events : WF_vars(RemovePause(e))

-----------------------------------------------------------------------------
(* Every run that reaches the opcode eventually has its continuation      *)
(* enqueued, by a matching event or by the timeout item: the comment in   *)
(* handleGeneratorWaitForEvent says both routes conclude by calling the    *)
(* function once.                                                          *)
RunResumes == <>cont

(* The invocation event of an InvokeFunction opcode is eventually         *)
(* published, so that the invoked function runs.                          *)
InvocationPublished == <>(kind = "invoke" => sent)

(* The step's result as the run sees it: the data ConsumePause stored,   *)
(* once the continuation that reads it is enqueued.                        *)
Resolution == INSTANCE PauseResolution WITH result <- IF cont THEN data ELSE None

(* The pause machinery implements PauseResolution: the run resumes once,   *)
(* with a satisfying event's data or, after expiry, nil, and it resumes.   *)
ImplementsResolution == Resolution!Spec

=============================================================================
