---------------------------- MODULE MCExecutor ----------------------------
(***************************************************************************)
(* Instances of Executor for TLC.  Step ids are short strings; FnStep is   *)
(* the function's DAG step.  Each .cfg picks one shape of user function.   *)
(***************************************************************************)
EXTENDS Executor

(* a parallel fan-out joined by a sequential step                          *)
MCFanOutJoin == <<{"a", "b"}, {"c"}>>
(* a sleep, then a parallel fan-out that ends the function                 *)
MCSleepFanOut == <<{"s"}, {"a", "b"}>>
(* two sequential steps                                                    *)
MCSequence == <<{"a"}, {"b"}>>

(* a wait for an event, then one step                                     *)
MCWaitThenStep == <<{"w"}, {"a"}>>
(* a wait for an event, a parallel fan-out and the step that joins it      *)
MCWaitFanOutJoin == <<{"w"}, {"a", "b"}, {"c"}>>
(* a wait, a sleep, then a parallel fan-out that ends the function        *)
MCWaitSleepFanOut == <<{"w"}, {"s"}, {"a", "b"}>>
(* a wait for an event, then a parallel fan-out that ends the function    *)
MCWaitFanOut == <<{"w"}, {"a", "b"}>>

MCSleepSteps == {"s"}
MCWaitSteps == {"w"}
MCNoWaits == {}
MCOutcomesAll == {"ok", "error", "fatal", "transport"}
MCOutcomesStep == {"ok", "error", "fatal"}
MCOutcomesOk == {"ok"}
MCWorkerSymmetry == Permutations(Workers)
MCNoCancel == {}
MCBothStrategies == {"naive", "aggregate"}
=============================================================================
