\* A wait then a parallel fan-out that ends the function; one crash, lease expiry,
\* failed enqueue or failed sm.Cancel; Cancel from the API and from a cancellation event.
CONSTANTS
    Workers = {w1, w2}
    None = None
    FnStep = "fn"
    Stages <- MCWaitFanOut
    SleepSteps <- MCSleepSteps
    WaitSteps <- MCWaitSteps
    Outcomes <- MCOutcomesOk
    Retries = 1
    SourceEdgeRetries = 2
    DefaultMaxAttempts = 2
    MaxFaults = 1
    MaxCancels = 2
    CancelStrategies <- MCBothStrategies
SYMMETRY MCWorkerSymmetry
SPECIFICATION Spec
CHECK_DEADLOCK FALSE
INVARIANT CompletedOnce CancelPauseHeld
