\* Two sequential steps that succeed; one crash, lease expiry or failed enqueue.
CONSTANTS
    Workers = {w1, w2}
    None = None
    FnStep = "fn"
    Stages <- MCSequence
    SleepSteps <- MCSleepSteps
    WaitSteps <- MCNoWaits
    Outcomes <- MCOutcomesOk
    Retries = 1
    SourceEdgeRetries = 2
    DefaultMaxAttempts = 2
    MaxFaults = 1
    MaxCancels = 0
    CancelStrategies <- MCNoCancel
SPECIFICATION Spec
CHECK_DEADLOCK FALSE
PROPERTY RunTerminates
