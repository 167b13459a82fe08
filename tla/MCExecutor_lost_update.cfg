\* A parallel fan-out joined by one step; one crash, lease expiry or failed
\* enqueue lets a stale metadata snapshot be written back.
CONSTANTS
    Workers = {w1, w2}
    None = None
    FnStep = "fn"
    Stages <- MCFanOutJoin
    SleepSteps <- MCSleepSteps
    WaitSteps <- MCNoWaits
    Outcomes <- MCOutcomesOk
    Retries = 1
    SourceEdgeRetries = 2
    DefaultMaxAttempts = 2
    MaxFaults = 1
    MaxCancels = 0
    CancelStrategies <- MCNoCancel
SPECIFICATION Spec
CHECK_DEADLOCK FALSE
PROPERTY ImmediateStaysOff
