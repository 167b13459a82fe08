\* A parallel fan-out joined by one step, every SDK outcome, no faults.
CONSTANTS
    Workers = {w1, w2}
    None = None
    FnStep = "fn"
    Stages <- MCWaitFanOutJoin
    SleepSteps <- MCSleepSteps
    WaitSteps <- MCWaitSteps
    Outcomes <- MCOutcomesAll
    Retries = 1
    SourceEdgeRetries = 2
    DefaultMaxAttempts = 2
    MaxFaults = 0
    MaxCancels = 0
    CancelStrategies <- MCNoCancel
SPECIFICATION Spec
CHECK_DEADLOCK FALSE
INVARIANT TypeOK StepRunsOnce
PROPERTY RunTerminates
