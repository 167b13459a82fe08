\* A wait for an event, then one step that may fail; the step allows one
\* attempt while the queue gives the resumed item its default of two.
CONSTANTS
    Workers = {w1, w2}
    None = None
    FnStep = "fn"
    Stages <- MCWaitThenStep
    SleepSteps <- MCSleepSteps
    WaitSteps <- MCWaitSteps
    Outcomes <- MCOutcomesStep
    Retries = 0
    SourceEdgeRetries = 2
    DefaultMaxAttempts = 2
    MaxFaults = 0
    MaxCancels = 0
    CancelStrategies <- MCNoCancel
SPECIFICATION Spec
CHECK_DEADLOCK FALSE
PROPERTY RunTerminates
