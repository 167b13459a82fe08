\* A sleep then a parallel fan-out that ends the function, every SDK outcome,
\* one Cancel: SetStatus(completed) races Cancel and a failing branch.
CONSTANTS
    Workers = {w1, w2}
    None = None
    FnStep = "fn"
    Stages <- MCSleepFanOut
    SleepSteps <- MCSleepSteps
    WaitSteps <- MCNoWaits
    Outcomes <- MCOutcomesAll
    Retries = 1
    SourceEdgeRetries = 2
    DefaultMaxAttempts = 2
    MaxFaults = 0
    MaxCancels = 1
    CancelStrategies <- MCNoCancel
SPECIFICATION Spec
CHECK_DEADLOCK FALSE
PROPERTY TerminalSticky
