\* Schedule with one failed call after sm.New: the retry answers
\* ErrIdentifierExists and the run is never started.
SPECIFICATION Spec
CONSTANTS
    None = None
    Requests <- MCRequests
    Events = {"e1", "e2"}
    IdemKeys = {"k1"}
    Batches = {"b1", "b2"}
    HasCancel = TRUE
    MaxFaults = 1
    MaxMints <- MCMaxMints
INVARIANT NoOrphanRun
CHECK_DEADLOCK FALSE
