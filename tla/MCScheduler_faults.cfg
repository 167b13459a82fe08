\* Schedule under one failed store or queue call: every request, retried by
\* its caller, is eventually answered.
SPECIFICATION Spec
CONSTANTS
    None = None
    Requests <- MCRequests
    Events = {"e1", "e2"}
    IdemKeys = {"k1"}
    Batches = {"b1", "b2"}
    HasCancel = TRUE
    MaxFaults = 1
    MaxMints <- MCMaxMints
PROPERTY RequestsAnswered
CHECK_DEADLOCK FALSE
