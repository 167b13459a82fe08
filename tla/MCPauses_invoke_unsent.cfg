\* An invoke whose invocation event fails to publish once.
SPECIFICATION Spec
CONSTANTS
    None = None
    Kinds <- MCInvoke
    Events <- MCNoEvents
    Matching <- MCNoEvents
    LateEvents = FALSE
    FaultSites <- MCSendSite
    MaxFaults = 1
PROPERTY InvocationPublished
CHECK_DEADLOCK FALSE
