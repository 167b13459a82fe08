\* A wait with events that may arrive after expiry: an event deletes the expired pause before the timeout item loads it.
SPECIFICATION Spec
CONSTANTS
    None = None
    Kinds <- MCWait
    Events <- MCEvents
    Matching <- MCMatching
    LateEvents = TRUE
    FaultSites <- MCNoEvents
    MaxFaults = 0
PROPERTY RunResumes
CHECK_DEADLOCK FALSE
