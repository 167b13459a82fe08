\* A wait or an invoke, events arriving before expiry, one failed SavePause, publish or LeasePause: the run resumes, with nil only on timeout.
SPECIFICATION Spec
CONSTANTS
    None = None
    Kinds <- MCBothKinds
    Events <- MCEvents
    Matching <- MCMatching
    LateEvents = FALSE
    FaultSites <- MCRecoveredSites
    MaxFaults = 1
PROPERTY RunResumes ImplementsResolution
CHECK_DEADLOCK FALSE
