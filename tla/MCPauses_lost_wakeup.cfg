\* A wait with no event whose timeout enqueue, ConsumePause or continuation enqueue fails once.
SPECIFICATION Spec
CONSTANTS
    None = None
    Kinds <- MCWait
    Events <- MCNoEvents
    Matching <- MCNoEvents
    LateEvents = FALSE
    FaultSites <- MCLostWakeupSites
    MaxFaults = 1
PROPERTY RunResumes
CHECK_DEADLOCK FALSE
