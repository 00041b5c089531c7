\* A tool call of a superseded request.
SPECIFICATION Spec
CONSTANTS
    Tasks = {t1, t2}
    NoTask = NoTask
    MaxFailures = 2
    MaxPerTurn = 1
    CheckpointRetries = 0
    ProactiveCompactions = 0
    NotesContinuation = FALSE
    MaxRequests = 2
    MaxItems = 1
    MaxFaults = 0
SYMMETRY SlotSymmetry
CHECK_DEADLOCK FALSE
PROPERTIES
    BlockedByCurrent
