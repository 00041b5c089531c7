\* Every turn ends, whatever fault hits it; the notes loop is on, its budget
\* used up.
SPECIFICATION FairSpec
CONSTANTS
    Tasks = {t1, t2}
    NoTask = NoTask
    MaxFailures = 2
    MaxPerTurn = 0
    CheckpointRetries = 0
    ProactiveCompactions = 1
    NotesContinuation = TRUE
    MaxRequests = 2
    MaxItems = 0
    MaxFaults = 1
CHECK_DEADLOCK FALSE
PROPERTIES
    RunningEnds
    SignalledEnds
