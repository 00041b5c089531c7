\* Prompts, Stop, Continue and Compact against tasks, supervisor and faults.
SPECIFICATION Spec
CONSTANTS
    Tasks = {t1, t2}
    NoTask = NoTask
    MaxFailures = 2
    MaxPerTurn = 1
    CheckpointRetries = 0
    ProactiveCompactions = 0
    NotesContinuation = FALSE
    MaxRequests = 3
    MaxItems = 1
    MaxFaults = 1
SYMMETRY SlotSymmetry
CHECK_DEADLOCK FALSE
INVARIANTS
    TypeOK
    BoundaryOwnsHistory
    StoppedStaysStopped
    LoopIsRegistered
    IdleIsExplained
    AnsweredOnce
    RetryBudget
PROPERTIES
    SettledBeforeInference
