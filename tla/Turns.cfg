\* The components of a turn that need no fairness: turns of ThreadRun that
\* overflow, and the notes loop of one turn with a fault; the context of a
\* Thread; the stream of one response.
SPECIFICATION TurnsSpec
CONSTANTS
    Tasks = {t1, t2}
    NoTask = NoTask
    MaxFailures = 2
    MaxPerTurn = 1
    CheckpointRetries = 1
    ProactiveCompactions = 1
    NotesContinuation = FALSE
    MaxRequests = 2
    MaxItems = 1
    MaxFaults = 0
    Models = {A, B}
    Ups = {u}
    CallIds = {k1}
    Manuals = {m}
    LoadCap = 1
    MaxHistory = 4
    MaxEvents = 2
    MaxRsItems = 2
    MaxPieces = 2
    MaxRsFaults = 1
    Habits = {}
SYMMETRY SlotSymmetry
CHECK_DEADLOCK FALSE
INVARIANTS
    TurnsTypeOK
    CheckpointKeepsPairs
    NudgeBudget
    SwitchStripsEnvelopes
    LoadedCopiesCurrent
    ToolRunsAreContiguous
    RecordsTellTheResponse
