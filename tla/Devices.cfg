\* Pairing, upgrades, calls of a shared Worker, eXe devices: each with its
\* fairness; and the recorders of routes and SQL statements.
SPECIFICATION DevicesSpec
CONSTANTS
    Accounts = {a1, a2}
    Nobody = nobody
    UpCalls = {c1}
    MaxUpgrades = 2
    MaxUpFrames = 2
    MaxUpFaults = 1
    ShCalls = {c1}
    MaxRevisions = 3
    MaxInputs = 2
    MaxShFaults = 1
    ExeCalls = {1, 2}
    DriveBatch = 1
    MaxPosts = 1
    MaxExeFaults = 1
    RpRequests = {r1, r2}
    MaxMinute = 2
    MinuteKept = 1
    SlowLimit = 1
    MaxRpFaults = 1
    Executions = {e1, e2}
    SqlKeys = {2, 4}
    SLOTS = 2
    PROBE = 1
    MaxPages = 1
    MaxCounted = 2
    MaxSqFaults = 1
CHECK_DEADLOCK FALSE
INVARIANTS
    DevicesTypeOK
    PairingSound
    UpgradeLosesNothing
    OneAnswerPerPhase
    
PROPERTIES
    UpgradeEnds
    StartsUnderItsGrant
    SharedCallAnswered
    ExeAnswerStands
    ExeCallEnds
