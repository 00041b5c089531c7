\* A title request between a switch and the next attempt.
SPECIFICATION CcSpec
CONSTANTS
    Models = {A, B}
    Ups = {u}
    CallIds = {k1}
    Manuals = {m}
    LoadCap = 1
    MaxHistory = 4
    MaxEvents = 2
CHECK_DEADLOCK FALSE
INVARIANTS
    EnvelopesStayHome
