\* A cancellation handed to a broken connection.
SPECIFICATION FairSpec
CONSTANTS
    Calls = {c1}
    MaxBoots = 1
    MaxFrames = 1
    MaxFaults = 0
CHECK_DEADLOCK FALSE
PROPERTIES
    PendingCancelArrives
