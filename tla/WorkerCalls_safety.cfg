\* One call, three device processes, crashes and obsolete connections, with the
\* fairness of turns, streams, supervisor and device.
SPECIFICATION FairSpec
CONSTANTS
    Calls = {c1}
    MaxBoots = 3
    MaxFrames = 2
    MaxFaults = 2
CHECK_DEADLOCK FALSE
INVARIANTS
    TypeOK
    OnceOnly
    DeliveredIsCurrent
PROPERTIES
    KeepsPromise
    
