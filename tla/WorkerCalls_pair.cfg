\* Two calls that share the stream and the Worker.
SPECIFICATION Spec
CONSTANTS
    Calls = {c1, c2}
    MaxBoots = 1
    MaxFrames = 1
    MaxFaults = 0
SYMMETRY CallSymmetry
CHECK_DEADLOCK FALSE
PROPERTIES
    CancelIsJustified
