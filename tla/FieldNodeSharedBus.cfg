\* Two devices of different types on one bus; the node is pinned to the meter.
SPECIFICATION PinnedSpec
CONSTANTS
    Units = {1, 2}
    Foreign = {1}
    ScanHi = 2
    DefaultUnit = 2
    NMeas = 2
    NCompiled = 1
    MaxSilent = 3
    SendCost = 1
    Chunk = 2
    Chunks = 1
    WdtTimeout = 6
    NoFrame = NoFrame
    MaxEvents = 2
PROPERTIES FreshDataResumes
CHECK_DEADLOCK FALSE
