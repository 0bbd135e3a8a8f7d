\* The shipped timings, in units of 0.5 s: 40 reads (DP_MAX_MEAS), 2 s sleep
\* chunks, a 60 s interval, the default 15 s watchdog, and an instant uplink.
SPECIFICATION MeteredSpec
CONSTANTS
    Units = {1}
    Foreign = {}
    ScanHi = 1
    DefaultUnit = 1
    NMeas = 40
    NCompiled = 7
    MaxSilent = 3
    SendCost = 0
    Chunk = 4
    Chunks = 30
    WdtTimeout = 30
    NoFrame = NoFrame
    MaxEvents = 1
INVARIANTS NeverStarved
CHECK_DEADLOCK FALSE
