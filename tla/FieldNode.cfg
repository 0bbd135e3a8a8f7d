\* Two unit IDs inside the scanned range, the default outside what is wired
\* first, two reads per cycle of a profiled node, three of an unprofiled one,
\* and a watchdog that the first just fits and the second does not.
SPECIFICATION FairSpec
CONSTANTS
    Units = {1, 2}
    Foreign = {}
    ScanHi = 2
    DefaultUnit = 2
    NMeas = 2
    NCompiled = 3
    MaxSilent = 3
    SendCost = 1
    Chunk = 2
    Chunks = 1
    WdtTimeout = 6
    NoFrame = NoFrame
    MaxEvents = 2
INVARIANTS TypeOK NoWdtPanic StaleFlagExact SilenceDetected NextBootProbesThisUnit
PROPERTIES ImplementsWorkflow FreshDataResumes
CHECK_DEADLOCK FALSE
