\* One device, and an empty unit that NVS names; a cycle reads two registers
\* whose replies look alike, and the scan one whose reply does not.
SPECIFICATION FairSpec
CONSTANTS
    Devices = {1}
    Known = 2
    ScanHi = 2
    ScanRead <- MCScanUnlike
    CycleReads <- MCReads
    MaxQueue = 2
INVARIANTS TypeOK FreshFrameExact FoundUnitIsThere
PROPERTY BusHeals
CHECK_DEADLOCK FALSE
