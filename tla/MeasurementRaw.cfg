\* An operator who describes the device as it is.
SPECIFICATION Spec
CONSTANTS
    Base = 4
    Exact = 64
    Unit = 10
    NaN = NaN
    NSlots = 3
    Device <- MCDevice
    Readings <- MCReadings
    Losses <- MCLosses
    Edits <- MCEdits
    Least = 10
    Most = 300
    Large = 200
    HandWritten <- MCHandWritten
    Budget = 8
    MaxMeas = 3
    NoKey = NoKey
    Nothing = Nothing
INVARIANT KeepsRaw
