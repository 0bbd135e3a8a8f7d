\* Profiles made by the station and by hand, any readings one after another.
SPECIFICATION Spec
CONSTANTS
    Base = 4
    Exact = 64
    Unit = 10
    NaN = NaN
    NSlots = 3
    Device <- MCDevice
    Readings <- MCReadings
    Losses <- MCLosses
    Edits <- MCEdits
    Least = 10
    Most = 300
    Large = 200
    HandWritten <- MCHandWritten
    Budget = 8
    MaxMeas = 3
    NoKey = NoKey
    Nothing = Nothing
INVARIANTS TypeOK  LayoutSound
PROPERTY NeverFalls
