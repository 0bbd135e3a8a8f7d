\* A known device and unnamed ones, two registers of which one fits a
\* payload, and three confirmations or power cuts.
SPECIFICATION FairSpec
CONSTANTS
    meter = meter
    Names = {meter}
    NoName = NoName
    Regs = {1, 2}
    Budget = 1
    MaxByte = 2
    Shipped <- MCShipped
    ToolCodec <- MCToolCodec
    Backlog = {1}
    Nothing = Nothing
    Partial = Partial
    MaxConfirms = 3
INVARIANTS TypeOK   ArtifactsDecode OneDeviceProfile
PROPERTIES  ImplementsSession
