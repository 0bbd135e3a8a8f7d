\* The first onboarding of a device the tool's codec does not know.
SPECIFICATION Spec
CONSTANTS
    meter = meter
    Names = {meter}
    NoName = NoName
    Regs = {1}
    Budget = 1
    MaxByte = 2
    Shipped <- MCShipped
    ToolCodec <- MCToolCodec
    Backlog = {1}
    Nothing = Nothing
    Partial = Partial
    MaxConfirms = 1
INVARIANT SuccessDecodes
