\* Three slots: moves that fit, that wrap, that fill and that empty.
SPECIFICATION Spec
CONSTANTS
    Byte = {1, 2}
    Cap = 3
    Inputs <- MCInputs
    Lens <- MCLens
INVARIANT Consistent
PROPERTY IsBoundedFifo
