CONSTANTS
    m1 = m1
    m2 = m2
    m3 = m3
    Messages = {m1, m2, m3}
    Size <- MCSize
    Prefix = 2
    Base = 4
    Buffer = 4
    WriteBurst = 6
    ReadBurst = 3
SPECIFICATION Spec
INVARIANT Inv
PROPERTIES SendReturns ImplementsMessageChannel
CHECK_DEADLOCK FALSE
