CONSTANTS
    t1 = t1
    Transfers = {t1}
    None = None
    Expected <- MCExpected
    Requested = {t1}
    Block = {a}
    Shard <- MCShard
    c1 = c1
    Closers = {c1}
    DiskMayFail = TRUE
    MaxWire = 1
    MaxReceived = 2
SPECIFICATION Spec
INVARIANTS Inv SuccessIsVerified NeverTooMuch StuckOnlyOnDeadTransfer
PROPERTIES ResultIsFinal SilentRemoteIsGivenUp
CHECK_DEADLOCK FALSE
