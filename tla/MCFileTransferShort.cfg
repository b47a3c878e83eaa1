CONSTANTS
    t1 = t1
    t2 = t2
    a = a
    b = b
    grown = grown
    Transfers = {t1, t2}
    None = None
    Expected <- MCExpected
    Requested = {t1}
    Block = {a, b, grown}
    Source <- MCSource
    Extra = grown
    FileMayChange = TRUE
    Shard <- MCShard
    Closers = {}
    DiskMayFail = FALSE
    MaxWire = 0
    MaxReceived = 0
SPECIFICATION FTSpec
INVARIANT CompletedHasDeclaredSize
CHECK_DEADLOCK FALSE
