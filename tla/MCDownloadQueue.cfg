CONSTANTS
    d1 = d1
    d2 = d2
    Downloads = {d1, d2}
    None = None
    Workers = {w1, w2}
    MayAdd <- MCMayAdd
    Budget <- MCBudget
SPECIFICATION Spec
INVARIANTS Inv ReturnedMeansAllTried NewestFirst
PROPERTIES ClearSweeps ImplementsLifecycle IdleIsClaimed DownloadAllReturns
CHECK_DEADLOCK FALSE
