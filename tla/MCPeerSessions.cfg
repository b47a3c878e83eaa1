CONSTANTS
    s1 = s1
    s2 = s2
    s3 = s3
    i1 = i1
    i2 = i2
    Sessions = {s1, s2, s3}
    Ids = {i1, i2}
    SessionId <- MCSessionId
    NoSession = NoSession
    Hanging = {s2}
    Listener = Listener
    Monitors = {m1}
    Callers = {c1}
    MaxSessions = 2
SPECIFICATION Spec
INVARIANT Inv
PROPERTIES MonitorRecovers ImplementsSessionLifecycle
CHECK_DEADLOCK FALSE
