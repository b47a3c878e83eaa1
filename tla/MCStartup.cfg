SPECIFICATION FairSpec
CONSTANTS
    p1 = p1
    p2 = p2
    p3 = p3
    port = port
    Processes = {p1, p2, p3}
    NoFile = NoFile
    NoKey = NoKey
    MaxFaults = 1
    MaxCrashes = 1
    Ports = {port}
    PortOf <- MCPortOf
    Upnp = {p1, p2}
    Gateways = {g1, g2}
    NoGateway = NoGateway
    Nobody = Nobody
INVARIANTS
    Inv
PROPERTIES
    KeysAreForever
    StartAndStopEnd
CHECK_DEADLOCK FALSE
