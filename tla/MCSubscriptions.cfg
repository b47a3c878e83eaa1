SPECIFICATION FairSpec
CONSTANTS
    s1 = s1
    s2 = s2
    s3 = s3
    alice = alice
    bob = bob
    friends = friends
    byName = byName
    byGroup = byGroup
    anyone = anyone
    a = a
    d = d
    music = music
    Sessions = {s1, s2, s3}
    Peers = {alice, bob}
    PeerOf <- MCPeerOf
    NameOf <- MCNameOf
    Groups = {friends}
    GroupsOf <- MCGroupsOf
    Everyone = ""
    Subs = {byName, anyone}
    SourceGroup <- MCSourceGroup
    TargetPath <- MCTargetPath
    Paths = {a, d}
    Contents <- MCContents
    Offers <- MCOffers
    Monitor = Monitor
    Calls = {api}
    NoEvent = NoEvent
    NoSub = NoSub
    NoSession = NoSession
    MaxRemovals = 1
    MaxFaults = 1
INVARIANTS
    SubInv
    SyncServesNamedSources
PROPERTIES
    HeardIsSynced
CHECK_DEADLOCK FALSE
