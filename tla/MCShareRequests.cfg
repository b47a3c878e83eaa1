SPECIFICATION Spec
CONSTANTS
    s1 = s1
    s2 = s2
    alice = alice
    friends = friends
    photos = photos
    films = films
    x1 = x1
    x2 = x2
    x3 = x3
    c1 = c1
    f1 = f1
    d1 = d1
    Peers = {alice}
    NameOf <- MCNameOf
    Groups = {friends}
    GroupsOf <- MCGroupsOf
    Wildcard = "*"
    Shares = {photos, films}
    Lists <- MCLists
    Initially <- MCInitially
    Saves = {x1, x2, x3}
    SaveOf <- MCSaveOf
    Paths <- MCPaths
    Above <- MCAbove
    Chosen = {c1}
    NoPath = NoPath
    NoShare = NoShare
    NoLabel = NoLabel
    MaxEdits = 1
    Sessions = {s1, s2}
    PeerOf <- MCPeerOf
    Local = Local
    Requests = {r}
    Inputs <- MCInputs
    Entries = {f1, d1}
    Parent <- MCParent
    Root = Root
    NoSession = NoSession
INVARIANTS
    Inv
    ShowsAllPermitted
    DirectoriesOfShares
    NoDirectoryTwice
CHECK_DEADLOCK FALSE
