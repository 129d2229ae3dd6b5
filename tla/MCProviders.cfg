CONSTANTS
    p1 = p1
    p2 = p2
    k1 = k1
    k2 = k2
    Provider = {p1, p2}
    Image = {"i1", "i3"}
    Key = {k1, k2}
    KeyOf <- MCKeyOf
    LinkName = {"n1", "n2"}
    Hosts = {"default", "other"}
    HostName = "default"
    Specs <- OwnSpecs
    NoObject = NoObject
    NoStatus = NoStatus
    NoImage = NoImage
    Free = Free
    MaxEdits = 3
    MaxFailures = 1
    MaxCrashes = 1
    MaxFaults = 1
CHECK_DEADLOCK FALSE
SPECIFICATION FairSpec
INVARIANTS TypeOK ChildrenTracked ProvidersObserved
PROPERTIES ProvidersGetStarted ProviderDeletionsComplete
