CONSTANTS
    p1 = p1
    p2 = p2
    k1 = k1
    k2 = k2
    Provider = {p1, p2}
    Image = {"i1", "i2", "i3"}
    Key = {k1, k2}
    KeyOf <- MCKeyOf
    LinkName = {"n1", "n2"}
    Hosts = {"default", "other"}
    HostName = "default"
    Specs <- SharedSpecs
    NoObject = NoObject
    NoStatus = NoStatus
    NoImage = NoImage
    Free = Free
    MaxEdits = 3
    MaxFailures = 0
    MaxCrashes = 0
    MaxFaults = 0
CHECK_DEADLOCK FALSE
SPECIFICATION Spec
INVARIANTS ProvidersObserved
