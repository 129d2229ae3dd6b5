CONSTANTS
    a1 = a1
    a2 = a2
    Actor = {a1, a2}
    Hosts = {"default", "other"}
    Image = {"i1", "i3"}
    Key = {k1, k2}
    k1 = k1
    k2 = k2
    KeyOf <- MCKeyOf
    HostName = "default"
    Specs <- OwnSpecs
    GroupId = {1, 2, 3, 4}
    NoObject = NoObject
    NoStatus = NoStatus
    NoKey = NoKey
    NoGroup = NoGroup
    NoEntry = NoEntry
    Free = Free
    MaxReplicas = 1
    MaxRunning = 2
    MaxEdits = 3
    MaxFailures = 0
    MaxCrashes = 0
    Resyncs = TRUE
    TakenElsewhere = {}
CHECK_DEADLOCK FALSE
SPECIFICATION Spec
INVARIANTS HostStatusObserved
