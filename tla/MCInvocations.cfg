CONSTANTS
    ma = ma
    mb = mb
    mc = mc
    Request = {r1, r2}
    MaxDepth <- Depth2
    r1 = r1
    Running = {ma, mb}
    Removable = {ma}
    Actor = {ma, mb}
    Contract = {mc}
    Caps <- MCCaps
    Wires <- MCWires
    CanCall <- Downward
    Chunks <- MCChunks
    LinkName = {"default"}
    Default = "default"
    Provider = {p}
    NoContract = NoContract
    NoTarget = NoTarget
    NoEntity = NoEntity
    MaxOps <- OnlyA
    MaxFailures = 1
CHECK_DEADLOCK FALSE
SPECIFICATION FairSpec
INVARIANTS TypeOK CallsKeepTheirLink
PROPERTIES NoDropUnderCall InvocationsEnd LinkChangesEnd
