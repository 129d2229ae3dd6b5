CONSTANTS
    ma = ma
    mb = mb
    mc = mc
    Request = {r1}
    MaxDepth <- Depth3
    r1 = r1
    Running = {ma, mb}
    Removable = {}
    Actor = {ma, mb}
    Contract = {mc}
    Caps <- MCCaps
    Wires <- MCWires
    CanCall <- Back
    Chunks <- MCChunks
    LinkName = {"default"}
    Default = "default"
    Provider = {p}
    NoContract = NoContract
    NoTarget = NoTarget
    NoEntity = NoEntity
    MaxOps <- OneOp
    MaxFailures = 0
CHECK_DEADLOCK FALSE
SPECIFICATION FairSpec
PROPERTIES CallsReturn
