CONSTANTS
    Contract <- MCContract
    LinkName <- OneLinkName
    ActorKey <- OneActorKey
    ProviderKey <- MCProviderKey
    ActorName <- MCActorName
    ProviderName <- MCProviderName
    Specs <- NameOnlySpecs
    Link = {l1}
    NoObject = NoObject
    NoStatus = NoStatus
    NoLd = NoLd
    NoProvider = NoProvider
    Free = Free
    Peers = {h2}
    MaxCrashes = 1
    MaxFailures = 1
    MaxRewires = 1
    Resyncs = TRUE
SPECIFICATION Spec
INVARIANTS TypeOK EstablishedLinks
