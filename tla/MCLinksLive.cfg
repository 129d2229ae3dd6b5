CONSTANTS
    Contract <- MCContract
    LinkName <- OneLinkName
    ActorKey <- OneActorKey
    ProviderKey <- MCProviderKey
    ActorName <- MCActorName
    ProviderName <- MCProviderName
    Specs <- NamedSpecs
    Link = {l1, l2}
    NoObject = NoObject
    NoStatus = NoStatus
    NoLd = NoLd
    NoProvider = NoProvider
    Free = Free
    Peers = {}
    MaxCrashes = 0
    MaxFailures = 0
    MaxRewires = 2
    Resyncs = FALSE
SPECIFICATION FairSpec
PROPERTIES WantedLinksGetLinked DeletionsComplete
