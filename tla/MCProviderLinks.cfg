CONSTANTS
    Contract <- MCContract
    LinkName <- MCLinkName
    ActorKey <- MCActorKey
    ProviderKey <- MCProviderKey
    ActorName <- MCActorName
    ProviderName <- MCProviderName
    Link = {l1}
    GivenLinks <- MCGivenLinks
    Image = {"i1"}
    KeyOf <- MCKeyOf
    GivenProviders <- MCGivenProviders
    Hosts = {"default"}
    HostName = "default"
    NoObject = NoObject
    NoStatus = NoStatus
    NoLd = NoLd
    NoProvider = NoProvider
    NoImage = NoImage
    Free = Free
    MaxCrashes = 1
    MaxEdits = 2
SPECIFICATION FairSpec
INVARIANTS ChildrenKnowTheirLinks
PROPERTIES NamedLinksGetServed DeletedLinksLeave
