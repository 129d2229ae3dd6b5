CONSTANTS
    Contract <- MCContract
    LinkName <- OneLinkName
    ActorKey <- OneActorKey
    ProviderKey <- MCProviderKey
    ActorName <- NoNames
    ProviderName <- NoNames
    Specs <- KeySpecs
    Link = {l1, l2}
    NoObject = NoObject
    NoStatus = NoStatus
    NoLd = NoLd
    NoProvider = NoProvider
    Free = Free
    Peers = {}
    MaxCrashes = 1
    MaxFailures = 1
    MaxRewires = 0
    Resyncs = FALSE
SYMMETRY Symmetry
SPECIFICATION Spec
INVARIANTS LinkTablesAgree EstablishedLinks AnnouncedLinks DeletionsStayDue
PROPERTIES LinksImplementRegistry
