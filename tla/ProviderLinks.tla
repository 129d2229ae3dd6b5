---------------------------- MODULE ProviderLinks ----------------------------
(***************************************************************************)
(* The link controller and the provider controller of one host, and what   *)
(* the children of the second know of the links of the first.              *)
(*                                                                         *)
(* They meet in three places.  A Link that names its provider by the name  *)
(* of a Provider object reads that object, whose status the provider       *)
(* controller writes.  start_provider gives a new child the definitions of *)
(* host.links that are for it, and keeps host.links read-locked until the  *)
(* child has them.  Later changes are published to the child, which gets   *)
(* those that are published after it subscribed.                           *)
(*                                                                         *)
(* Nothing fails here but the host itself, and there is no other host: the *)
(* failures of calls and the other hosts are in the two modules.  Actors   *)
(* come and go in Links, and are left out, so add_linkdef finds no group   *)
(* whose links it would have to wait for.                                  *)
(*                                                                         *)
(* Variables of Links have the prefix l where Providers has one of that    *)
(* name, those of Providers the prefix p.                                  *)
(***************************************************************************)
EXTENDS LinkSpecs, Naturals, FiniteSets

CONSTANTS
    Link, GivenLinks,           \* the Link objects and the specs users give them
    Image, KeyOf, GivenProviders,
    Hosts, HostName,
    NoObject, NoStatus, NoLd, NoProvider, NoImage, Free,
    MaxCrashes, MaxEdits

VARIABLES
    lapi, lstore, lqueue, ltask, ctxLock, ctxLinks, hostLinks, groups, groupLinks,
    told, failed, lcrashes, lfailures, actorPub, rewires,
    papi, pstore, pqueue, ptask, plock, providers, instances, alive,
    edits, pfailures, pcrashes,
    subscribed,  \* the children that have subscribed to their topics
    known,       \* the definitions each child has
    missed       \* those of which it missed a change when it had not subscribed yet

\* What add_link reads of a Provider object.
ProviderResource(n) ==
    LET o == papi[n] IN
    IF o = NoObject THEN NoProvider
    ELSE [link |-> o.spec.link, key |-> IF o.status = NoStatus THEN Empty ELSE o.status.publicKey]

L == INSTANCE Links WITH
        Specs <- GivenLinks, Peers <- {}, MaxFailures <- 0, MaxRewires <- 0, Resyncs <- FALSE,
        api <- lapi, store <- lstore, queue <- lqueue, task <- ltask, lock <- ctxLock,
        crashes <- lcrashes, failures <- lfailures,
        provPub <- [n \in ProviderName |-> ProviderResource(n)],
        seen <- [h \in {} |-> [l \in Link |-> NoObject]]

P == INSTANCE Providers WITH
        Provider <- ProviderName, Key <- ProviderKey, Specs <- GivenProviders,
        MaxFailures <- 0, MaxFaults <- MaxCrashes,
        api <- papi, store <- pstore, queue <- pqueue, task <- ptask, lock <- plock,
        failures <- pfailures, crashes <- pcrashes

\* The markers are not values; a Provider's key is the key of a child.
ASSUME ProviderLinksAssumption ==
    /\ GivenLinks \subseteq LinkSpec
    /\ KeyOf \in [Image -> ProviderKey]
    /\ GivenProviders \in [ProviderName -> SUBSET P!ProviderSpec]
    /\ NoLd \notin ResolvedLink \cup [ld : ResolvedLink, refs : SUBSET Link]
    /\ NoStatus \notin LinkStatus \cup P!ProviderStatus
    /\ NoObject \notin [spec : LinkSpec, status : LinkStatus \cup {NoStatus},
                        finalizer : BOOLEAN, deleting : BOOLEAN]
    /\ NoObject \notin [spec : P!ProviderSpec, status : P!ProviderStatus \cup {NoStatus},
                        finalizer : BOOLEAN, deleting : BOOLEAN]
    /\ Free \notin Link \cup ProviderName /\ NoImage \notin Image
    /\ MaxCrashes \in Nat /\ MaxEdits \in Nat

children == <<subscribed, known, missed>>
lvars == <<lapi, lstore, lqueue, ltask, ctxLock, ctxLinks, hostLinks, groups, groupLinks,
           told, failed, lcrashes, lfailures, actorPub, rewires>>
pvars == <<papi, pstore, pqueue, ptask, plock, providers, instances, alive,
           edits, pfailures, pcrashes>>
vars == <<lvars, pvars, children>>

Child == ProviderKey \X LinkName

\* The child whose topics the announcements of ld go to.
ChildOf(ld) == <<ld.provider_id, ld.link_name>>

Unaware == [c \in Child |-> {}]

Init ==
    /\ P!Init /\ L!Init
    /\ subscribed = {}
    /\ known = Unaware
    /\ missed = Unaware

----------------------------------------------------------------------------
(***************************************************************************)
(* start_provider and stop_provider with the links of the child            *)
(***************************************************************************)
HostLinks == {hostLinks[h] : h \in {g \in L!Hash : hostLinks[g] # NoLd}}

\* Mutant: the child is told of its links by publication only.
LinkDefinitionsNone(c) == {}

\* The definitions in a child's host data.
LinkDefinitions(c) == {ld \in HostLinks : ld.provider_id = c[1] /\ ld.link_name = c[2]}

\* Who is killed forgets, and who is spawned knows its host data.
ChildrenNow ==
    LET fresh == alive' \ alive IN
    /\ subscribed' = subscribed \cap alive'
    /\ known' = [c \in Child |-> IF c \in fresh THEN LinkDefinitions(c)
                                 ELSE IF c \in alive' THEN known[c] ELSE {}]
    /\ missed' = [c \in Child |-> IF c \in alive' \ fresh THEN missed[c] ELSE {}]

ProviderStart(n) == P!Start(n) /\ UNCHANGED <<lvars, children>>
ProviderLock(n) == P!Locking(n) /\ ChildrenNow /\ UNCHANGED lvars
ProviderStep(n) == P!Step(n) /\ ChildrenNow /\ UNCHANGED lvars
ProviderWatch(n) == P!Watch(n) /\ UNCHANGED <<lvars, children>>

ProviderUser(n) ==
    /\ \/ \E s \in GivenProviders[n] : P!Create(n, s)
       \/ P!Delete(n)
    /\ UNCHANGED <<lvars, children>>

\* A child subscribes some time after it has read its host data.
Subscribe(c) ==
    /\ c \in instances \cap alive
    /\ c \notin subscribed
    /\ subscribed' = subscribed \cup {c}
    /\ UNCHANGED <<lvars, pvars, known, missed>>

----------------------------------------------------------------------------
(***************************************************************************)
(* add_linkdef and delete_linkdef with the child they are published to     *)
(***************************************************************************)

\* start_provider keeps host.links read-locked until the child has its data.
HostLinksFree == \A n \in ProviderName : ~P!At(n, "feed")

LinkStart(l) == UNCHANGED <<pvars, children>> /\ L!Start(l)
LinkLock(l) == UNCHANGED <<pvars, children>> /\ L!Acquire(l)

\* host.links.write()
LinkHost(l) ==
    /\ HostLinksFree
    /\ UNCHANGED <<pvars, children>>
    /\ L!AddHost(l) \/ L!DelHost(l)

\* A published change reaches its child if that has subscribed.
Reaches(ld, new) ==
    LET c == ChildOf(ld) IN
    /\ known' = [known EXCEPT ![c] = IF c \in subscribed THEN new ELSE @]
    /\ missed' = [missed EXCEPT ![c] = IF c \in alive \ subscribed /\ new # known[c]
                                       THEN @ \cup {ld} ELSE @]
    /\ UNCHANGED subscribed

Put(l) ==
    LET ld == ltask[l].ld IN
    /\ UNCHANGED pvars
    /\ L!AddPublish(l)
    /\ Reaches(ld, known[ChildOf(ld)] \cup {ld})

Del(l) ==
    LET ld == ltask[l].ld IN
    /\ UNCHANGED pvars
    /\ L!DelPublish(l)
    /\ Reaches(ld, known[ChildOf(ld)] \ {ld})

LinkStep(l) ==
    \/ Put(l) \/ Del(l)
    \/ /\ UNCHANGED <<pvars, children>>
       /\ \/ L!AddFinalizer(l) \/ L!ResolveActor(l) \/ L!ResolveProvider(l)
          \/ L!AddGroup(l) \/ L!PatchStatus(l) \/ L!DelGroup(l) \/ L!Release(l)

LinkWatch(l) == UNCHANGED <<pvars, children>> /\ L!Watch(l)

LinkUser(l) ==
    /\ UNCHANGED <<pvars, children>>
    /\ \/ \E s \in GivenLinks : L!Create(l, s)
       \/ L!Delete(l)

----------------------------------------------------------------------------
\* The two controllers are one process.
Crash ==
    /\ P!Crash /\ L!Crash
    /\ subscribed' = {}
    /\ known' = Unaware
    /\ missed' = Unaware

Next ==
    \/ \E l \in Link : LinkStart(l) \/ LinkLock(l) \/ LinkHost(l) \/ LinkStep(l)
                       \/ LinkWatch(l) \/ LinkUser(l)
    \/ \E n \in ProviderName : ProviderStart(n) \/ ProviderLock(n) \/ ProviderStep(n)
                               \/ ProviderWatch(n) \/ ProviderUser(n)
    \/ \E c \in Child : Subscribe(c)
    \/ Crash

Spec == Init /\ [][Next]_vars

(***************************************************************************)
(* As for each of the two; a task that waits for host.links is served when *)
(* the child that is being started has its data.                           *)
(***************************************************************************)
Fairness ==
    /\ \A l \in Link : /\ WF_vars(LinkWatch(l)) /\ WF_vars(LinkStart(l)) /\ WF_vars(LinkStep(l))
                       /\ SF_vars(LinkLock(l)) /\ SF_vars(LinkHost(l))
    /\ \A n \in ProviderName : /\ WF_vars(ProviderWatch(n)) /\ WF_vars(ProviderStart(n))
                               /\ WF_vars(ProviderStep(n)) /\ SF_vars(ProviderLock(n))

FairSpec == Spec /\ Fairness

----------------------------------------------------------------------------
(***************************************************************************)
(* Properties.                                                             *)
(***************************************************************************)

\* A change of ld is in host.links and not yet published.
Unpublished(ld) ==
    \E l \in Link : /\ ltask[l].pc \in {"addGroup", "addPublish", "delGroup", "delPublish"}
                    /\ ltask[l].ld = ld

(***************************************************************************)
(* A child knows exactly the links host.links has for its key and link     *)
(* name, whether they came with its host data or were published to it,     *)
(* except for a change it missed because it had not subscribed yet: of the *)
(* interleavings of start_provider with add_linkdef and delete_linkdef,    *)
(* that window is the only one that loses a link.                          *)
(***************************************************************************)
ChildrenKnowTheirLinks ==
    \A c \in alive, ld \in ResolvedLink :
        ld \notin missed[c] /\ ~Unpublished(ld) =>
            (ld \in known[c] <=> ld \in HostLinks /\ ChildOf(ld) = c)

\* l and the Provider it names are there to stay, on this host.
Kept(l) ==
    /\ lapi[l] # NoObject /\ ~lapi[l].deleting
    /\ lapi[l].spec.provider.name # Empty
    /\ P!Kept(lapi[l].spec.provider.name)

\* The link of l is established, and its child runs and has it, or missed it.
Served(l) ==
    /\ L!Linked(l)
    /\ LET ld == hostLinks[HashOf(L!FromStatus(lapi[l]))] IN
       /\ ChildOf(ld) \in alive
       /\ ld \in known[ChildOf(ld)] \cup missed[ChildOf(ld)]

(***************************************************************************)
(* A Link that names a Provider object gets linked once both stay, in      *)
(* whichever order they are created and whenever the host crashes: the     *)
(* provider controller writes the key that add_link waits for, and the     *)
(* child that then runs has the link, unless it missed it as above.  (With *)
(* groups of actors it takes, besides, that their calls are answered.)     *)
(***************************************************************************)
NamedLinksGetServed ==
    \A l \in Link : ([]~L!Mismatched(l) /\ <>[]Kept(l)) => <>[]Served(l)

\* l stays for now, and its status says that it has its link.
Reports(l) ==
    /\ lapi[l] # NoObject /\ ~lapi[l].deleting
    /\ L!UsableStatus(lapi[l])

\* No definition counts l among those that want it.
Left(l) == \A id \in Id : ctxLinks[id] = NoLd \/ l \notin ctxLinks[id].refs

(***************************************************************************)
(* A Link that has its status when it is deleted gives its link up: the    *)
(* copy delete_link goes by has the status, also when an add_link of the   *)
(* same Link is still under way.  (A status that is patched after the      *)
(* deletion comes too late: the copy may be older.)                        *)
(***************************************************************************)
DeletedLinksLeave == \A l \in Link : <>[]Reports(l) \/ (Reports(l) ~> Left(l))
=============================================================================
