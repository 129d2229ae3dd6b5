------------------------ MODULE ProviderLinksProofs ------------------------
(***************************************************************************)
(* What the children know of the links, for any number of Links and        *)
(* Providers, of children and crashes.  The proofs of the two parts are    *)
(* used as they are: LP and PP are the instances of Links and Providers    *)
(* in ProviderLinks, with their theorems.                                  *)
(***************************************************************************)
EXTENDS ProviderLinks, TLAPS

LP == INSTANCE LinksProofs WITH
        Specs <- GivenLinks, Peers <- {}, MaxFailures <- 0, MaxRewires <- 0, Resyncs <- FALSE,
        api <- lapi, store <- lstore, queue <- lqueue, task <- ltask, lock <- ctxLock,
        crashes <- lcrashes, failures <- lfailures,
        provPub <- [n \in ProviderName |-> ProviderResource(n)],
        seen <- [h \in {} |-> [l \in Link |-> NoObject]]

PP == INSTANCE ProvidersProofs WITH
        Provider <- ProviderName, Key <- ProviderKey, Specs <- GivenProviders,
        MaxFailures <- 0, MaxFaults <- MaxCrashes,
        api <- papi, store <- pstore, queue <- pqueue, task <- ptask, lock <- plock,
        failures <- pfailures, crashes <- pcrashes

----------------------------------------------------------------------------
(***************************************************************************)
(* The two parts: what they assume, and their steps.                       *)
(***************************************************************************)

\* What LinksProofs assumes.
LEMMA LinksFacts ==
    /\ GivenLinks \subseteq LP!LinkSpec
    /\ NoLd \notin LP!ResolvedLink
    /\ NoLd \notin [ld : LP!ResolvedLink, refs : SUBSET Link]
    /\ NoStatus \notin LP!LinkStatus
    /\ NoObject \notin [spec      : LP!LinkSpec,
                        status    : LP!LinkStatus \cup {NoStatus},
                        finalizer : BOOLEAN,
                        deleting  : BOOLEAN]
    /\ Free \notin Link
    /\ FALSE \in BOOLEAN
    /\ MaxCrashes \in Nat
    /\ 0 \in Nat
BY ProviderLinksAssumption
   DEF LinkSpec, LP!LinkSpec, ResolvedLink, LP!ResolvedLink, LinkStatus, LP!LinkStatus, Empty, LP!Empty

\* What ProvidersProofs assumes.
LEMMA ProvidersFacts ==
    /\ KeyOf \in [Image -> ProviderKey]
    /\ GivenProviders \in [ProviderName -> SUBSET PP!ProviderSpec]
    /\ Free \notin ProviderName /\ NoImage \notin Image
    /\ NoStatus \notin PP!ProviderStatus
    /\ NoObject \notin [spec      : PP!ProviderSpec,
                        status    : PP!ProviderStatus \cup {NoStatus},
                        finalizer : BOOLEAN,
                        deleting  : BOOLEAN]
    /\ MaxEdits \in Nat /\ 0 \in Nat /\ MaxCrashes \in Nat
BY ProviderLinksAssumption DEF P!ProviderSpec, PP!ProviderSpec, P!ProviderStatus, PP!ProviderStatus

\* The steps of Links in ProviderLinks are those its theorems are about.
LEMMA LinkSteps ==
    ASSUME NEW l \in Link
    PROVE  /\ L!Start(l) => LP!Start(l)
           /\ L!Acquire(l) => LP!Acquire(l)
           /\ L!AddFinalizer(l) => LP!AddFinalizer(l)
           /\ L!ResolveActor(l) => LP!ResolveActor(l)
           /\ L!ResolveProvider(l) => LP!ResolveProvider(l)
           /\ L!AddHost(l) => LP!AddHost(l)
           /\ L!AddGroup(l) => LP!AddGroup(l)
           /\ L!AddPublish(l) => LP!AddPublish(l)
           /\ L!PatchStatus(l) => LP!PatchStatus(l)
           /\ L!DelHost(l) => LP!DelHost(l)
           /\ L!DelGroup(l) => LP!DelGroup(l)
           /\ L!DelPublish(l) => LP!DelPublish(l)
           /\ L!Release(l) => LP!Release(l)
           /\ \A s : L!Create(l, s) => LP!Create(l, s)
           /\ L!Delete(l) => LP!Delete(l)
           /\ L!Watch(l) => LP!Watch(l)
<1> USE DEF L!Acquire, LP!Acquire, L!AddAcquire, LP!AddAcquire, L!AddFinalizer, LP!AddFinalizer,
            L!AddGroup, LP!AddGroup, L!AddHost, LP!AddHost, L!AddPublish, LP!AddPublish,
            L!AddRef, LP!AddRef, L!Added, LP!Added, L!At, LP!At, L!Begin, LP!Begin, L!CleanupId,
            LP!CleanupId, L!Complete, LP!Complete, L!Create, LP!Create, L!DelAcquire,
            LP!DelAcquire, L!DelGroup, LP!DelGroup, L!DelHost, LP!DelHost, L!DelPublish,
            LP!DelPublish, L!DelRef, LP!DelRef, L!Delete, LP!Delete, L!DeleteFailed,
            LP!DeleteFailed, L!Done, LP!Done, L!Empty, LP!Empty, L!EntityOf, LP!EntityOf,
            L!EntryOf, LP!EntryOf, L!FromStatus, LP!FromStatus, L!Goto, LP!Goto, L!HashOf,
            LP!HashOf, L!IdOf, LP!IdOf, L!Idle, LP!Idle, L!K!AddFinalizer, LP!K!AddFinalizer,
            L!K!CanAddFinalizer, LP!K!CanAddFinalizer, L!K!CanPatchStatus, LP!K!CanPatchStatus,
            L!K!CanRemoveFinalizer, LP!K!CanRemoveFinalizer, L!K!Create, LP!K!Create,
            L!K!Delete, LP!K!Delete, L!K!Due, LP!K!Due, L!K!IsApply, LP!K!IsApply,
            L!K!IsCleanup, LP!K!IsCleanup, L!K!NeedsFinalizer, LP!K!NeedsFinalizer,
            L!K!RemoveFinalizer, LP!K!RemoveFinalizer, L!K!Watch, LP!K!Watch, L!K!WriteStatus,
            LP!K!WriteStatus, L!LinkNameMismatch, LP!LinkNameMismatch, L!MissingLinkName,
            LP!MissingLinkName, L!PatchStatus, LP!PatchStatus, L!ProviderResolved,
            LP!ProviderResolved, L!Release, LP!Release, L!Requeue, LP!Requeue, L!ResolveActor,
            LP!ResolveActor, L!ResolveProvider, LP!ResolveProvider, L!Start, LP!Start,
            L!StartApply, LP!StartApply, L!StartCleanup, LP!StartCleanup, L!StartFinalize,
            LP!StartFinalize, L!StatusOf, LP!StatusOf, L!Unresolved, LP!Unresolved,
            L!UsableStatus, LP!UsableStatus, L!Watch, LP!Watch, L!Without, LP!Without, L!env,
            LP!env, L!faultCounts, LP!faultCounts, L!kube, LP!kube, L!link_id, LP!link_id,
            L!linkdef_hash, LP!linkdef_hash, L!local, LP!local, L!resources, LP!resources,
            L!tables, LP!tables, L!validate, LP!validate
<1> QED
  OBVIOUS

\* So are its initial state and its crash.
LEMMA LinkEnds == (L!Init => LP!Init) /\ (L!Crash => LP!Crash)
BY DEF L!Init, LP!Init, L!Crash, LP!Crash, L!NoTasks, LP!NoTasks, L!Idle, LP!Idle,
       L!NoCtxLinks, LP!NoCtxLinks, L!NoHostLinks, LP!NoHostLinks, L!NoGroupLinks, LP!NoGroupLinks,
       L!K!KubeInit, LP!K!KubeInit, L!env, LP!env, L!resources, LP!resources,
       L!Id, LP!Id, L!Hash, LP!Hash, L!HashOf, LP!HashOf,
       L!IdOf, LP!IdOf, L!linkdef_hash, LP!linkdef_hash, L!link_id, LP!link_id,
       L!ResolvedLink, LP!ResolvedLink, L!Empty, LP!Empty

\* The steps of Providers in ProviderLinks are those its theorems are about.
LEMMA ProviderSteps ==
    ASSUME NEW n \in ProviderName
    PROVE  /\ P!Start(n) => PP!Start(n)
           /\ P!Locking(n) => PP!Locking(n)
           /\ P!Step(n) => PP!Step(n)
           /\ \A s : P!Create(n, s) => PP!Create(n, s)
           /\ P!Delete(n) => PP!Delete(n)
           /\ P!Watch(n) => PP!Watch(n)
<1> USE DEF P!AddFinalizer, PP!AddFinalizer, P!At, PP!At, P!Begin, PP!Begin, P!Child, PP!Child,
            P!Create, PP!Create, P!Delete, PP!Delete, P!Done, PP!Done, P!DropEntry,
            PP!DropEntry, P!Edit, PP!Edit, P!Fail, PP!Fail, P!Feed, PP!Feed, P!Fetch, PP!Fetch,
            P!Goto, PP!Goto, P!Idle, PP!Idle, P!Ignore, PP!Ignore, P!K!AddFinalizer,
            PP!K!AddFinalizer, P!K!CanAddFinalizer, PP!K!CanAddFinalizer, P!K!CanPatchStatus,
            PP!K!CanPatchStatus, P!K!CanRemoveFinalizer, PP!K!CanRemoveFinalizer, P!K!Create,
            PP!K!Create, P!K!Delete, PP!K!Delete, P!K!Due, PP!K!Due, P!K!IsApply, PP!K!IsApply,
            P!K!IsCleanup, PP!K!IsCleanup, P!K!NeedsFinalizer, PP!K!NeedsFinalizer,
            P!K!RemoveFinalizer, PP!K!RemoveFinalizer, P!K!Watch, PP!K!Watch, P!K!WriteStatus,
            PP!K!WriteStatus, P!Locking, PP!Locking, P!Mine, PP!Mine, P!NewStatus, PP!NewStatus,
            P!PatchStatus, PP!PatchStatus, P!Release, PP!Release, P!Requeue, PP!Requeue,
            P!Shutdown, PP!Shutdown, P!Spawn, PP!Spawn, P!Start, PP!Start, P!StartApply,
            PP!StartApply, P!StartCleanup, PP!StartCleanup, P!StartFinalize, PP!StartFinalize,
            P!StartProvider, PP!StartProvider, P!Step, PP!Step, P!StopProvider, PP!StopProvider,
            P!Stopped, PP!Stopped, P!Watch, PP!Watch, P!bounds, PP!bounds, P!host, PP!host,
            P!kube, PP!kube, P!local, PP!local
<1> QED
  OBVIOUS

\* So are its initial state and its crash.
LEMMA ProviderEnds == (P!Init => PP!Init) /\ (P!Crash => PP!Crash)
BY DEF P!Init, PP!Init, P!Crash, PP!Crash, P!NoTasks, PP!NoTasks, P!Idle, PP!Idle,
       P!NoEntries, PP!NoEntries, P!K!KubeInit, PP!K!KubeInit

----------------------------------------------------------------------------
(***************************************************************************)
(* The invariant.  A task that has changed host.links and not yet          *)
(* published the change finds it there when it publishes (Published); what *)
(* a child knows is for it (OwnLinks); and only a child that runs has      *)
(* subscribed.                                                             *)
(***************************************************************************)
Published ==
    \A l \in Link :
        /\ ltask[l].pc \in {"addGroup", "addPublish"} => hostLinks[HashOf(ltask[l].ld)] = ltask[l].ld
        /\ ltask[l].pc \in {"delGroup", "delPublish"} => hostLinks[HashOf(ltask[l].ld)] = NoLd

ChildrenType ==
    /\ subscribed \subseteq alive
    /\ known \in [Child -> SUBSET ResolvedLink]
    /\ missed \in [Child -> SUBSET ResolvedLink]

OwnLinks == \A c \in Child : \A ld \in known[c] : ChildOf(ld) = c

PartsInv == LP!TablesInv /\ PP!TypeOK

KnowInv == PartsInv /\ Published /\ ChildrenType /\ OwnLinks /\ ChildrenKnowTheirLinks

\* What the invariant of Links says of host.links and the tasks that change it, in the
\* terms of this module.
HostTable ==
    /\ hostLinks \in [Hash -> ResolvedLink \cup {NoLd}]
    /\ \A h \in Hash : hostLinks[h] # NoLd => HashOf(hostLinks[h]) = h
    /\ \A l \in Link : ltask[l].pc \in LP!HeldPcs => ctxLock = l /\ ltask[l].ld \in ResolvedLink

\* host.links has a definition under its own hash or not at all.
Filed == \A ld \in ResolvedLink : ld \in HostLinks <=> hostLinks[HashOf(ld)] = ld

\* The invariant of Links says this of host.links, ...
LEMMA TableFacts == LP!TablesInv => HostTable
<1> USE DEF Hash, LP!Hash, HashOf, LP!HashOf, linkdef_hash, LP!linkdef_hash,
            ResolvedLink, LP!ResolvedLink, Empty, LP!Empty
<1> SUFFICES ASSUME LP!TablesInv PROVE HostTable
  OBVIOUS
<1>1. hostLinks \in [Hash -> ResolvedLink \cup {NoLd}]
  BY DEF LP!TablesInv, LP!TypeOK
<1>2. \A h \in Hash : hostLinks[h] # NoLd => HashOf(hostLinks[h]) = h
  BY DEF LP!TablesInv, LP!HostKeyed
<1>3. \A l \in Link : ltask[l].pc \in LP!HeldPcs => ctxLock = l /\ ltask[l].ld \in ResolvedLink
  BY LinksFacts, LP!TaskFacts
     DEF LP!TablesInv, LP!TypeOK, LP!LockHeld, LP!HeldPcs, LP!AddPcs, LP!DelPcs
<1> QED
  BY <1>1, <1>2, <1>3 DEF HostTable

\* ... also after a step.
LEMMA TableFactsNext == (LP!TablesInv => HostTable)'
BY TableFacts, PTL

\* A definition of host.links is found under its own hash, ...
LEMMA HostLinksFiled == HostTable => Filed
<1> SUFFICES ASSUME HostTable, NEW ld \in ResolvedLink
             PROVE  ld \in HostLinks <=> hostLinks[HashOf(ld)] = ld
  BY DEF Filed
<1>1. HashOf(ld) \in Hash /\ ld # NoLd
  BY ProviderLinksAssumption DEF Hash
<1>2. Hash = L!Hash
  BY DEF Hash, L!Hash, HashOf, L!HashOf, linkdef_hash, L!linkdef_hash,
         ResolvedLink, L!ResolvedLink, Empty, L!Empty
<1> QED
  BY <1>1, <1>2 DEF HostLinks, HostTable

\* ... also after a step.
LEMMA HostLinksFiledNext == (HostTable => Filed)'
BY HostLinksFiled, PTL

----------------------------------------------------------------------------
(***************************************************************************)
(* The parts keep their invariants in the composition.                     *)
(***************************************************************************)

\* A step of the link controller is one of Links.
LEMMA LinkPart ==
    ASSUME PartsInv, NEW l \in Link,
           \/ LinkStart(l) \/ LinkLock(l) \/ LinkHost(l) \/ LinkStep(l)
           \/ LinkWatch(l) \/ LinkUser(l)
    PROVE  PartsInv'
<1>1. LP!Next
  <2>1. CASE LinkWatch(l) \/ LinkUser(l)
    BY <2>1, LinkSteps DEF LinkWatch, LinkUser, LP!Next, LP!World
  <2>2. CASE LinkStart(l) \/ LinkLock(l) \/ LinkHost(l) \/ LinkStep(l)
    <3>1. LP!Start(l) \/ LP!Acquire(l) \/ LP!Step(l)
      BY <2>2, LinkSteps DEF LinkStart, LinkLock, LinkHost, LinkStep, Put, Del, LP!Step
    <3> QED
      BY <3>1 DEF LP!Next
  <2> QED
    BY <2>1, <2>2
<1>2. LP!TablesInv'
  BY <1>1, LinksFacts, LP!StepAgrees DEF PartsInv
<1>3. UNCHANGED pvars
  BY DEF LinkStart, LinkLock, LinkHost, LinkStep, Put, Del, LinkWatch, LinkUser
<1>4. PP!TypeOK'
  BY <1>3 DEF PartsInv, PP!TypeOK, PP!K!KubeTypeOK, pvars
<1> QED
  BY <1>2, <1>4 DEF PartsInv

\* What add_link reads of a Provider object has its type.
LEMMA ResourceType == PP!TypeOK => [n \in ProviderName |-> ProviderResource(n)] \in
                                       [ProviderName -> LP!Provider \cup {NoProvider}]
<1> SUFFICES ASSUME PP!TypeOK, NEW n \in ProviderName
             PROVE  ProviderResource(n) \in LP!Provider \cup {NoProvider}
  OBVIOUS
<1>1. papi[n] # NoObject => papi[n] \in PP!K!Object
  BY DEF PP!TypeOK, PP!K!KubeTypeOK
<1> QED
  BY <1>1 DEF ProviderResource, LP!Provider, Empty, LP!Empty, PP!K!Object, PP!ProviderSpec, PP!ProviderStatus

\* It still has it after a step.
LEMMA ResourceTypeNext == (PP!TypeOK => [n \in ProviderName |-> ProviderResource(n)] \in
                                       [ProviderName -> LP!Provider \cup {NoProvider}])'
BY ResourceType, PTL

\* A step of the provider controller is one of Providers; of what Links sees it changes
\* the Provider resources only.
LEMMA ProviderPart ==
    ASSUME PartsInv, NEW n \in ProviderName,
           \/ ProviderStart(n) \/ ProviderLock(n) \/ ProviderStep(n)
           \/ ProviderWatch(n) \/ ProviderUser(n)
    PROVE  PartsInv'
<1>1. PP!TypeOK'
  <2>1. CASE ProviderStart(n) \/ ProviderLock(n) \/ ProviderStep(n)
    <3>1. PP!Start(n) \/ PP!Locking(n) \/ PP!Step(n)
      BY <2>1, ProviderSteps DEF ProviderStart, ProviderLock, ProviderStep
    <3> QED
      BY <3>1, ProvidersFacts, PP!TaskStepType DEF PartsInv
  <2>2. CASE ProviderWatch(n) \/ ProviderUser(n)
    <3>1. PP!World
      BY <2>2, ProviderSteps DEF ProviderWatch, ProviderUser, PP!World
    <3> QED
      BY <3>1, ProvidersFacts, PP!WorldType DEF PartsInv
  <2> QED
    BY <2>1, <2>2
<1>2. UNCHANGED lvars
  BY DEF ProviderStart, ProviderLock, ProviderStep, ProviderWatch, ProviderUser
<1>3. LP!TypeOK'
  BY <1>1, <1>2, ResourceTypeNext DEF PartsInv, LP!TablesInv, LP!TypeOK, LP!K!KubeTypeOK, lvars
<1>4. (LP!HostKeyed /\ LP!LockHeld /\ LP!BetweenTables)'
  BY <1>2 DEF PartsInv, LP!TablesInv, LP!HostKeyed, LP!LockHeld, LP!BetweenTables, LP!At, lvars
<1>5. LP!LinkTablesAgree'
  <2>1. \A k : LP!InFlight(k)' = LP!InFlight(k) /\ LP!get_actor_links(k)' = LP!get_actor_links(k)
    BY <1>2 DEF LP!InFlight, LP!get_actor_links, lvars
  <2> QED
    BY <1>2, <2>1 DEF PartsInv, LP!TablesInv, LP!LinkTablesAgree, lvars
<1> QED
  BY <1>1, <1>3, <1>4, <1>5 DEF PartsInv, LP!TablesInv

----------------------------------------------------------------------------
(***************************************************************************)
(* What the children know.                                                 *)
(***************************************************************************)
UnpublishedPcs == {"addGroup", "addPublish", "delGroup", "delPublish"}

\* The children part of the invariant.
ChildrenInv == Published /\ ChildrenType /\ OwnLinks /\ ChildrenKnowTheirLinks

\* Steps that leave host.links and the children alone, and publish nothing.
LEMMA QuietStep ==
    ASSUME KnowInv, PartsInv', NEW l \in Link,
           UNCHANGED <<hostLinks, alive, children>>,
           \A m \in Link \ {l} : ltask'[m] = ltask[m],
           \/ ltask[l].pc \notin UnpublishedPcs /\ ltask'[l].pc \notin UnpublishedPcs
           \/ /\ ltask'[l].ld = ltask[l].ld
              /\ \/ ltask[l].pc = "addGroup" /\ ltask'[l].pc = "addPublish"
                 \/ ltask[l].pc = "delGroup" /\ ltask'[l].pc = "delPublish"
    PROVE  ChildrenInv'
<1> USE DEF UnpublishedPcs
<1>1. Published'
  BY DEF KnowInv, Published
<1>2. ChildrenType' /\ OwnLinks'
  BY DEF KnowInv, ChildrenType, OwnLinks, children, Child, ChildOf
<1>3. \A ld : Unpublished(ld)' <=> Unpublished(ld)
  BY DEF Unpublished
<1>4. HostLinks' = HostLinks
  BY DEF HostLinks
<1> QED
  BY <1>1, <1>2, <1>3, <1>4 DEF ChildrenInv, KnowInv, ChildrenKnowTheirLinks, children, ChildOf

\* Two tasks are never both between host.links and the announcement.
LEMMA Alone ==
    ASSUME PartsInv, NEW l \in Link, ltask[l].pc \in LP!HeldPcs
    PROVE  \A m \in Link \ {l} : ltask[m].pc \notin LP!HeldPcs
BY TableFacts DEF PartsInv, HostTable

\* Where add_linkdef and delete_linkdef change host.links, the change is not published yet.
LEMMA HostStep ==
    ASSUME KnowInv, PartsInv', NEW l \in Link, LinkHost(l)
    PROVE  ChildrenInv'
<1> DEFINE d == ltask[l].ld
<1>t. HostTable /\ HostTable' /\ Filed /\ Filed'
  BY TableFacts, TableFactsNext, HostLinksFiled, HostLinksFiledNext DEF KnowInv, PartsInv
<1>a. /\ ltask[l].pc \in {"addHost", "delHost"} /\ d \in ResolvedLink
      /\ \A m \in Link \ {l} : ltask[m].pc \notin UnpublishedPcs
  BY <1>t, Alone DEF KnowInv, LinkHost, L!AddHost, L!DelHost, L!At, LP!HeldPcs, UnpublishedPcs, HostTable
<1>h. HashOf(d) \in Hash /\ L!HashOf(d) = HashOf(d) /\ NoLd \notin ResolvedLink
  BY <1>a, ProviderLinksAssumption DEF Hash, HashOf, L!HashOf, linkdef_hash, L!linkdef_hash
<1>f. ltask \in [Link -> LP!Task]
  BY DEF KnowInv, PartsInv, LP!TablesInv, LP!TypeOK
<1>u. UNCHANGED <<alive, children>>
  BY DEF LinkHost, pvars
<1>1. CASE hostLinks' = hostLinks
  <2>1. \/ ltask' = [ltask EXCEPT ![l] = [pc |-> "patch", obj |-> @.obj, ld |-> d]]
        \/ ltask' = [ltask EXCEPT ![l] = [pc |-> "release", obj |-> @.obj, ld |-> NoLd]]
    <3>1. hostLinks \in [Hash -> ResolvedLink \cup {NoLd}]
      BY <1>t DEF HostTable
    <3>2. CASE L!AddHost(l)
      <4>1. hostLinks[HashOf(d)] # NoLd
        BY <1>1, <1>a, <1>h, <3>1, <3>2 DEF L!AddHost
      <4> QED
        BY <3>2, <4>1, <1>h DEF L!AddHost, L!Added, L!Goto
    <3>3. CASE L!DelHost(l)
      <4>1. hostLinks[HashOf(d)] = NoLd
        BY <1>1, <1>a, <1>h, <3>1, <3>3 DEF L!DelHost
      <4> QED
        BY <3>3, <4>1, <1>h DEF L!DelHost, L!DeleteFailed, L!Goto
    <3> QED
      BY <3>2, <3>3 DEF LinkHost
  <2>2. /\ \A m \in Link \ {l} : ltask'[m] = ltask[m]
        /\ ltask'[l].pc \in {"patch", "release"}
    BY <1>f, <2>1
  <2> QED
    BY <1>1, <1>u, <1>a, <2>2, QuietStep DEF UnpublishedPcs
<1>2. CASE hostLinks' # hostLinks
  <2>1. PICK ld \in ResolvedLink :
          /\ \/ /\ hostLinks[HashOf(ld)] = NoLd
                /\ hostLinks' = [hostLinks EXCEPT ![HashOf(ld)] = ld]
                /\ ltask'[l].pc = "addGroup"
             \/ /\ hostLinks[HashOf(ld)] = ld
                /\ hostLinks' = [hostLinks EXCEPT ![HashOf(ld)] = NoLd]
                /\ ltask'[l].pc = "delGroup"
          /\ ltask'[l].ld = ld
          /\ \A m \in Link \ {l} : ltask'[m] = ltask[m]
    <3>1. CASE L!AddHost(l)
      BY <3>1, <1>2, <1>f, <1>a, <1>h DEF L!AddHost, L!Goto
    <3>2. CASE L!DelHost(l)
      <4>1. /\ hostLinks[HashOf(d)] \in ResolvedLink
            /\ HashOf(hostLinks[HashOf(d)]) = HashOf(d)
        BY <3>2, <1>2, <1>t, <1>h DEF L!DelHost, HostTable
      <4>2. /\ hostLinks' = [hostLinks EXCEPT ![HashOf(d)] = NoLd]
            /\ ltask' = [ltask EXCEPT ![l] = [pc |-> "delGroup", obj |-> @.obj,
                                              ld |-> hostLinks[HashOf(d)]]]
        BY <3>2, <1>2, <1>h DEF L!DelHost, L!Goto
      <4> QED
        BY <4>1, <4>2, <1>f
    <3> QED
      BY <3>1, <3>2 DEF LinkHost
  <2>h. HashOf(ld) \in Hash
    BY DEF Hash
  <2>2. ASSUME NEW x \in ResolvedLink, x # ld
        PROVE  x \in HostLinks' <=> x \in HostLinks
    <3>1. HashOf(x) \in Hash
      BY DEF Hash
    <3>2. hostLinks'[HashOf(x)] = x <=> hostLinks[HashOf(x)] = x
      BY <2>1, <2>2, <2>h, <3>1, <1>t, <1>h DEF HostTable
    <3> QED
      BY <3>2, <1>t DEF Filed
  <2>3. Unpublished(ld)' /\ \A x : ~Unpublished(x)
    BY <1>a, <2>1 DEF Unpublished, UnpublishedPcs
  <2>4. Published'
    BY <1>a, <1>t, <1>h, <2>1, <2>h DEF Published, UnpublishedPcs, HostTable
  <2>5. ChildrenType' /\ OwnLinks'
    BY <1>u DEF KnowInv, ChildrenType, OwnLinks, children, Child, ChildOf
  <2>6. ChildrenKnowTheirLinks'
    BY <1>u, <2>2, <2>3 DEF KnowInv, ChildrenKnowTheirLinks, children, ChildOf
  <2> QED
    BY <2>4, <2>5, <2>6 DEF ChildrenInv
<1> QED
  BY <1>1, <1>2

\* The announcement brings the child it is for up to date, or the child misses it.
LEMMA PublishStep ==
    ASSUME KnowInv, PartsInv', NEW l \in Link, Put(l) \/ Del(l)
    PROVE  ChildrenInv'
<1>d. PICK d : d = ltask[l].ld
  OBVIOUS
<1> DEFINE c == ChildOf(d)
<1>t. HostTable /\ HostTable' /\ Filed /\ Filed'
  BY TableFacts, TableFactsNext, HostLinksFiled, HostLinksFiledNext DEF KnowInv, PartsInv
<1>a. /\ ltask[l].pc \in {"addPublish", "delPublish"} /\ d \in ResolvedLink
      /\ \A m \in Link \ {l} : ltask[m].pc \notin UnpublishedPcs
  BY <1>t, <1>d, Alone
     DEF KnowInv, Put, Del, L!AddPublish, L!DelPublish, L!At, LP!HeldPcs, UnpublishedPcs, HostTable
<1>u. UNCHANGED <<hostLinks, alive, subscribed>>
  BY DEF Put, Del, L!AddPublish, L!DelPublish, Reaches, pvars
<1>g. \/ ltask' = [ltask EXCEPT ![l] = [pc |-> "patch", obj |-> @.obj, ld |-> d]]
      \/ ltask' = [ltask EXCEPT ![l] = [pc |-> "release", obj |-> @.obj, ld |-> NoLd]]
  BY <1>d DEF Put, Del, L!AddPublish, L!DelPublish, L!Added, L!Goto
<1>f. ltask \in [Link -> LP!Task]
  BY DEF KnowInv, PartsInv, LP!TablesInv, LP!TypeOK
<1>1. /\ \A m \in Link \ {l} : ltask'[m] = ltask[m]
      /\ ltask'[l].pc \in {"patch", "release"}
  BY <1>f, <1>g
<1>2. Published'
  BY <1>1, <1>u DEF KnowInv, Published
<1>3. \A x : Unpublished(x) <=> x = d
  BY <1>a, <1>d DEF Unpublished, UnpublishedPcs
<1>4. PICK new : /\ Reaches(d, new)
                 /\ \/ new = known[c] \cup {d} /\ hostLinks[HashOf(d)] = d
                    \/ new = known[c] \ {d} /\ hostLinks[HashOf(d)] = NoLd
  <2>1. CASE Put(l)
    BY <2>1, <1>d DEF Put, L!AddPublish, L!At, KnowInv, Published
  <2>2. CASE Del(l)
    BY <2>2, <1>d DEF Del, L!DelPublish, L!At, KnowInv, Published
  <2> QED
    BY <2>1, <2>2
<1>5. known \in [Child -> SUBSET ResolvedLink] /\ missed \in [Child -> SUBSET ResolvedLink]
  BY DEF KnowInv, ChildrenType
<1>6. /\ known' = [known EXCEPT ![c] = IF c \in subscribed THEN new ELSE @]
      /\ missed' = [missed EXCEPT ![c] = IF c \in alive \ subscribed /\ new # known[c]
                                         THEN @ \cup {d} ELSE @]
  BY <1>4 DEF Reaches
<1>7. ChildrenType'
  BY <1>4, <1>5, <1>6, <1>a, <1>u DEF ChildrenType, KnowInv, Child
<1>8. OwnLinks'
  <2> SUFFICES ASSUME NEW b \in Child, NEW x \in known'[b] PROVE ChildOf(x) = b
    BY DEF OwnLinks, Child, ChildOf
  <2>1. x \in known[b] \/ (b = c /\ x = d)
    BY <1>4, <1>5, <1>6
  <2> QED
    BY <2>1 DEF KnowInv, OwnLinks
<1>9. ChildrenKnowTheirLinks'
  <2> SUFFICES ASSUME NEW b \in alive, NEW x \in ResolvedLink, x \notin missed'[b]
               PROVE  x \in known'[b] <=> x \in HostLinks' /\ ChildOf(x) = b
    BY <1>u DEF ChildrenKnowTheirLinks, ChildOf
  <2>b. b \in Child
    BY DEF KnowInv, PartsInv, PP!TypeOK, Child
  <2>h. x \in HostLinks' <=> hostLinks[HashOf(x)] = x
    BY <1>t, <1>u DEF Filed
  <2>1. CASE x # d
    <3>1. x \notin missed[b] /\ (x \in known'[b] <=> x \in known[b])
      BY <1>4, <1>5, <1>6, <2>1, <2>b
    <3> QED
      BY <3>1, <2>1, <2>h, <1>3, <1>t DEF KnowInv, ChildrenKnowTheirLinks, Filed
  <2>2. CASE x = d /\ b # c
    <3>1. x \notin known'[b]
      BY <1>5, <1>6, <2>2, <2>b DEF KnowInv, OwnLinks
    <3> QED
      BY <3>1, <2>2
  <2>3. CASE x = d /\ b = c
    <3>1. known'[c] = new
      BY <1>4, <1>5, <1>6, <2>b, <2>3
    <3>2. d # NoLd
      BY <1>a, ProviderLinksAssumption
    <3> QED
      BY <3>1, <3>2, <1>4, <2>3, <2>h
  <2> QED
    BY <2>1, <2>2, <2>3
<1> QED
  BY <1>2, <1>7, <1>8, <1>9 DEF ChildrenInv

\* Every step of the link controller.
LEMMA LinkStepKnows ==
    ASSUME KnowInv, PartsInv', NEW l \in Link,
           \/ LinkStart(l) \/ LinkLock(l) \/ LinkHost(l) \/ LinkStep(l)
           \/ LinkWatch(l) \/ LinkUser(l)
    PROVE  ChildrenInv'
<1> USE DEF L!At
<1>f. ltask \in [Link -> LP!Task]
  BY DEF KnowInv, PartsInv, LP!TablesInv, LP!TypeOK
<1>g. ASSUME NEW t, ltask' = [ltask EXCEPT ![l] = t]
      PROVE  ltask'[l] = t /\ \A m \in Link \ {l} : ltask'[m] = ltask[m]
  BY <1>f, <1>g
<1>h. ASSUME NEW pc, NEW ld, L!Goto(l, pc, ld)
      PROVE  /\ ltask'[l].pc = pc /\ ltask'[l].ld = ld
             /\ \A m \in Link \ {l} : ltask'[m] = ltask[m]
  BY <1>f, <1>h DEF L!Goto
<1>1. CASE LinkWatch(l) \/ LinkUser(l)
  <2>1. UNCHANGED <<ltask, hostLinks, alive, children>>
    BY <1>1 DEF LinkWatch, LinkUser, L!Watch, L!Create, L!Delete, L!local, L!tables, pvars
  <2>2. Published' /\ ChildrenType' /\ OwnLinks'
    BY <2>1 DEF KnowInv, Published, ChildrenType, OwnLinks, children, Child, ChildOf
  <2>3. HostLinks' = HostLinks /\ \A x : Unpublished(x)' <=> Unpublished(x)
    BY <2>1 DEF HostLinks, Unpublished
  <2> QED
    BY <2>1, <2>2, <2>3 DEF ChildrenInv, KnowInv, ChildrenKnowTheirLinks, children, ChildOf
<1>2. CASE LinkStart(l)
  <2>1. UNCHANGED <<hostLinks, alive, children>> /\ ltask[l].pc = "idle"
    BY <1>2 DEF LinkStart, L!Start, L!StartFinalize, L!StartApply, L!StartCleanup, L!Begin, L!tables, pvars
  <2>2. \/ ltask' = ltask
        \/ \E pc \in {"finalize", "addLock", "resolveActor", "delLock", "release"} : \E ld :
             ltask' = [ltask EXCEPT ![l] = [pc |-> pc, obj |-> lstore[l], ld |-> ld]]
    BY <1>2 DEF LinkStart, L!Start, L!StartFinalize, L!StartApply, L!StartCleanup, L!Begin
  <2>3. ltask'[l].pc \notin UnpublishedPcs /\ \A m \in Link \ {l} : ltask'[m] = ltask[m]
    BY <2>1, <2>2, <1>g DEF UnpublishedPcs
  <2> QED
    BY <2>1, <2>3, QuietStep DEF UnpublishedPcs
<1>3. CASE LinkLock(l)
  <2>1. UNCHANGED <<hostLinks, alive, children>> /\ ltask[l].pc \in {"addLock", "delLock"}
    BY <1>3 DEF LinkLock, L!Acquire, L!AddRef, L!AddAcquire, L!DelRef, L!DelAcquire, L!tables, pvars
  <2>2. \E pc \in {"patch", "addHost", "release", "delHost"} : \E ld : L!Goto(l, pc, ld)
    BY <1>3 DEF LinkLock, L!Acquire, L!AddRef, L!AddAcquire, L!DelRef, L!DelAcquire
  <2>3. ltask'[l].pc \notin UnpublishedPcs /\ \A m \in Link \ {l} : ltask'[m] = ltask[m]
    BY <2>2, <1>h DEF UnpublishedPcs
  <2> QED
    BY <2>1, <2>3, QuietStep DEF UnpublishedPcs
<1>4. CASE L!AddGroup(l) /\ LinkStep(l) /\ UNCHANGED <<pvars, children>>
  <2>1. UNCHANGED <<hostLinks, alive, children>> /\ ltask[l].pc = "addGroup"
    BY <1>4 DEF L!AddGroup, pvars
  <2>2. L!Goto(l, "addPublish", ltask[l].ld)
    BY <1>4 DEF L!AddGroup
  <2> QED
    BY <2>1, <2>2, <1>h, QuietStep
<1>5. CASE L!DelGroup(l) /\ LinkStep(l) /\ UNCHANGED <<pvars, children>>
  <2>1. UNCHANGED <<hostLinks, alive, children>> /\ ltask[l].pc = "delGroup"
    BY <1>5 DEF L!DelGroup, pvars
  <2>2. L!Goto(l, "delPublish", ltask[l].ld)
    BY <1>5 DEF L!DelGroup
  <2> QED
    BY <2>1, <2>2, <1>h, QuietStep
<1>6. CASE /\ UNCHANGED <<pvars, children>>
           /\ \/ L!AddFinalizer(l) \/ L!ResolveActor(l) \/ L!ResolveProvider(l)
              \/ L!PatchStatus(l) \/ L!Release(l)
  <2> USE DEF L!AddFinalizer, L!ResolveActor, L!ResolveProvider, L!PatchStatus, L!Release
  <2>1. /\ UNCHANGED <<hostLinks, alive, children>>
        /\ ltask[l].pc \in {"finalize", "resolveActor", "resolveProvider", "patch", "release"}
    BY <1>6 DEF L!tables, pvars
  <2>2. \/ L!Done(l)
        \/ \E pc \in {"resolveProvider", "addLock"} : \E ld : L!Goto(l, pc, ld)
    BY <1>6 DEF L!Requeue
  <2>3. ltask'[l].pc \notin UnpublishedPcs /\ \A m \in Link \ {l} : ltask'[m] = ltask[m]
    BY <2>2, <1>g, <1>h DEF L!Done, L!Idle, UnpublishedPcs
  <2> QED
    BY <2>1, <2>3, QuietStep DEF UnpublishedPcs
<1> QED
  BY <1>1, <1>2, <1>3, <1>4, <1>5, <1>6, HostStep, PublishStep DEF LinkStep

\* A child that is spawned knows host.links, and one that is killed is no longer asked.
LEMMA ChildrenNowKnow ==
    ASSUME KnowInv, PartsInv', ChildrenNow, UNCHANGED lvars
    PROVE  ChildrenInv'
<1>t. Filed /\ hostLinks' = hostLinks /\ ltask' = ltask
  BY TableFacts, HostLinksFiled DEF KnowInv, PartsInv, lvars
<1>a. alive' \subseteq Child
  BY DEF PartsInv, PP!TypeOK, Child
<1>h. HostLinks' = HostLinks /\ \A x : Unpublished(x)' <=> Unpublished(x)
  BY <1>t DEF HostLinks, Unpublished
<1>r. HostLinks \subseteq ResolvedLink
  <2>1. HostTable
    BY TableFacts DEF KnowInv, PartsInv
  <2>2. Hash = L!Hash
    BY DEF Hash, L!Hash, HashOf, L!HashOf, linkdef_hash, L!linkdef_hash,
           ResolvedLink, L!ResolvedLink, Empty, L!Empty
  <2> QED
    BY <2>1, <2>2 DEF HostLinks, HostTable
<1>k. /\ known \in [Child -> SUBSET ResolvedLink] /\ missed \in [Child -> SUBSET ResolvedLink]
      /\ \A c \in Child : LinkDefinitions(c) = {ld \in HostLinks : ChildOf(ld) = c}
  BY DEF KnowInv, ChildrenType, LinkDefinitions, ChildOf, Child
<1>1. Published'
  BY <1>t DEF KnowInv, Published
<1>2. ChildrenType'
  BY <1>k, <1>r DEF ChildrenNow, ChildrenType, Child
<1>3. OwnLinks'
  BY <1>k DEF KnowInv, OwnLinks, ChildrenNow, Child, ChildOf
<1>4. ChildrenKnowTheirLinks'
  <2> SUFFICES ASSUME NEW c \in alive', NEW ld \in ResolvedLink,
                      ld \notin missed'[c], ~Unpublished(ld)
               PROVE  ld \in known'[c] <=> ld \in HostLinks /\ ChildOf(ld) = c
    BY <1>h DEF ChildrenKnowTheirLinks, ChildOf
  <2>1. CASE c \notin alive
    BY <1>a, <1>k, <2>1 DEF ChildrenNow
  <2>2. CASE c \in alive
    <3>1. known'[c] = known[c] /\ missed'[c] = missed[c]
      BY <1>a, <2>2 DEF ChildrenNow
    <3> QED
      BY <2>2, <3>1 DEF KnowInv, ChildrenKnowTheirLinks
  <2> QED
    BY <2>1, <2>2
<1> QED
  BY <1>1, <1>2, <1>3, <1>4 DEF ChildrenInv

\* Every step of the provider controller.
LEMMA ProviderStepKnows ==
    ASSUME KnowInv, PartsInv', NEW n \in ProviderName,
           \/ ProviderStart(n) \/ ProviderLock(n) \/ ProviderStep(n)
           \/ ProviderWatch(n) \/ ProviderUser(n)
    PROVE  ChildrenInv'
<1>1. CASE ProviderLock(n) \/ ProviderStep(n)
  BY <1>1, ChildrenNowKnow DEF ProviderLock, ProviderStep
<1>2. CASE ProviderStart(n) \/ ProviderWatch(n) \/ ProviderUser(n)
  <2>1. alive' = alive /\ UNCHANGED <<lvars, children>>
    BY <1>2 DEF ProviderStart, P!Start, P!Ignore, P!StartFinalize, P!StartApply, P!StartCleanup,
                P!Begin, ProviderWatch, P!Watch, ProviderUser, P!Create, P!Delete, P!local, P!host
  <2>2. HostLinks' = HostLinks /\ \A x : Unpublished(x)' <=> Unpublished(x)
    BY <2>1 DEF HostLinks, Unpublished, lvars
  <2>3. Published' /\ ChildrenType' /\ OwnLinks'
    BY <2>1 DEF KnowInv, Published, ChildrenType, OwnLinks, children, lvars, Child, ChildOf
  <2> QED
    BY <2>1, <2>2, <2>3 DEF ChildrenInv, KnowInv, ChildrenKnowTheirLinks, children, ChildOf
<1> QED
  BY <1>1, <1>2

\* The invariant holds when the host starts.
LEMMA InitKnows == Init => KnowInv
<1> SUFFICES ASSUME Init PROVE KnowInv
  OBVIOUS
<1>1. LP!Init /\ PP!Init
  BY LinkEnds, ProviderEnds DEF Init
<1>2. LP!TablesInv
  BY <1>1, LinksFacts, LP!InitAgrees
<1>3. PP!TypeOK
  BY <1>1, ProvidersFacts, PP!InitType
<1>4. alive = {} /\ \A l \in Link : ltask[l].pc = "idle"
  BY DEF Init, P!Init, L!Init, L!NoTasks, L!Idle
<1> QED
  BY <1>2, <1>3, <1>4 DEF Init, KnowInv, PartsInv, Published, ChildrenType, OwnLinks,
                          ChildrenKnowTheirLinks, Unaware

\* Every step of either controller, of a child or of the host keeps the invariant.
LEMMA StepKnows == KnowInv /\ [Next]_vars => KnowInv'
<1> SUFFICES ASSUME KnowInv, [Next]_vars PROVE KnowInv'
  OBVIOUS
<1>p. PartsInv
  BY DEF KnowInv
<1>1. ASSUME NEW l \in Link,
             \/ LinkStart(l) \/ LinkLock(l) \/ LinkHost(l) \/ LinkStep(l)
             \/ LinkWatch(l) \/ LinkUser(l)
      PROVE  KnowInv'
  BY <1>p, <1>1, LinkPart, LinkStepKnows DEF KnowInv, ChildrenInv
<1>2. ASSUME NEW n \in ProviderName,
             \/ ProviderStart(n) \/ ProviderLock(n) \/ ProviderStep(n)
             \/ ProviderWatch(n) \/ ProviderUser(n)
      PROVE  KnowInv'
  BY <1>p, <1>2, ProviderPart, ProviderStepKnows DEF KnowInv, ChildrenInv
<1>3. ASSUME UNCHANGED <<lvars, pvars, known, missed>>, subscribed' \subseteq alive
      PROVE  KnowInv'
  <2>1. PP!TypeOK'
    BY <1>3, <1>p DEF PartsInv, PP!TypeOK, PP!K!KubeTypeOK, pvars
  <2>2. LP!vars' = LP!vars
    BY <1>3 DEF LP!vars, LP!kube, LP!tables, LP!faultCounts, LP!env, LP!resources,
           ProviderResource, lvars, pvars
  <2>3. LP!TablesInv'
    BY <1>p, <2>2, LinksFacts, LP!StepAgrees DEF PartsInv
  <2>4. HostLinks' = HostLinks /\ \A x : Unpublished(x)' <=> Unpublished(x)
    BY <1>3 DEF HostLinks, Unpublished, lvars
  <2>5. Published' /\ ChildrenType' /\ OwnLinks'
    BY <1>3 DEF KnowInv, Published, ChildrenType, OwnLinks, lvars, pvars, Child, ChildOf
  <2>6. ChildrenKnowTheirLinks'
    BY <1>3, <2>4 DEF KnowInv, ChildrenKnowTheirLinks, pvars, ChildOf
  <2> QED
    BY <2>1, <2>3, <2>5, <2>6 DEF KnowInv, PartsInv
<1>4. ASSUME NEW c \in Child, Subscribe(c) PROVE KnowInv'
  BY <1>3, <1>4 DEF Subscribe, KnowInv, ChildrenType
<1>5. CASE Crash
  <2>1. LP!Crash /\ PP!Crash
    BY <1>5, LinkEnds, ProviderEnds DEF Crash
  <2>2. LP!TablesInv'
    BY <1>p, <2>1, LinksFacts, LP!StepAgrees DEF PartsInv, LP!Next, LP!World
  <2>3. PP!TypeOK'
    BY <1>p, <2>1, ProvidersFacts, PP!WorldType DEF PartsInv, PP!World
  <2>4. alive' = {} /\ \A l \in Link : ltask'[l].pc = "idle"
    BY <1>5 DEF Crash, P!Crash, L!Crash, L!NoTasks, L!Idle
  <2> QED
    BY <1>5, <2>2, <2>3, <2>4 DEF Crash, KnowInv, PartsInv, Published, ChildrenType, OwnLinks,
                                  ChildrenKnowTheirLinks, Unaware, Child
<1>6. CASE UNCHANGED vars
  BY <1>3, <1>6 DEF vars, children, KnowInv, ChildrenType
<1> QED
  BY <1>1, <1>2, <1>4, <1>5, <1>6 DEF Next

(***************************************************************************)
(* A child knows exactly the links that host.links has for it, except for  *)
(* one that is just being changed and for a change it missed before it     *)
(* subscribed: start_provider, which reads host.links, and add_linkdef and *)
(* delete_linkdef, which publish what they changed there, lose nothing     *)
(* else between them.  For any number of Links, Providers and crashes, and *)
(* whatever the keys hash to.                                              *)
(***************************************************************************)
THEOREM ChildrenAlwaysKnow == Spec => []ChildrenKnowTheirLinks
<1>1. KnowInv => ChildrenKnowTheirLinks
  BY DEF KnowInv
<1> QED
  BY <1>1, InitKnows, StepKnows, PTL DEF Spec

=============================================================================
