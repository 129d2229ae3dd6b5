-------------------------------- MODULE Links --------------------------------
(***************************************************************************)
(* The link controller of one kasmcloud host: add_link and delete_link of  *)
(* src/main.rs with the two tables they keep in step, the controller's     *)
(* reference counts ctx.links and the host's links, and the third table    *)
(* the host derives from the second, the links of every actor group        *)
(* (add_linkdef, delete_linkdef and get_actor_links of                     *)
(* crates/host/src/lib.rs).                                                *)
(*                                                                         *)
(* A reconciliation of one Link object is a task of its own; its steps end *)
(* where the code awaits.  Tasks of different links interleave, and so do  *)
(* the actor controller (NewGroup, DropGroup), the watch, the users, other *)
(* hosts of the same cluster, and a crash of this host.                    *)
(***************************************************************************)
EXTENDS LinkSpecs, Naturals, FiniteSets

CONSTANTS
    Link,         \* names of the Link objects
    Specs,        \* the specs users give them
    NoObject, NoStatus,
    NoLd,         \* a vacant entry
    NoProvider,   \* there is no Provider resource of that name
    Free,         \* nobody holds the write lock of ctx.links
    Peers,        \* the other hosts of the same namespace
    MaxCrashes,   \* how often this host may crash
    MaxFailures,  \* how many calls to NATS or to the API server may fail
    MaxRewires,   \* how often the Actor and Provider resources change
    Resyncs       \* TRUE when events that change nothing arrive too

ASSUME LinksAssumption ==
    /\ Specs \subseteq LinkSpec
    /\ NoLd \notin ResolvedLink
    /\ NoLd \notin [ld : ResolvedLink, refs : SUBSET Link]
    /\ NoStatus \notin LinkStatus
    /\ NoObject \notin [spec      : LinkSpec,
                        status    : LinkStatus \cup {NoStatus},
                        finalizer : BOOLEAN,
                        deleting  : BOOLEAN]
    /\ Free \notin Link
    /\ MaxCrashes \in Nat
    /\ MaxFailures \in Nat
    /\ MaxRewires \in Nat
    /\ Resyncs \in BOOLEAN

VARIABLES
    api, store, queue,  \* the Link objects and their controller's queue: see Kube
    task,        \* the reconciliation of each link
    lock,        \* the link whose task holds ctx.links for writing, or Free
    ctxLinks,    \* ctx.links: id -> (link definition, names of the links that want it)
    hostLinks,   \* host.links: linkdef_hash -> link definition
    groups,      \* host.actors: keys of the actor groups that exist
    groupLinks,  \* the links table of each of these groups
    told,        \* link definitions the providers were told to put and not to delete
    failed,      \* ids of which an announcement failed since this host started
    crashes, failures,
    actorPub,    \* the public key in the status of each Actor resource
    provPub,     \* the link name and public key of each Provider resource
    rewires,
    seen         \* the copies of the Link objects that the other hosts go by

kube == <<api, store, queue>>
tables == <<ctxLinks, hostLinks, groupLinks, told, failed>>
faultCounts == <<crashes, failures>>
resources == <<actorPub, provPub, rewires>>
env == <<resources, seen>>
vars == <<kube, task, lock, tables, groups, faultCounts, env>>

K == INSTANCE Kube WITH Name <- Link, SpecVal <- LinkSpec, StatusVal <- LinkStatus

Provider == [link : LinkName, key : ProviderKey \cup {Empty}]

AddPcs == {"addLock", "addHost", "addGroup", "addPublish", "patch"}
DelPcs == {"delLock", "delHost", "delGroup", "delPublish"}

Idle == [pc |-> "idle", obj |-> NoObject, ld |-> NoLd]

\* A task: where it is, the copy of the object it began with, and the link
\* definition it has put together so far.
Task ==
    {Idle}
    \cup [pc : {"finalize", "release"}, obj : K!Object, ld : {NoLd}]
    \cup [pc : {"resolveActor"}, obj : K!Object, ld : LinkDefinition]
    \cup [pc : {"resolveProvider"}, obj : K!Object,
          ld : {ld \in LinkDefinition : ld.actor_id \in ActorKey}]
    \cup [pc : AddPcs, obj : K!Object, ld : ResolvedLink]
    \cup [pc : DelPcs, obj : {o \in K!Object : o.status \in LinkStatus}, ld : ResolvedLink]

RefEntry == [ld : ResolvedLink, refs : SUBSET Link]

\* Types.  A task past add_link's two look-ups has both keys, and one in
\* delete_link has an object with a status.
TypeOK ==
    /\ K!KubeTypeOK
    /\ task \in [Link -> Task]
    /\ lock \in Link \cup {Free}
    /\ ctxLinks \in [Id -> RefEntry \cup {NoLd}]
    /\ hostLinks \in [Hash -> ResolvedLink \cup {NoLd}]
    /\ groups \in SUBSET ActorKey
    /\ groupLinks \in [ActorKey -> SUBSET WasmCloudEntity]
    /\ told \in SUBSET ResolvedLink
    /\ failed \in SUBSET Id
    /\ crashes \in 0..MaxCrashes
    /\ failures \in 0..MaxFailures
    /\ actorPub \in [ActorName -> ActorKey \cup {Empty}]
    /\ provPub \in [ProviderName -> Provider \cup {NoProvider}]
    /\ rewires \in 0..MaxRewires
    /\ seen \in [Peers -> [Link -> K!Object \cup {NoObject}]]

\* What a host process starts with: no reconciliation, and empty tables.
NoTasks == [l \in Link |-> Idle]
NoCtxLinks == [id \in Id |-> NoLd]
NoHostLinks == [h \in Hash |-> NoLd]
NoGroupLinks == [k \in ActorKey |-> {}]

Init ==
    /\ K!KubeInit
    /\ task = NoTasks
    /\ lock = Free
    /\ ctxLinks = NoCtxLinks
    /\ hostLinks = NoHostLinks
    /\ groups = {}
    /\ groupLinks = NoGroupLinks
    /\ told = {}
    /\ failed = {}
    /\ crashes = 0
    /\ failures = 0
    /\ actorPub = [a \in ActorName |-> Empty]
    /\ provPub = [p \in ProviderName |-> NoProvider]
    /\ rewires = 0
    /\ seen = [h \in Peers |-> [l \in Link |-> NoObject]]

----------------------------------------------------------------------------
(***************************************************************************)
(* The steps of a reconciliation.                                          *)
(***************************************************************************)
At(l, pc) == task[l].pc = pc

Goto(l, pc, ld) ==
    task' = [task EXCEPT ![l] = [pc |-> pc, obj |-> @.obj, ld |-> ld]]

\* The reconciliation ends with Action::await_change.
Done(l) == task' = [task EXCEPT ![l] = Idle]

\* It ends with Action::requeue, or with an error, which the error policy requeues.
Requeue(l) == Done(l) /\ queue' = queue \cup {l}

\* A reconciliation begins with the reflector's copy of the object.
Begin(l, pc, ld) ==
    /\ task' = [task EXCEPT ![l] = [pc |-> pc, obj |-> store[l], ld |-> ld]]
    /\ queue' = queue \ {l}
    /\ UNCHANGED <<api, store, lock, tables, groups, faultCounts, env>>

StartFinalize(l) ==
    /\ At(l, "idle") /\ K!Due(l) /\ K!NeedsFinalizer(store[l])
    /\ Begin(l, "finalize", NoLd)

\* finalizer() patches the finalizer in, and the watch brings the object back.
AddFinalizer(l) ==
    /\ At(l, "finalize")
    /\ \/ K!CanAddFinalizer(l) /\ K!AddFinalizer(l) /\ Done(l) /\ UNCHANGED queue
       \/ ~K!CanAddFinalizer(l) /\ Requeue(l) /\ UNCHANGED api
    /\ UNCHANGED <<store, lock, tables, groups, faultCounts, env>>

----------------------------------------------------------------------------
(***************************************************************************)
(* add_link                                                                *)
(***************************************************************************)
FromStatus(o) == [actor_id    |-> o.status.actorKey,
                  provider_id |-> o.status.providerKey,
                  contract_id |-> o.spec.contractId,
                  link_name   |-> o.status.linkName]

Unresolved(o) == [actor_id    |-> Empty,
                  provider_id |-> Empty,
                  contract_id |-> o.spec.contractId,
                  link_name   |-> o.spec.linkName]

UsableStatus(o) == o.status # NoStatus /\ Complete(o.status)

\* Mutant: a link with a complete status is taken to be in place.
StartApplyTrustingStatus(l) ==
    LET o == store[l] IN
    /\ At(l, "idle") /\ K!Due(l) /\ K!IsApply(o)
    /\ IF MissingLinkName(o.spec) \/ UsableStatus(o)
       THEN /\ queue' = queue \ {l}
            /\ UNCHANGED <<api, store, task, lock, tables, groups, faultCounts, env>>
       ELSE Begin(l, "resolveActor", Unresolved(o))

StartApply(l) ==
    LET o == store[l] IN
    /\ At(l, "idle") /\ K!Due(l) /\ K!IsApply(o)
    /\ IF MissingLinkName(o.spec)
       THEN /\ queue' = queue \ {l}
            /\ UNCHANGED <<api, store, task, lock, tables, groups, faultCounts, env>>
       ELSE IF UsableStatus(o)
       THEN Begin(l, "addLock", FromStatus(o))
       ELSE Begin(l, "resolveActor", Unresolved(o))

\* Mutant: the key in the Actor's status is not compared with the empty string.
ResolveActorUnchecked(l) ==
    LET actor == task[l].obj.spec.actor
        key == IF actor.key # Empty THEN actor.key ELSE actorPub[actor.name]
    IN
    /\ At(l, "resolveActor")
    /\ Goto(l, "resolveProvider", [task[l].ld EXCEPT !.actor_id = key])
    /\ UNCHANGED <<kube, lock, tables, groups, faultCounts, env>>

\* Without a key in the spec, the key is read from the Actor's status.
ResolveActor(l) ==
    LET ld == task[l].ld
        actor == task[l].obj.spec.actor
        key == IF actor.key # Empty THEN actor.key
               ELSE IF actor.name # Empty THEN actorPub[actor.name] ELSE Empty
    IN
    /\ At(l, "resolveActor")
    /\ \/ /\ key # Empty
          /\ Goto(l, "resolveProvider", [ld EXCEPT !.actor_id = key])
          /\ UNCHANGED queue
       \/ /\ key = Empty
          /\ Done(l)
          /\ queue' = IF actor.name = Empty THEN queue ELSE queue \cup {l}
    /\ UNCHANGED <<api, store, lock, tables, groups, faultCounts, env>>

(***************************************************************************)
(* With a name in the spec, the Provider's link name and public key must   *)
(* agree with what the spec says of them.  Only a wrong link name, and a   *)
(* spec that names no provider, are given up on.                           *)
(***************************************************************************)
LinkNameMismatch(ld, p) == p # NoProvider /\ ld.link_name \notin {Empty, p.link}

ProviderResolved(provider, p) ==
    /\ p # NoProvider
    /\ p.key # Empty
    /\ provider.key \in {Empty, p.key}

\* Mutant: a provider without a key yet is given up on, like a wrong link name.
ResolveProviderOnce(l) ==
    LET ld == task[l].ld
        provider == task[l].obj.spec.provider
        p == provPub[provider.name]
    IN
    /\ At(l, "resolveProvider")
    /\ \/ /\ LinkNameMismatch(ld, p) \/ ~ProviderResolved(provider, p)
          /\ Done(l)
       \/ /\ ~LinkNameMismatch(ld, p) /\ ProviderResolved(provider, p)
          /\ Goto(l, "addLock", [ld EXCEPT !.provider_id = p.key, !.link_name = p.link])
    /\ UNCHANGED <<kube, lock, tables, groups, faultCounts, env>>

ResolveProvider(l) ==
    LET ld == task[l].ld
        provider == task[l].obj.spec.provider
        p == provPub[provider.name]
    IN
    /\ At(l, "resolveProvider")
    /\ IF provider.name = Empty
       THEN IF provider.key = Empty
            THEN Done(l) /\ UNCHANGED queue
            ELSE /\ Goto(l, "addLock", [ld EXCEPT !.provider_id = provider.key])
                 /\ UNCHANGED queue
       ELSE \/ LinkNameMismatch(ld, p) /\ Done(l) /\ UNCHANGED queue
            \/ /\ ~LinkNameMismatch(ld, p) /\ ~ProviderResolved(provider, p)
               /\ Requeue(l)
            \/ /\ ~LinkNameMismatch(ld, p) /\ ProviderResolved(provider, p)
               /\ Goto(l, "addLock", [ld EXCEPT !.provider_id = p.key, !.link_name = p.link])
               /\ UNCHANGED queue
    /\ UNCHANGED <<api, store, lock, tables, groups, faultCounts, env>>

\* The Actor or the Provider that the spec names cannot be read.
ResolveFail(l) ==
    LET spec == task[l].obj.spec IN
    /\ \/ At(l, "resolveActor") /\ spec.actor.key = Empty /\ spec.actor.name # Empty
       \/ At(l, "resolveProvider") /\ spec.provider.name # Empty
    /\ failures < MaxFailures
    /\ failures' = failures + 1
    /\ Requeue(l)
    /\ UNCHANGED <<api, store, lock, tables, groups, crashes, env>>

\* ctx.links.write(), occupied entry: one more link wants the definition there.
AddRef(l) ==
    LET id == IdOf(task[l].ld) IN
    /\ At(l, "addLock") /\ lock = Free
    /\ ctxLinks[id] # NoLd
    /\ ctxLinks' = [ctxLinks EXCEPT ![id].refs = @ \cup {l}]
    /\ Goto(l, "patch", task[l].ld)
    /\ UNCHANGED <<kube, lock, hostLinks, groups, groupLinks, told, failed, faultCounts, env>>

\* ctx.links.write(), vacant entry: the lock is held until add_linkdef is over.
AddAcquire(l) ==
    /\ At(l, "addLock") /\ lock = Free
    /\ ctxLinks[IdOf(task[l].ld)] = NoLd
    /\ lock' = l
    /\ Goto(l, "addHost", task[l].ld)
    /\ UNCHANGED <<kube, tables, groups, faultCounts, env>>

\* add_linkdef returned Ok: the entry is filled in, and the lock released.
Added(l) ==
    /\ ctxLinks' = [ctxLinks EXCEPT ![IdOf(task[l].ld)] = [ld |-> task[l].ld, refs |-> {l}]]
    /\ lock' = Free
    /\ Goto(l, "patch", task[l].ld)

\* add_linkdef: host.links.write(); an occupied entry is "skip linkdef".
AddHost(l) ==
    LET ld == task[l].ld IN
    /\ At(l, "addHost")
    /\ IF hostLinks[HashOf(ld)] = NoLd
       THEN /\ hostLinks' = [hostLinks EXCEPT ![HashOf(ld)] = ld]
            /\ Goto(l, "addGroup", ld)
            /\ UNCHANGED <<ctxLinks, lock>>
       ELSE Added(l) /\ UNCHANGED hostLinks
    /\ UNCHANGED <<kube, groups, groupLinks, told, failed, faultCounts, env>>

\* The entry of a group's table (contract id -> link name -> entity) that ld is.
EntryOf(ld, e) == e.contract_id = ld.contract_id /\ e.link_name = ld.link_name

Without(k, ld) == {e \in groupLinks[k] : ~EntryOf(ld, e)}

\* Mutant: an actor without a group is taken to need no announcement.
AddGroupOnly(l) ==
    LET ld == task[l].ld IN
    /\ At(l, "addGroup")
    /\ IF ld.actor_id \in groups
       THEN /\ groupLinks' = [groupLinks EXCEPT
                                ![ld.actor_id] = Without(ld.actor_id, ld) \cup {EntityOf(ld)}]
            /\ Goto(l, "addPublish", ld)
            /\ UNCHANGED <<lock, ctxLinks>>
       ELSE Added(l) /\ UNCHANGED groupLinks
    /\ UNCHANGED <<kube, hostLinks, groups, told, failed, faultCounts, env>>

(***************************************************************************)
(* add_linkdef: the actor's group, if it has one.  The step is the end of  *)
(* two waits without a time limit: for host.actors, and, with host.actors  *)
(* read-locked, for the group's links, which every call of an actor of the *)
(* group keeps read-locked until it is answered (Invocations).             *)
(***************************************************************************)
AddGroup(l) ==
    LET ld == task[l].ld IN
    /\ At(l, "addGroup")
    /\ groupLinks' = IF ld.actor_id \in groups
                     THEN [groupLinks EXCEPT
                             ![ld.actor_id] = Without(ld.actor_id, ld) \cup {EntityOf(ld)}]
                     ELSE groupLinks
    /\ Goto(l, "addPublish", ld)
    /\ UNCHANGED <<kube, lock, ctxLinks, hostLinks, groups, told, failed, faultCounts, env>>

\* add_linkdef: linkdefs.put to the provider.
AddPublish(l) ==
    /\ At(l, "addPublish")
    /\ told' = told \cup {task[l].ld}
    /\ Added(l)
    /\ UNCHANGED <<kube, hostLinks, groups, groupLinks, failed, faultCounts, env>>

\* The publication fails: add_link logs it, fills no entry and awaits a change.
AddPublishFail(l) ==
    /\ At(l, "addPublish")
    /\ failures < MaxFailures
    /\ failures' = failures + 1
    /\ failed' = failed \cup {IdOf(task[l].ld)}
    /\ lock' = Free
    /\ Done(l)
    /\ UNCHANGED <<kube, ctxLinks, hostLinks, groups, groupLinks, told, crashes, env>>

StatusOf(ld) == [actorKey    |-> ld.actor_id,
                 providerKey |-> ld.provider_id,
                 linkName    |-> ld.link_name]

\* The status is patched unless the copy the task began with has it already.
PatchStatus(l) ==
    LET status == StatusOf(task[l].ld) IN
    /\ At(l, "patch")
    /\ IF task[l].obj.status = status \/ ~K!CanPatchStatus(l)
       THEN api' = api
       ELSE K!WriteStatus(l, status)
    /\ Done(l)
    /\ UNCHANGED <<store, queue, lock, tables, groups, faultCounts, env>>

\* The patch fails: it is logged, and not tried again.
PatchStatusFail(l) ==
    /\ At(l, "patch")
    /\ task[l].obj.status # StatusOf(task[l].ld)
    /\ failures < MaxFailures
    /\ failures' = failures + 1
    /\ Done(l)
    /\ UNCHANGED <<kube, lock, tables, groups, crashes, env>>

----------------------------------------------------------------------------
(***************************************************************************)
(* delete_link, and the removal of the finalizer that follows it           *)
(***************************************************************************)
\* Mutant: the finalizer is removed, and the link stays.
StartCleanupFinalizerOnly(l) ==
    /\ At(l, "idle") /\ K!Due(l) /\ K!IsCleanup(store[l])
    /\ Begin(l, "release", NoLd)

StartCleanup(l) ==
    LET o == store[l] IN
    /\ At(l, "idle") /\ K!Due(l) /\ K!IsCleanup(o)
    /\ IF UsableStatus(o)
       THEN Begin(l, "delLock", FromStatus(o))
       ELSE Begin(l, "release", NoLd)

\* The entry of ctx.links that the object's status names.
CleanupId(l) == IdOf(FromStatus(task[l].obj))

\* ctx.links.write(): the entry is vacant, or wanted by other links too.
DelRef(l) ==
    LET id == CleanupId(l) IN
    /\ At(l, "delLock") /\ lock = Free
    /\ \/ ctxLinks[id] = NoLd /\ UNCHANGED ctxLinks
       \/ /\ ctxLinks[id] # NoLd
          /\ ctxLinks[id].refs \ {l} # {}
          /\ ctxLinks' = [ctxLinks EXCEPT ![id].refs = @ \ {l}]
    /\ Goto(l, "release", NoLd)
    /\ UNCHANGED <<kube, lock, hostLinks, groups, groupLinks, told, failed, faultCounts, env>>

\* Mutant: the link is deleted although other Link objects want it.
DelAcquireShared(l) ==
    LET id == CleanupId(l) IN
    /\ At(l, "delLock") /\ lock = Free
    /\ ctxLinks[id] # NoLd
    /\ ctxLinks' = [ctxLinks EXCEPT ![id].refs = @ \ {l}]
    /\ lock' = l
    /\ Goto(l, "delHost", ctxLinks[id].ld)
    /\ UNCHANGED <<kube, hostLinks, groups, groupLinks, told, failed, faultCounts, env>>

\* ctx.links.write(): nobody else wants it, and the lock is held on.
DelAcquire(l) ==
    LET id == CleanupId(l) IN
    /\ At(l, "delLock") /\ lock = Free
    /\ ctxLinks[id] # NoLd
    /\ ctxLinks[id].refs \ {l} = {}
    /\ ctxLinks' = [ctxLinks EXCEPT ![id].refs = {}]
    /\ lock' = l
    /\ Goto(l, "delHost", ctxLinks[id].ld)
    /\ UNCHANGED <<kube, hostLinks, groups, groupLinks, told, failed, faultCounts, env>>

\* delete_linkdef failed: the entry stays, with no link wanting it.
DeleteFailed(l) ==
    /\ lock' = Free
    /\ Goto(l, "release", NoLd)

(***************************************************************************)
(* delete_linkdef: host.links.write(); the definition found there is the   *)
(* one the rest of delete_linkdef is about.                                *)
(***************************************************************************)
DelHost(l) ==
    LET h == HashOf(task[l].ld) IN
    /\ At(l, "delHost")
    /\ IF hostLinks[h] = NoLd
       THEN DeleteFailed(l) /\ UNCHANGED hostLinks
       ELSE /\ hostLinks' = [hostLinks EXCEPT ![h] = NoLd]
            /\ Goto(l, "delGroup", hostLinks[h])
            /\ UNCHANGED lock
    /\ UNCHANGED <<kube, ctxLinks, groups, groupLinks, told, failed, faultCounts, env>>

\* As AddGroup, after the same two waits.
DelGroup(l) ==
    LET ld == task[l].ld IN
    /\ At(l, "delGroup")
    /\ groupLinks' = IF ld.actor_id \in groups
                     THEN [groupLinks EXCEPT ![ld.actor_id] = Without(ld.actor_id, ld)]
                     ELSE groupLinks
    /\ Goto(l, "delPublish", ld)
    /\ UNCHANGED <<kube, lock, ctxLinks, hostLinks, groups, told, failed, faultCounts, env>>

\* linkdefs.del to the provider; delete_link then removes the entry.
DelPublish(l) ==
    /\ At(l, "delPublish")
    /\ told' = told \ {task[l].ld}
    /\ ctxLinks' = [ctxLinks EXCEPT ![CleanupId(l)] = NoLd]
    /\ lock' = Free
    /\ Goto(l, "release", NoLd)
    /\ UNCHANGED <<kube, hostLinks, groups, groupLinks, failed, faultCounts, env>>

DelPublishFail(l) ==
    /\ At(l, "delPublish")
    /\ failures < MaxFailures
    /\ failures' = failures + 1
    /\ failed' = failed \cup {CleanupId(l)}
    /\ DeleteFailed(l)
    /\ UNCHANGED <<kube, ctxLinks, hostLinks, groups, groupLinks, told, crashes, env>>

\* Mutant: a deletion without a complete status is an error, to be tried again.
ReleaseLinked(l) ==
    /\ At(l, "release")
    /\ \/ /\ UsableStatus(task[l].obj) /\ K!CanRemoveFinalizer(l)
          /\ K!RemoveFinalizer(l) /\ Done(l) /\ UNCHANGED queue
       \/ ~UsableStatus(task[l].obj) /\ Requeue(l) /\ UNCHANGED api
    /\ UNCHANGED <<store, lock, tables, groups, faultCounts, env>>

(***************************************************************************)
(* delete_link always returns Ok, so finalizer() removes the finalizer,    *)
(* also after a failed delete_linkdef.  The requeue that delete_link asks  *)
(* for then finds no object, or is one more Resync of a new one.           *)
(***************************************************************************)
Release(l) ==
    /\ At(l, "release")
    /\ \/ K!CanRemoveFinalizer(l) /\ K!RemoveFinalizer(l) /\ Done(l) /\ UNCHANGED queue
       \/ ~K!CanRemoveFinalizer(l) /\ Requeue(l) /\ UNCHANGED api
    /\ UNCHANGED <<store, lock, tables, groups, faultCounts, env>>

\* Mutant: the error is logged, and the event taken to be dealt with.
ReleaseFailLogged(l) ==
    /\ At(l, "release")
    /\ failures < MaxFailures
    /\ failures' = failures + 1
    /\ Done(l)
    /\ UNCHANGED <<kube, lock, tables, groups, crashes, env>>

ReleaseFail(l) ==
    /\ At(l, "release")
    /\ failures < MaxFailures
    /\ failures' = failures + 1
    /\ Requeue(l)
    /\ UNCHANGED <<api, store, lock, tables, groups, crashes, env>>

----------------------------------------------------------------------------
(***************************************************************************)
(* The actor controller: a new group starts with the links the host has    *)
(* for its key, taken with host.actors write-locked.                       *)
(***************************************************************************)
get_actor_links(k) ==
    {EntityOf(hostLinks[h]) : h \in {g \in Hash : hostLinks[g] # NoLd /\ hostLinks[g].actor_id = k}}

\* Mutant: a new group starts without links.
NewGroupUnlinked(k) ==
    /\ k \notin groups
    /\ groups' = groups \cup {k}
    /\ groupLinks' = [groupLinks EXCEPT ![k] = {}]
    /\ UNCHANGED <<kube, task, lock, ctxLinks, hostLinks, told, failed, faultCounts, env>>

NewGroup(k) ==
    /\ k \notin groups
    /\ groups' = groups \cup {k}
    /\ groupLinks' = [groupLinks EXCEPT ![k] = get_actor_links(k)]
    /\ UNCHANGED <<kube, task, lock, ctxLinks, hostLinks, told, failed, faultCounts, env>>

DropGroup(k) ==
    /\ k \in groups
    /\ groups' = groups \ {k}
    /\ groupLinks' = [groupLinks EXCEPT ![k] = {}]
    /\ UNCHANGED <<kube, task, lock, ctxLinks, hostLinks, told, failed, faultCounts, env>>

----------------------------------------------------------------------------
(***************************************************************************)
(* The world around the host.                                              *)
(***************************************************************************)
local == <<task, lock, tables, groups, faultCounts>>

\* A Link's spec is validated when it is created, and cannot be changed.
Create(l, s) == validate(s) /\ K!Create(l, s) /\ UNCHANGED <<local, env>>
Delete(l) == K!Delete(l) /\ UNCHANGED <<local, env>>
Watch(l) == K!Watch(l) /\ UNCHANGED <<local, env>>
Resync(l) == Resyncs /\ K!Resync(l) /\ UNCHANGED <<local, env>>

SetActor(a, k) ==
    /\ rewires < MaxRewires
    /\ rewires' = rewires + 1
    /\ actorPub[a] # k
    /\ actorPub' = [actorPub EXCEPT ![a] = k]
    /\ UNCHANGED <<kube, local, provPub, seen>>

SetProvider(n, p) ==
    /\ rewires < MaxRewires
    /\ rewires' = rewires + 1
    /\ provPub[n] # p
    /\ provPub' = [provPub EXCEPT ![n] = p]
    /\ UNCHANGED <<kube, local, actorPub, seen>>

(***************************************************************************)
(* Every other host of the namespace runs this controller on the same      *)
(* objects, with the same finalizer (it does not look at a host name), and *)
(* publishes on the same lattice.  Its tables are not known here: whether  *)
(* it finds an entry vacant, and so publishes, is left open, and so is     *)
(* what it read of the Actor and the Provider.  Each step of it goes by    *)
(* the copy of the object it has, however old.                             *)
(***************************************************************************)
PeerWatch(h, l) ==
    /\ seen[h][l] # api[l]
    /\ seen' = [seen EXCEPT ![h][l] = api[l]]
    /\ UNCHANGED <<kube, local, resources>>

\* The definitions that add_link may arrive at from the object o.
PeerLinks(o) ==
    IF UsableStatus(o) THEN {FromStatus(o)}
    ELSE {ld \in ResolvedLink :
            /\ ~MissingLinkName(o.spec)
            /\ ld.contract_id = o.spec.contractId
            /\ o.spec.actor.key \in {Empty, ld.actor_id}
            /\ o.spec.provider.key \in {Empty, ld.provider_id}
            /\ o.spec.linkName \in {Empty, ld.link_name}
            /\ ld.link_name # Empty}

\* The patches of another host.
PeerPatch(h, l) ==
    LET o == seen[h][l] IN
    /\ \/ K!NeedsFinalizer(o) /\ K!CanAddFinalizer(l) /\ K!AddFinalizer(l)
       \/ /\ K!IsApply(o) /\ K!CanPatchStatus(l)
          /\ \E ld \in PeerLinks(o) : o.status # StatusOf(ld) /\ K!WriteStatus(l, StatusOf(ld))
       \/ K!IsCleanup(o) /\ K!CanRemoveFinalizer(l) /\ K!RemoveFinalizer(l)
    /\ UNCHANGED <<store, queue, local, env>>

\* Its announcements: a definition it adds, and one that it has under the id of
\* a status and deletes.
PeerPublish(h, l) ==
    LET o == seen[h][l] IN
    /\ \/ K!IsApply(o) /\ \E ld \in PeerLinks(o) : told' = told \cup {ld}
       \/ /\ K!IsCleanup(o) /\ UsableStatus(o)
          /\ \E ld \in ResolvedLink : /\ IdOf(ld) = IdOf(FromStatus(o))
                                      /\ told' = told \ {ld}
    /\ UNCHANGED <<kube, task, lock, ctxLinks, hostLinks, groups, groupLinks, failed,
                   faultCounts, env>>

\* The process dies and starts again; the providers it had told remain told.
Crash ==
    /\ crashes < MaxCrashes
    /\ crashes' = crashes + 1
    /\ task' = NoTasks
    /\ lock' = Free
    /\ ctxLinks' = NoCtxLinks
    /\ hostLinks' = NoHostLinks
    /\ groups' = {}
    /\ groupLinks' = NoGroupLinks
    /\ failed' = {}
    /\ store' = [l \in Link |-> NoObject]
    /\ queue' = {}
    /\ UNCHANGED <<api, told, failures, env>>

----------------------------------------------------------------------------
Start(l) == StartFinalize(l) \/ StartApply(l) \/ StartCleanup(l)

Acquire(l) == AddRef(l) \/ AddAcquire(l) \/ DelRef(l) \/ DelAcquire(l)

Step(l) ==
    \/ AddFinalizer(l) \/ ResolveActor(l) \/ ResolveProvider(l) \/ ResolveFail(l)
    \/ AddHost(l) \/ AddGroup(l) \/ AddPublish(l) \/ AddPublishFail(l)
    \/ PatchStatus(l) \/ PatchStatusFail(l)
    \/ DelHost(l) \/ DelGroup(l) \/ DelPublish(l) \/ DelPublishFail(l)
    \/ Release(l) \/ ReleaseFail(l)

World ==
    \/ \E l \in Link : \/ \E s \in Specs : Create(l, s)
                       \/ Delete(l) \/ Watch(l) \/ Resync(l)
    \/ \E h \in Peers, l \in Link : PeerWatch(h, l) \/ PeerPatch(h, l) \/ PeerPublish(h, l)
    \/ \E k \in ActorKey : NewGroup(k) \/ DropGroup(k)
    \/ \E a \in ActorName, k \in ActorKey \cup {Empty} : SetActor(a, k)
    \/ \E n \in ProviderName, p \in Provider \cup {NoProvider} : SetProvider(n, p)
    \/ Crash

Next == (\E l \in Link : Start(l) \/ Acquire(l) \/ Step(l)) \/ World

Spec == Init /\ [][Next]_vars

\* The task has changed host.links, and waits for the table of the actor's group.
AtGroup(l) == task[l].pc \in {"addGroup", "delGroup"}

(***************************************************************************)
(* The controller polls every task, so a task that can go on does; the     *)
(* watch delivers; and tokio's RwLock queues its waiters, so a task that   *)
(* waits for ctx.links gets it although others come and go.  Nothing makes *)
(* AddGroup and DelGroup happen: they wait for calls of actors.            *)
(***************************************************************************)
Fairness ==
    \A l \in Link : /\ WF_vars(Watch(l))
                    /\ WF_vars(Start(l))
                    /\ WF_vars(~AtGroup(l) /\ Step(l))
                    /\ SF_vars(Acquire(l))

FairSpec == Spec /\ Fairness
----------------------------------------------------------------------------
(***************************************************************************)
(* Properties.                                                             *)
(***************************************************************************)

\* Entities of group k that an add_linkdef or a delete_linkdef is between
\* having changed in host.links and changing in the group's table.
InFlight(k) ==
    {EntityOf(task[l].ld) :
        l \in {m \in Link : task[m].pc \in {"addGroup", "delGroup"} /\ task[m].ld.actor_id = k}}

(***************************************************************************)
(* The links an actor's handler looks up are those the host has for the    *)
(* actor, whenever its group was made: before, after, or while a link is   *)
(* added or deleted (add_linkdef and delete_linkdef release host.links     *)
(* before they look for a group, reconcile_actor fills a new group's table *)
(* from host.links).                                                       *)
(***************************************************************************)
LinkTablesAgree ==
    \A k \in groups : \A e \in WasmCloudEntity \ InFlight(k) :
        e \in groupLinks[k] <=> e \in get_actor_links(k)

\* The controller is done with the newest it knows of l, a link it keeps.
Settled(l) ==
    /\ At(l, "idle")
    /\ l \notin queue
    /\ K!IsApply(store[l])
    /\ ~MissingLinkName(store[l].spec)

\* The link ld is counted for l, and is in the host's table.
Established(l, ld) ==
    /\ ctxLinks[IdOf(ld)] # NoLd
    /\ l \in ctxLinks[IdOf(ld)].refs
    /\ hostLinks[HashOf(ld)] # NoLd
    /\ SameLink(hostLinks[HashOf(ld)], ld)

\* The provider of the host's entry for ld was told of it.
Announced(ld) == hostLinks[HashOf(ld)] \in told

\* l is settled, and reports a link of which no announcement failed.
Reported(l) ==
    /\ Settled(l)
    /\ UsableStatus(store[l])
    /\ IdOf(FromStatus(store[l])) \notin failed

(***************************************************************************)
(* Once a Link that reports a link in its status is settled, this host     *)
(* really has that link: counted for it in ctx.links, and in host.links,   *)
(* unless an announcement of it failed.  The status may be of an earlier   *)
(* run of the host, or of another host.                                    *)
(***************************************************************************)
EstablishedLinks ==
    \A l \in Link : Reported(l) => Established(l, FromStatus(store[l]))

(***************************************************************************)
(* The provider of a link that is settled and reported was told of it, and *)
(* not told since to drop it.  Only a host that is alone can promise this: *)
(* each host counts for itself the Links that want a definition, and one   *)
(* that deletes it publishes linkdefs.del also when another host, which    *)
(* joined its own entry and published nothing, still has it.               *)
(***************************************************************************)
AnnouncedLinks ==
    \A l \in Link : Reported(l) => Announced(FromStatus(store[l]))

\* The Provider that l names has another link name than l: add_link gives up,
\* and looks again only when the Link object changes.
Mismatched(l) ==
    /\ api[l] # NoObject
    /\ api[l].spec.provider.name # Empty
    /\ LinkNameMismatch(Unresolved(api[l]), provPub[api[l].spec.provider.name])

\* A link that is there to stay, and whose actor and provider have keys.
Wanted(l) ==
    LET o == api[l]
        provider == o.spec.provider
    IN
    /\ o # NoObject /\ ~o.deleting
    /\ ~MissingLinkName(o.spec)
    /\ o.spec.actor.key # Empty \/ actorPub[o.spec.actor.name] # Empty
    /\ provider.name # Empty => ProviderResolved(provider, provPub[provider.name])

\* The status says which link it is, and the host has it.
Linked(l) ==
    /\ api[l] # NoObject
    /\ api[l].status # NoStatus
    /\ Established(l, FromStatus(api[l]))
    /\ Announced(FromStatus(api[l]))

\* The calls that keep a group's links read-locked are answered, and host.actors
\* is released: no task waits for a group's table for ever.
GroupsYield == \A l \in Link : []<>~AtGroup(l)

(***************************************************************************)
(* A Link whose actor and provider come to have keys and keep them is in   *)
(* the end established, announced, and says so in its status, whatever     *)
(* other links do with the same link definition meanwhile, unless it once  *)
(* met a Provider of another link name, a call of NATS or of the API       *)
(* server failed (add_link does not try again when it could not publish or *)
(* patch), or a task waits for a group's table for ever.                   *)
(***************************************************************************)
WantedLinksGetLinked ==
    GroupsYield =>
        \A l \in Link : ([](~Mismatched(l) /\ failures = 0) /\ <>[]Wanted(l)) => <>[]Linked(l)

(***************************************************************************)
(* No Link is being deleted for ever, and so, as a mark for deletion stays *)
(* until the object is gone, every deletion completes, provided that no    *)
(* task waits for a group's table for ever: who waits for ctx.links gets   *)
(* it, and delete_link returns Ok on every path.  The proviso is needed    *)
(* for every Link of the host: delete_linkdef waits for the calls of one   *)
(* actor with ctx.links locked.                                            *)
(***************************************************************************)
DeletionsComplete ==
    GroupsYield =>
        \A l \in Link : []<>~(api[l] # NoObject /\ api[l].deleting)

(***************************************************************************)
(* No failure makes the controller forget a deletion.  When it has seen    *)
(* that a Link is being deleted, a reconciliation of it is due, or one     *)
(* that goes by a copy marked for deletion is under way, also after a      *)
(* delete_linkdef that failed, a finalizer that could not be removed, and  *)
(* a crash.  (On a host that is alone: another may remove the object and   *)
(* bring a new one of the same name to look the same between two looks.)   *)
(***************************************************************************)
DeletionsStayDue ==
    \A l \in Link :
        K!IsCleanup(api[l]) /\ store[l] = api[l] =>
            \/ l \in queue
            \/ task[l].pc \in DelPcs \cup {"release"} /\ K!IsCleanup(task[l].obj)
=============================================================================
