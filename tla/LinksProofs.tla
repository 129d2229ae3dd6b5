----------------------------- MODULE LinksProofs -----------------------------
(***************************************************************************)
(* Theorems about Links, for any number of links, actors and providers,    *)
(* any bounds, with and without other hosts.                               *)
(***************************************************************************)
EXTENDS Links, TLAPS

----------------------------------------------------------------------------
(***************************************************************************)
(* Typing.                                                                 *)
(***************************************************************************)

\* FromStatus of an object that has a status is a link definition for the tables.
LEMMA FromStatusType ==
    ASSUME NEW o \in K!Object, o.status \in LinkStatus
    PROVE  FromStatus(o) \in ResolvedLink
BY DEF K!Object, LinkSpec, LinkStatus, FromStatus, ResolvedLink

\* The keys of a link definition are keys of the tables.
LEMMA KeyType ==
    ASSUME NEW ld \in ResolvedLink
    PROVE  HashOf(ld) \in Hash /\ IdOf(ld) \in Id
BY DEF Hash, Id

\* add_link begins with a link definition, whose keys are still empty.
LEMMA UnresolvedType ==
    ASSUME NEW o \in K!Object
    PROVE  Unresolved(o) \in LinkDefinition
BY DEF K!Object, LinkSpec, Unresolved, LinkDefinition

\* What the program counter of a task says about the rest of it.
LEMMA TaskFacts ==
    ASSUME NEW t \in Task
    PROVE  /\ t.pc # "idle" => t.obj \in K!Object
           /\ t.pc \in {"resolveActor", "resolveProvider"} => t.ld \in LinkDefinition
           /\ t.pc = "resolveProvider" => t.ld.actor_id \in ActorKey
           /\ t.pc \in AddPcs \cup DelPcs => t.ld \in ResolvedLink
           /\ t.pc \in DelPcs => t.obj.status \in LinkStatus
BY DEF Task, Idle, AddPcs, DelPcs

\* What a group keeps of a link definition is an entity.
LEMMA EntityType ==
    ASSUME NEW ld \in ResolvedLink
    PROVE  EntityOf(ld) \in WasmCloudEntity
BY DEF ResolvedLink, WasmCloudEntity, EntityOf

\* A patched object is an object.
LEMMA PatchType ==
    ASSUME NEW o \in K!Object, NEW b \in BOOLEAN
    PROVE  [o EXCEPT !.finalizer = b] \in K!Object /\ [o EXCEPT !.deleting = b] \in K!Object
BY DEF K!Object

\* A link definition with one more field resolved is a link definition.
LEMMA ResolveType ==
    ASSUME NEW ld \in LinkDefinition
    PROVE  /\ \A key \in ActorKey :
                /\ [ld EXCEPT !.actor_id = key] \in LinkDefinition
                /\ [ld EXCEPT !.actor_id = key].actor_id \in ActorKey
           /\ ld.actor_id \in ActorKey =>
                \A key \in ProviderKey :
                  /\ [ld EXCEPT !.provider_id = key] \in ResolvedLink
                  /\ \A n \in LinkName \cup {Empty} :
                       [ld EXCEPT !.provider_id = key, !.link_name = n] \in ResolvedLink
BY DEF LinkDefinition, ResolvedLink

\* Replacing one task by a well-typed one keeps the tasks well-typed.
LEMMA TaskUpdate ==
    ASSUME task \in [Link -> Task], NEW l \in Link, NEW t \in Task,
           task' = [task EXCEPT ![l] = t]
    PROVE  task' \in [Link -> Task]
OBVIOUS

\* A reconciliation that ends keeps the tasks well-typed.
LEMMA DoneType ==
    ASSUME TypeOK, NEW l \in Link, Done(l)
    PROVE  task' \in [Link -> Task]
BY TaskUpdate DEF Done, TypeOK, Task

\* A reconciliation that begins well-typed keeps the types.
LEMMA BeginType ==
    ASSUME TypeOK, NEW l \in Link, NEW pc, NEW ld, Begin(l, pc, ld),
           [pc |-> pc, obj |-> store[l], ld |-> ld] \in Task
    PROVE  TypeOK'
<1>1. task' \in [Link -> Task]
  BY TaskUpdate DEF Begin, TypeOK
<1> QED
  BY <1>1 DEF TypeOK, Begin, K!KubeTypeOK, tables, faultCounts, env, resources

\* A task that goes on well-typed keeps the tasks well-typed.
LEMMA GotoType ==
    ASSUME TypeOK, NEW l \in Link, NEW pc, NEW ld, Goto(l, pc, ld),
           [pc |-> pc, obj |-> task[l].obj, ld |-> ld] \in Task
    PROVE  task' \in [Link -> Task]
BY TaskUpdate DEF Goto, TypeOK

\* A host starts with tables of their types.
THEOREM InitType == Init => TypeOK
BY LinksAssumption DEF Init, TypeOK, K!KubeInit, K!KubeTypeOK, NoTasks, NoCtxLinks,
   NoHostLinks, NoGroupLinks, Task
\* Every step of a reconciliation keeps the types.
LEMMA TaskStepType ==
    ASSUME TypeOK, NEW l \in Link, Start(l) \/ Acquire(l) \/ Step(l)
    PROVE  TypeOK'
<1> DEFINE t == task[l]
<1>t. task \in [Link -> Task] /\ t \in Task
  BY DEF TypeOK
<1>f. /\ t.pc # "idle" => t.obj \in K!Object
      /\ t.pc \in {"resolveActor", "resolveProvider"} => t.ld \in LinkDefinition
      /\ t.pc = "resolveProvider" => t.ld.actor_id \in ActorKey
      /\ t.pc \in AddPcs \cup DelPcs => t.ld \in ResolvedLink
      /\ t.pc \in DelPcs => t.obj.status \in LinkStatus
  BY <1>t, TaskFacts
<1>k. t.pc \in AddPcs \cup DelPcs => HashOf(t.ld) \in Hash /\ IdOf(t.ld) \in Id
  BY <1>f, KeyType
<1>c. t.pc \in DelPcs => CleanupId(l) \in Id
  BY <1>f, KeyType, FromStatusType DEF CleanupId, DelPcs
<1>o. store[l] # NoObject => store[l] \in K!Object
  BY DEF TypeOK, K!KubeTypeOK
<1> USE DEF At
<1>1. CASE StartFinalize(l)
  BY <1>1, <1>o, BeginType DEF StartFinalize, K!NeedsFinalizer, Task
<1>2. CASE StartApply(l)
  <2>1. store[l] \in K!Object
    BY <1>2, <1>o DEF StartApply, K!IsApply
  <2>2. UsableStatus(store[l]) => store[l].status \in LinkStatus
    BY <2>1 DEF UsableStatus, K!Object
  <2>3. CASE MissingLinkName(store[l].spec)
    BY <1>2, <2>3 DEF StartApply, TypeOK, K!KubeTypeOK, tables, faultCounts, env, resources
  <2>4. CASE ~MissingLinkName(store[l].spec) /\ UsableStatus(store[l])
    <3>1. FromStatus(store[l]) \in ResolvedLink
      BY <2>1, <2>2, <2>4, FromStatusType
    <3> QED
      BY <1>2, <2>1, <2>4, <3>1, BeginType DEF StartApply, Task, AddPcs
  <2>5. CASE ~MissingLinkName(store[l].spec) /\ ~UsableStatus(store[l])
    BY <1>2, <2>1, <2>5, UnresolvedType, BeginType DEF StartApply, Task
  <2> QED
    BY <2>3, <2>4, <2>5
<1>3. CASE StartCleanup(l)
  <2>1. store[l] \in K!Object
    BY <1>3, <1>o DEF StartCleanup, K!IsCleanup
  <2>2. CASE UsableStatus(store[l])
    <3>1. store[l].status \in LinkStatus
      BY <2>1, <2>2 DEF UsableStatus, K!Object
    <3>2. FromStatus(store[l]) \in ResolvedLink
      BY <2>1, <3>1, FromStatusType
    <3> QED
      BY <1>3, <2>1, <2>2, <3>1, <3>2, BeginType DEF StartCleanup, Task, DelPcs
  <2>3. CASE ~UsableStatus(store[l])
    BY <1>3, <2>1, <2>3, BeginType DEF StartCleanup, Task
  <2> QED
    BY <2>2, <2>3
<1>4. CASE AddFinalizer(l)
  <2>1. task' \in [Link -> Task]
    BY <1>4, DoneType DEF AddFinalizer, Requeue
  <2>2. api' \in [Link -> K!Object \cup {NoObject}]
    <3>1. CASE UNCHANGED api
      BY <3>1 DEF TypeOK, K!KubeTypeOK
    <3>2. CASE K!CanAddFinalizer(l) /\ K!AddFinalizer(l)
      BY <3>2, PatchType DEF K!CanAddFinalizer, K!AddFinalizer, TypeOK, K!KubeTypeOK
    <3> QED
      BY <1>4, <3>1, <3>2 DEF AddFinalizer
  <2> QED
    BY <1>4, <2>1, <2>2 DEF AddFinalizer, Requeue, TypeOK, K!KubeTypeOK, kube, tables, faultCounts, env, resources
<1>5. CASE ResolveActor(l)
  <2>1. task' \in [Link -> Task]
    <3>1. CASE Done(l)
      BY <3>1, DoneType
    <3>2. CASE \E key \in ActorKey : Goto(l, "resolveProvider", [t.ld EXCEPT !.actor_id = key])
      <4>1. PICK key \in ActorKey : Goto(l, "resolveProvider", [t.ld EXCEPT !.actor_id = key])
        BY <3>2
      <4>2. t.ld \in LinkDefinition /\ t.obj \in K!Object
        BY <1>5, <1>f DEF ResolveActor
      <4>3. [pc |-> "resolveProvider", obj |-> t.obj, ld |-> [t.ld EXCEPT !.actor_id = key]] \in Task
        BY <4>2, ResolveType DEF Task
      <4> QED
        BY <4>1, <4>3, GotoType
    <3>3. t.obj.spec.actor \in [key : ActorKey \cup {Empty}, name : ActorName \cup {Empty}]
      BY <1>5, <1>f DEF ResolveActor, K!Object, LinkSpec
    <3> QED
      BY <1>5, <3>1, <3>2, <3>3 DEF ResolveActor, TypeOK
  <2> QED
    BY <1>5, <2>1 DEF ResolveActor, TypeOK, K!KubeTypeOK, kube, tables, faultCounts, env, resources
<1>6. CASE ResolveProvider(l)
  <2>1. task' \in [Link -> Task]
    <3>1. CASE Done(l)
      BY <3>1, DoneType
    <3>2. CASE \E ld \in ResolvedLink : Goto(l, "addLock", ld)
      <4>1. PICK ld \in ResolvedLink : Goto(l, "addLock", ld)
        BY <3>2
      <4>2. t.obj \in K!Object
        BY <1>6, <1>f DEF ResolveProvider
      <4>3. [pc |-> "addLock", obj |-> t.obj, ld |-> ld] \in Task
        BY <4>2 DEF Task, AddPcs
      <4> QED
        BY <4>1, <4>3, GotoType
    <3>3. t.ld \in LinkDefinition /\ t.ld.actor_id \in ActorKey
      BY <1>6, <1>f DEF ResolveProvider
    <3> DEFINE provider == t.obj.spec.provider
               p == provPub[provider.name]
    <3>4. provider \in [key : ProviderKey \cup {Empty}, name : ProviderName \cup {Empty}]
      BY <1>6, <1>f DEF ResolveProvider, K!Object, LinkSpec
    <3>5. provider.key # Empty => [t.ld EXCEPT !.provider_id = provider.key] \in ResolvedLink
      BY <3>3, <3>4, ResolveType
    <3>6. provider.name # Empty /\ ProviderResolved(provider, p) =>
            [t.ld EXCEPT !.provider_id = p.key, !.link_name = p.link] \in ResolvedLink
      <4>1. provider.name # Empty /\ p # NoProvider => p \in Provider
        BY <3>4 DEF TypeOK
      <4> QED
        BY <3>3, <4>1, ResolveType DEF ProviderResolved, Provider
    <3> QED
      BY <1>6, <3>1, <3>2, <3>5, <3>6 DEF ResolveProvider, Requeue
  <2> QED
    BY <1>6, <2>1 DEF ResolveProvider, Requeue, TypeOK, K!KubeTypeOK, kube, tables, faultCounts, env, resources
<1>7. CASE AddRef(l)
  <2>1. task' \in [Link -> Task]
    BY <1>7, <1>f, GotoType DEF AddRef, Task, AddPcs
  <2> QED
    BY <1>7, <2>1, <1>k DEF AddRef, AddPcs, RefEntry, TypeOK, K!KubeTypeOK, kube, tables, faultCounts, env, resources
<1>8. CASE AddAcquire(l)
  <2>1. task' \in [Link -> Task]
    BY <1>8, <1>f, GotoType DEF AddAcquire, Task, AddPcs
  <2> QED
    BY <1>8, <2>1 DEF AddAcquire, TypeOK, K!KubeTypeOK, kube, tables, faultCounts, env, resources
<1>9. CASE AddHost(l)
  <2>1. task' \in [Link -> Task]
    BY <1>9, <1>f, GotoType DEF AddHost, Added, Task, AddPcs
  <2> QED
    BY <1>9, <2>1, <1>f, <1>k DEF AddHost, Added, AddPcs, RefEntry, TypeOK, K!KubeTypeOK, kube, tables, faultCounts, env, resources
<1>10. CASE AddGroup(l)
  <2>1. task' \in [Link -> Task]
    BY <1>10, <1>f, GotoType DEF AddGroup, Task, AddPcs
  <2> QED
    BY <1>10, <2>1, <1>f, EntityType DEF AddGroup, Without, AddPcs, TypeOK, K!KubeTypeOK, kube, tables, faultCounts, env, resources
<1>11. CASE AddPublish(l)
  <2>1. task' \in [Link -> Task]
    BY <1>11, <1>f, GotoType DEF AddPublish, Added, Task, AddPcs
  <2> QED
    BY <1>11, <2>1, <1>f, <1>k DEF AddPublish, Added, AddPcs, RefEntry, TypeOK, K!KubeTypeOK, kube, tables, faultCounts, env, resources
<1>12. CASE AddPublishFail(l)
  <2>1. task' \in [Link -> Task]
    BY <1>12, DoneType DEF AddPublishFail
  <2> QED
    BY <1>12, <2>1, <1>k, LinksAssumption DEF AddPublishFail, AddPcs, TypeOK, K!KubeTypeOK, kube, tables, faultCounts, env, resources
<1>13. CASE PatchStatus(l)
  <2>1. task' \in [Link -> Task]
    BY <1>13, DoneType DEF PatchStatus
  <2>2. StatusOf(t.ld) \in LinkStatus
    BY <1>13, <1>f DEF PatchStatus, StatusOf, LinkStatus, ResolvedLink, AddPcs
  <2>3. api' \in [Link -> K!Object \cup {NoObject}]
    <3>1. CASE UNCHANGED api
      BY <3>1 DEF TypeOK, K!KubeTypeOK
    <3>2. CASE K!CanPatchStatus(l) /\ K!WriteStatus(l, StatusOf(t.ld))
      <4>1. [api[l] EXCEPT !.status = StatusOf(t.ld)] \in K!Object
        BY <2>2, <3>2 DEF K!CanPatchStatus, K!Object, TypeOK, K!KubeTypeOK
      <4> QED
        BY <3>2, <4>1 DEF K!WriteStatus, TypeOK, K!KubeTypeOK
    <3> QED
      BY <1>13, <3>1, <3>2 DEF PatchStatus
  <2> QED
    BY <1>13, <2>1, <2>3 DEF PatchStatus, TypeOK, K!KubeTypeOK, kube, tables, faultCounts, env, resources
<1>14. CASE PatchStatusFail(l)
  <2>1. task' \in [Link -> Task]
    BY <1>14, DoneType DEF PatchStatusFail
  <2> QED
    BY <1>14, <2>1, LinksAssumption DEF PatchStatusFail, TypeOK, K!KubeTypeOK, kube, tables, faultCounts, env, resources
<1>15. CASE DelRef(l)
  <2>1. task' \in [Link -> Task]
    BY <1>15, <1>f, GotoType DEF DelRef, Task, DelPcs
  <2> QED
    BY <1>15, <2>1, <1>c DEF DelRef, DelPcs, RefEntry, TypeOK, K!KubeTypeOK, kube, tables, faultCounts, env, resources
<1>16. CASE DelAcquire(l)
  <2>1. task' \in [Link -> Task]
    BY <1>16, <1>f, <1>c, GotoType DEF DelAcquire, Task, DelPcs, TypeOK, RefEntry
  <2> QED
    BY <1>16, <2>1, <1>c DEF DelAcquire, DelPcs, RefEntry, TypeOK, K!KubeTypeOK, kube, tables, faultCounts, env, resources
<1>17. CASE DelHost(l)
  <2>1. task' \in [Link -> Task]
    BY <1>17, <1>f, <1>k, GotoType DEF DelHost, DeleteFailed, Task, DelPcs, TypeOK
  <2> QED
    BY <1>17, <2>1, <1>k DEF DelHost, DeleteFailed, DelPcs, TypeOK, K!KubeTypeOK, kube, tables, faultCounts, env, resources
<1>18. CASE DelGroup(l)
  <2>1. task' \in [Link -> Task]
    BY <1>18, <1>f, GotoType DEF DelGroup, Task, DelPcs
  <2> QED
    BY <1>18, <2>1 DEF DelGroup, Without, TypeOK, K!KubeTypeOK, kube, tables, faultCounts, env, resources
<1>19. CASE DelPublish(l)
  <2>1. task' \in [Link -> Task]
    BY <1>19, <1>f, GotoType DEF DelPublish, Task, DelPcs
  <2> QED
    BY <1>19, <2>1, <1>c DEF DelPublish, DelPcs, TypeOK, K!KubeTypeOK, kube, tables, faultCounts, env, resources
<1>20. CASE DelPublishFail(l)
  <2>1. task' \in [Link -> Task]
    BY <1>20, <1>f, GotoType DEF DelPublishFail, DeleteFailed, Task, DelPcs
  <2> QED
    BY <1>20, <2>1, <1>c, LinksAssumption DEF DelPublishFail, DeleteFailed, DelPcs, TypeOK, K!KubeTypeOK, kube, tables, faultCounts, env, resources
<1>21. CASE Release(l)
  <2>1. task' \in [Link -> Task]
    BY <1>21, DoneType DEF Release, Requeue
  <2>2. api' \in [Link -> K!Object \cup {NoObject}]
    <3>1. CASE UNCHANGED api
      BY <3>1 DEF TypeOK, K!KubeTypeOK
    <3>2. CASE K!CanRemoveFinalizer(l) /\ K!RemoveFinalizer(l)
      BY <3>2, PatchType DEF K!CanRemoveFinalizer, K!RemoveFinalizer, TypeOK, K!KubeTypeOK
    <3> QED
      BY <1>21, <3>1, <3>2 DEF Release
  <2> QED
    BY <1>21, <2>1, <2>2 DEF Release, Requeue, TypeOK, K!KubeTypeOK, kube, tables, faultCounts, env, resources
<1>22. CASE ReleaseFail(l)
  <2>1. task' \in [Link -> Task]
    BY <1>22, DoneType DEF ReleaseFail, Requeue
  <2> QED
    BY <1>22, <2>1, LinksAssumption DEF ReleaseFail, Requeue, TypeOK, K!KubeTypeOK, kube, tables, faultCounts, env, resources
<1>23. CASE ResolveFail(l)
  <2>1. task' \in [Link -> Task]
    BY <1>23, DoneType DEF ResolveFail, Requeue
  <2> QED
    BY <1>23, <2>1, LinksAssumption DEF ResolveFail, Requeue, TypeOK, K!KubeTypeOK, kube, tables, faultCounts, env, resources
<1> QED
  BY <1>1, <1>2, <1>3, <1>4, <1>5, <1>6, <1>7, <1>8, <1>9, <1>10, <1>11, <1>12, <1>13, <1>14, <1>15, <1>16, <1>17, <1>18, <1>19, <1>20, <1>21, <1>22, <1>23
     DEF Start, Acquire, Step


\* What another host makes of its copy of an object is a definition for the tables.
LEMMA PeerLinksType ==
    ASSUME NEW o \in K!Object \cup {NoObject}, o # NoObject
    PROVE  PeerLinks(o) \subseteq ResolvedLink
<1>1. UsableStatus(o) => FromStatus(o) \in ResolvedLink
  BY FromStatusType DEF UsableStatus, K!Object
<1> QED
  BY <1>1 DEF PeerLinks

\* What another host patches is an object.
LEMMA PeerPatchType ==
    ASSUME TypeOK, NEW h \in Peers, NEW l \in Link, PeerPatch(h, l)
    PROVE  api' \in [Link -> K!Object \cup {NoObject}]
<1>1. /\ api \in [Link -> K!Object \cup {NoObject}]
      /\ seen[h][l] \in K!Object \cup {NoObject}
  BY DEF TypeOK, K!KubeTypeOK
<1>2. CASE K!CanAddFinalizer(l) /\ K!AddFinalizer(l)
  BY <1>1, <1>2, PatchType DEF K!CanAddFinalizer, K!AddFinalizer
<1>3. CASE /\ K!IsApply(seen[h][l]) /\ K!CanPatchStatus(l)
           /\ \E ld \in PeerLinks(seen[h][l]) : K!WriteStatus(l, StatusOf(ld))
  <2>1. PICK ld \in ResolvedLink : K!WriteStatus(l, StatusOf(ld))
    BY <1>1, <1>3, PeerLinksType DEF K!IsApply
  <2>2. StatusOf(ld) \in LinkStatus
    BY DEF StatusOf, LinkStatus, ResolvedLink
  <2>3. [api[l] EXCEPT !.status = StatusOf(ld)] \in K!Object
    BY <1>1, <1>3, <2>2 DEF K!CanPatchStatus, K!Object
  <2> QED
    BY <1>1, <2>1, <2>3 DEF K!WriteStatus
<1>4. CASE K!CanRemoveFinalizer(l) /\ K!RemoveFinalizer(l)
  BY <1>1, <1>4, PatchType DEF K!CanRemoveFinalizer, K!RemoveFinalizer
<1> QED
  BY <1>2, <1>3, <1>4 DEF PeerPatch

\* The world keeps the types.
LEMMA WorldType ==
    ASSUME TypeOK, World
    PROVE  TypeOK'
<1>1. ASSUME NEW l \in Link, NEW s \in Specs, Create(l, s) PROVE TypeOK'
  BY <1>1, LinksAssumption
     DEF Create, K!Create, K!Object, local, TypeOK, K!KubeTypeOK, tables, faultCounts, env, resources
<1>2. ASSUME NEW l \in Link, Delete(l) PROVE TypeOK'
  BY <1>2, PatchType
     DEF Delete, K!Delete, local, TypeOK, K!KubeTypeOK, tables, faultCounts, env, resources
<1>3. ASSUME NEW l \in Link, Watch(l) PROVE TypeOK'
  BY <1>3 DEF Watch, K!Watch, local, TypeOK, K!KubeTypeOK, tables, faultCounts, env, resources
<1>4. ASSUME NEW l \in Link, Resync(l) PROVE TypeOK'
  BY <1>4 DEF Resync, K!Resync, local, TypeOK, K!KubeTypeOK, tables, faultCounts, env, resources
<1>5. ASSUME NEW h \in Peers, NEW l \in Link, PeerWatch(h, l) PROVE TypeOK'
  <2>1. seen' \in [Peers -> [Link -> K!Object \cup {NoObject}]]
    BY <1>5 DEF PeerWatch, TypeOK, K!KubeTypeOK
  <2> QED
    BY <1>5, <2>1 DEF PeerWatch, local, TypeOK, K!KubeTypeOK, kube, tables, faultCounts, resources
<1>11. ASSUME NEW h \in Peers, NEW l \in Link, PeerPatch(h, l) PROVE TypeOK'
  BY <1>11, PeerPatchType DEF PeerPatch, local, TypeOK, K!KubeTypeOK, tables, faultCounts, env, resources
<1>12. ASSUME NEW h \in Peers, NEW l \in Link, PeerPublish(h, l) PROVE TypeOK'
  <2>1. \A ld \in PeerLinks(seen[h][l]) : K!IsApply(seen[h][l]) => ld \in ResolvedLink
    BY PeerLinksType DEF K!IsApply, TypeOK
  <2>2. told' \in SUBSET ResolvedLink
    BY <1>12, <2>1 DEF PeerPublish, TypeOK
  <2> QED
    BY <1>12, <2>2 DEF PeerPublish, TypeOK, K!KubeTypeOK, kube, faultCounts, env, resources
<1>6. ASSUME NEW k \in ActorKey, NewGroup(k) PROVE TypeOK'
  <2>1. get_actor_links(k) \in SUBSET WasmCloudEntity
    BY EntityType DEF get_actor_links, TypeOK
  <2> QED
    BY <1>6, <2>1 DEF NewGroup, TypeOK, K!KubeTypeOK, kube, faultCounts, env, resources
<1>7. ASSUME NEW k \in ActorKey, DropGroup(k) PROVE TypeOK'
  BY <1>7 DEF DropGroup, TypeOK, K!KubeTypeOK, kube, faultCounts, env, resources
<1>8. ASSUME NEW a \in ActorName, NEW k \in ActorKey \cup {Empty}, SetActor(a, k) PROVE TypeOK'
  BY <1>8, LinksAssumption
     DEF SetActor, local, TypeOK, K!KubeTypeOK, kube, tables, faultCounts
<1>9. ASSUME NEW n \in ProviderName, NEW p \in Provider \cup {NoProvider}, SetProvider(n, p)
      PROVE TypeOK'
  BY <1>9, LinksAssumption
     DEF SetProvider, local, TypeOK, K!KubeTypeOK, kube, tables, faultCounts
<1>10. CASE Crash
  BY <1>10, LinksAssumption
     DEF Crash, NoTasks, NoCtxLinks, NoHostLinks, NoGroupLinks, Task, TypeOK, K!KubeTypeOK, env, resources
<1> QED
  BY <1>1, <1>2, <1>3, <1>4, <1>5, <1>6, <1>7, <1>8, <1>9, <1>10, <1>11, <1>12 DEF World

\* Every step keeps the types.
LEMMA TypeStep ==
    ASSUME TypeOK, [Next]_vars
    PROVE  TypeOK'
<1>1. CASE Next
  BY <1>1, TaskStepType, WorldType DEF Next
<1>2. CASE UNCHANGED vars
  BY <1>2 DEF vars, TypeOK, K!KubeTypeOK, kube, tables, faultCounts, env, resources
<1> QED
  BY <1>1, <1>2

(***************************************************************************)
(* Every value the tables, the objects and the tasks hold is of its type:  *)
(* in particular every link definition that reaches host.links or          *)
(* ctx.links has its actor and provider resolved, and delete_link looks at *)
(* ctx.links only for an object that has a status.                         *)
(***************************************************************************)
THEOREM LinksTypeCorrect == Spec => []TypeOK
BY TypeStep, InitType, PTL DEF Spec

----------------------------------------------------------------------------
(***************************************************************************)
(* The tables agree.  The inductive invariant adds to LinkTablesAgree what *)
(* its proof needs: a definition sits in host.links under its own hash     *)
(* (so it is found again, and overwritten only by one of the same link),   *)
(* only the task that holds ctx.links is between the steps of add_linkdef  *)
(* or delete_linkdef, and such a task has made its change to host.links    *)
(* when it comes to the group's table.                                     *)
(***************************************************************************)
HostKeyed == \A h \in Hash : hostLinks[h] # NoLd => HashOf(hostLinks[h]) = h

HeldPcs == {"addHost", "addGroup", "addPublish", "delHost", "delGroup", "delPublish"}

LockHeld == \A l \in Link : task[l].pc \in HeldPcs => lock = l

BetweenTables ==
    \A l \in Link :
        /\ At(l, "addGroup") => hostLinks[HashOf(task[l].ld)] = task[l].ld
        /\ At(l, "delGroup") => hostLinks[HashOf(task[l].ld)] = NoLd

TablesInv == TypeOK /\ HostKeyed /\ LockHeld /\ BetweenTables /\ LinkTablesAgree

\* get_actor_links, member by member.
LEMMA ActorLinksMember ==
    ASSUME NEW k, NEW e
    PROVE  e \in get_actor_links(k) <=>
             \E h \in Hash : /\ hostLinks[h] # NoLd
                             /\ hostLinks[h].actor_id = k
                             /\ e = EntityOf(hostLinks[h])
BY DEF get_actor_links

\* Entities of one group that name the same contract and link come from the
\* same entry of host.links.
LEMMA SameEntry ==
    ASSUME TypeOK, HostKeyed, NEW ld \in ResolvedLink, NEW h \in Hash,
           hostLinks[h] # NoLd, hostLinks[h].actor_id = ld.actor_id,
           EntryOf(ld, EntityOf(hostLinks[h]))
    PROVE  h = HashOf(ld)
<1>1. HashOf(hostLinks[h]) = h
  BY DEF HostKeyed
<1> QED
  BY <1>1 DEF EntryOf, EntityOf, HashOf

\* Steps that leave the tables alone and do not begin or end a stay between them.
LEMMA FrameStep ==
    ASSUME TypeOK, TypeOK', HostKeyed, BetweenTables, LinkTablesAgree, NEW l \in Link,
           hostLinks' = hostLinks, groups' = groups, groupLinks' = groupLinks,
           \A m \in Link \ {l} : task'[m] = task[m],
           task[l].pc \notin {"addGroup", "delGroup"},
           task'[l].pc \notin {"addGroup", "delGroup"}
    PROVE  HostKeyed' /\ BetweenTables' /\ LinkTablesAgree'
<1>1. HostKeyed'
  BY DEF HostKeyed
<1>2. BetweenTables'
  BY DEF BetweenTables, At
<1>3. \A k \in ActorKey : InFlight(k)' = InFlight(k)
  BY DEF InFlight
<1>4. \A k \in ActorKey : get_actor_links(k)' = get_actor_links(k)
  BY DEF get_actor_links
<1>5. LinkTablesAgree'
  BY <1>3, <1>4 DEF LinkTablesAgree, TypeOK
<1> QED
  BY <1>1, <1>2, <1>5


\* add_linkdef between its two tables.
LEMMA AddHostAgrees ==
    ASSUME TablesInv, TypeOK', NEW l \in Link, AddHost(l)
    PROVE  TablesInv'
<1> DEFINE ld == task[l].ld
<1>t. task[l].pc = "addHost" /\ task[l] \in Task /\ ld \in ResolvedLink
  BY TaskFacts DEF AddHost, At, TablesInv, TypeOK, AddPcs
<1>h. HashOf(ld) \in Hash
  BY <1>t, KeyType
<1>l. lock = l /\ \A m \in Link \ {l} : task[m].pc \notin HeldPcs
  BY <1>t DEF TablesInv, LockHeld, HeldPcs
<1>0. CASE hostLinks[HashOf(ld)] # NoLd
  <2>1. /\ UNCHANGED <<hostLinks, groups, groupLinks>>
        /\ task' = [task EXCEPT ![l] = [pc |-> "patch", obj |-> @.obj, ld |-> ld]]
    BY <1>0 DEF AddHost, Added, Goto
  <2>2. HostKeyed' /\ BetweenTables' /\ LinkTablesAgree'
    BY <1>t, <2>1, FrameStep DEF TablesInv, TypeOK
  <2>3. LockHeld'
    BY <1>l, <2>1 DEF LockHeld, HeldPcs, TablesInv, TypeOK
  <2> QED
    BY <2>2, <2>3 DEF TablesInv
<1>1. CASE hostLinks[HashOf(ld)] = NoLd
  <2>1. /\ hostLinks' = [hostLinks EXCEPT ![HashOf(ld)] = ld]
        /\ task' = [task EXCEPT ![l] = [pc |-> "addGroup", obj |-> @.obj, ld |-> ld]]
        /\ UNCHANGED <<lock, groups, groupLinks>>
    BY <1>1 DEF AddHost, Goto
  <2>2. HostKeyed'
    BY <1>t, <1>h, <2>1 DEF HostKeyed, TablesInv, TypeOK
  <2>3. LockHeld'
    BY <1>l, <2>1 DEF LockHeld, TablesInv, TypeOK
  <2>4. BetweenTables'
    BY <1>h, <1>l, <2>1 DEF BetweenTables, At, HeldPcs, TablesInv, TypeOK
  <2>5. LinkTablesAgree'
    <3> SUFFICES ASSUME NEW k \in groups, NEW e \in WasmCloudEntity, e \notin InFlight(k)'
                 PROVE  e \in groupLinks[k] <=> e \in get_actor_links(k)'
      BY <2>1 DEF LinkTablesAgree
    <3>1. InFlight(k) = {}
      BY <1>t, <1>l DEF InFlight, HeldPcs
    <3>2. e \in groupLinks[k] <=> e \in get_actor_links(k)
      BY <3>1 DEF TablesInv, LinkTablesAgree
    <3>3. ld.actor_id = k => e # EntityOf(ld)
      BY <2>1 DEF InFlight, TablesInv, TypeOK
    <3>4. e \in get_actor_links(k)' <=>
             \E h \in Hash : /\ hostLinks'[h] # NoLd
                             /\ hostLinks'[h].actor_id = k
                             /\ e = EntityOf(hostLinks'[h])
      BY DEF get_actor_links
    <3>5. e \in get_actor_links(k)' <=> e \in get_actor_links(k)
      BY <1>1, <1>h, <2>1, <3>3, <3>4, ActorLinksMember DEF TablesInv, TypeOK
    <3> QED
      BY <3>2, <3>5
  <2> QED
    BY <2>2, <2>3, <2>4, <2>5 DEF TablesInv
<1> QED
  BY <1>0, <1>1

\* add_linkdef when it reaches the group.
LEMMA AddGroupAgrees ==
    ASSUME TablesInv, TypeOK', NEW l \in Link, AddGroup(l)
    PROVE  TablesInv'
<1> DEFINE ld == task[l].ld
<1>t. task[l].pc = "addGroup" /\ task[l] \in Task /\ ld \in ResolvedLink
  BY TaskFacts DEF AddGroup, At, TablesInv, TypeOK, AddPcs
<1>h. HashOf(ld) \in Hash /\ hostLinks[HashOf(ld)] = ld /\ ld # NoLd
  BY <1>t, KeyType, LinksAssumption DEF TablesInv, BetweenTables, At
<1>l. lock = l /\ \A m \in Link \ {l} : task[m].pc \notin HeldPcs
  BY <1>t DEF TablesInv, LockHeld, HeldPcs
<1>1. /\ task' = [task EXCEPT ![l] = [pc |-> "addPublish", obj |-> @.obj, ld |-> ld]]
      /\ UNCHANGED <<lock, groups, hostLinks>>
  BY DEF AddGroup, Goto
<1>2. HostKeyed' /\ LockHeld' /\ BetweenTables'
  BY <1>l, <1>1 DEF HostKeyed, LockHeld, BetweenTables, At, HeldPcs, TablesInv, TypeOK
<1>3. LinkTablesAgree'
  <2> SUFFICES ASSUME NEW k \in groups, NEW e \in WasmCloudEntity
               PROVE  e \in groupLinks'[k] <=> e \in get_actor_links(k)'
    BY <1>1 DEF LinkTablesAgree
  <2>0. get_actor_links(k)' = get_actor_links(k)
    BY <1>1 DEF get_actor_links
  <2>1. CASE ld.actor_id # k
    <3>1. groupLinks'[k] = groupLinks[k]
      BY <2>1 DEF AddGroup, TablesInv, TypeOK
    <3>2. InFlight(k) = {}
      BY <1>l, <2>1 DEF InFlight, HeldPcs
    <3> QED
      BY <2>0, <3>1, <3>2 DEF TablesInv, LinkTablesAgree
  <2>2. CASE ld.actor_id = k
    <3>1. groupLinks'[k] = Without(k, ld) \cup {EntityOf(ld)}
      BY <2>2 DEF AddGroup, TablesInv, TypeOK
    <3>2. InFlight(k) \subseteq {EntityOf(ld)}
      BY <1>l DEF InFlight, HeldPcs
    <3>3. CASE e = EntityOf(ld)
      BY <1>h, <2>0, <2>2, <3>1, <3>3, ActorLinksMember
    <3>4. CASE e # EntityOf(ld) /\ EntryOf(ld, e)
      <4>1. e \notin groupLinks'[k]
        BY <3>1, <3>4 DEF Without
      <4>2. ASSUME e \in get_actor_links(k) PROVE FALSE
        <5>1. PICK h \in Hash : /\ hostLinks[h] # NoLd
                                /\ hostLinks[h].actor_id = k
                                /\ e = EntityOf(hostLinks[h])
          BY <4>2, ActorLinksMember
        <5>2. h = HashOf(ld)
          BY <1>t, <2>2, <3>4, <5>1, SameEntry DEF TablesInv
        <5> QED
          BY <1>h, <3>4, <5>1, <5>2
      <4> QED
        BY <2>0, <4>1, <4>2
    <3>5. CASE e # EntityOf(ld) /\ ~EntryOf(ld, e)
      <4>1. e \in groupLinks'[k] <=> e \in groupLinks[k]
        BY <3>1, <3>5 DEF Without
      <4>2. e \in groupLinks[k] <=> e \in get_actor_links(k)
        BY <3>2, <3>5 DEF TablesInv, LinkTablesAgree
      <4> QED
        BY <2>0, <4>1, <4>2
    <3> QED
      BY <3>3, <3>4, <3>5
  <2> QED
    BY <2>1, <2>2
<1> QED
  BY <1>2, <1>3 DEF TablesInv

\* delete_linkdef between its two tables.
LEMMA DelHostAgrees ==
    ASSUME TablesInv, TypeOK', NEW l \in Link, DelHost(l)
    PROVE  TablesInv'
<1> DEFINE h0 == HashOf(task[l].ld)
           ld == hostLinks[h0]
<1>t. task[l].pc = "delHost" /\ task[l] \in Task /\ task[l].ld \in ResolvedLink
  BY TaskFacts DEF DelHost, At, TablesInv, TypeOK, DelPcs
<1>h. h0 \in Hash
  BY <1>t, KeyType
<1>l. lock = l /\ \A m \in Link \ {l} : task[m].pc \notin HeldPcs
  BY <1>t DEF TablesInv, LockHeld, HeldPcs
<1>0. CASE ld = NoLd
  <2>1. /\ UNCHANGED <<hostLinks, groups, groupLinks>>
        /\ task' = [task EXCEPT ![l] = [pc |-> "release", obj |-> @.obj, ld |-> NoLd]]
    BY <1>0 DEF DelHost, DeleteFailed, Goto
  <2>2. HostKeyed' /\ BetweenTables' /\ LinkTablesAgree'
    BY <1>t, <2>1, FrameStep DEF TablesInv, TypeOK
  <2>3. LockHeld'
    BY <1>l, <2>1 DEF LockHeld, HeldPcs, TablesInv, TypeOK
  <2> QED
    BY <2>2, <2>3 DEF TablesInv
<1>1. CASE ld # NoLd
  <2>1. /\ hostLinks' = [hostLinks EXCEPT ![h0] = NoLd]
        /\ task' = [task EXCEPT ![l] = [pc |-> "delGroup", obj |-> @.obj, ld |-> ld]]
        /\ UNCHANGED <<lock, groups, groupLinks>>
    BY <1>1 DEF DelHost, Goto
  <2>2. HashOf(ld) = h0
    BY <1>1, <1>h DEF TablesInv, HostKeyed
  <2>3. HostKeyed'
    BY <1>h, <2>1 DEF HostKeyed, TablesInv, TypeOK
  <2>4. LockHeld'
    BY <1>l, <2>1 DEF LockHeld, TablesInv, TypeOK
  <2>5. BetweenTables'
    BY <1>h, <1>l, <2>1, <2>2 DEF BetweenTables, At, HeldPcs, TablesInv, TypeOK
  <2>6. LinkTablesAgree'
    <3> SUFFICES ASSUME NEW k \in groups, NEW e \in WasmCloudEntity, e \notin InFlight(k)'
                 PROVE  e \in groupLinks[k] <=> e \in get_actor_links(k)'
      BY <2>1 DEF LinkTablesAgree
    <3>1. InFlight(k) = {}
      BY <1>t, <1>l DEF InFlight, HeldPcs
    <3>2. e \in groupLinks[k] <=> e \in get_actor_links(k)
      BY <3>1 DEF TablesInv, LinkTablesAgree
    <3>3. ld.actor_id = k => e # EntityOf(ld)
      BY <2>1 DEF InFlight, TablesInv, TypeOK
    <3>4. e \in get_actor_links(k)' <=>
             \E h \in Hash : /\ hostLinks'[h] # NoLd
                             /\ hostLinks'[h].actor_id = k
                             /\ e = EntityOf(hostLinks'[h])
      BY DEF get_actor_links
    <3>5. e \in get_actor_links(k)' <=> e \in get_actor_links(k)
      BY <1>h, <2>1, <3>3, <3>4, ActorLinksMember DEF TablesInv, TypeOK
    <3> QED
      BY <3>2, <3>5
  <2> QED
    BY <2>3, <2>4, <2>5, <2>6 DEF TablesInv
<1> QED
  BY <1>0, <1>1

\* delete_linkdef when it reaches the group.
LEMMA DelGroupAgrees ==
    ASSUME TablesInv, TypeOK', NEW l \in Link, DelGroup(l)
    PROVE  TablesInv'
<1> DEFINE ld == task[l].ld
<1>t. task[l].pc = "delGroup" /\ task[l] \in Task /\ ld \in ResolvedLink
  BY TaskFacts DEF DelGroup, At, TablesInv, TypeOK, DelPcs
<1>h. HashOf(ld) \in Hash /\ hostLinks[HashOf(ld)] = NoLd
  BY <1>t, KeyType DEF TablesInv, BetweenTables, At
<1>l. lock = l /\ \A m \in Link \ {l} : task[m].pc \notin HeldPcs
  BY <1>t DEF TablesInv, LockHeld, HeldPcs
<1>1. /\ task' = [task EXCEPT ![l] = [pc |-> "delPublish", obj |-> @.obj, ld |-> ld]]
      /\ UNCHANGED <<lock, groups, hostLinks>>
  BY DEF DelGroup, Goto
<1>2. HostKeyed' /\ LockHeld' /\ BetweenTables'
  BY <1>l, <1>1 DEF HostKeyed, LockHeld, BetweenTables, At, HeldPcs, TablesInv, TypeOK
<1>3. LinkTablesAgree'
  <2> SUFFICES ASSUME NEW k \in groups, NEW e \in WasmCloudEntity
               PROVE  e \in groupLinks'[k] <=> e \in get_actor_links(k)'
    BY <1>1 DEF LinkTablesAgree
  <2>0. get_actor_links(k)' = get_actor_links(k)
    BY <1>1 DEF get_actor_links
  <2>1. CASE ld.actor_id # k
    <3>1. groupLinks'[k] = groupLinks[k]
      BY <2>1 DEF DelGroup, TablesInv, TypeOK
    <3>2. InFlight(k) = {}
      BY <1>l, <2>1 DEF InFlight, HeldPcs
    <3> QED
      BY <2>0, <3>1, <3>2 DEF TablesInv, LinkTablesAgree
  <2>2. CASE ld.actor_id = k
    <3>1. groupLinks'[k] = Without(k, ld)
      BY <2>2 DEF DelGroup, TablesInv, TypeOK
    <3>2. InFlight(k) \subseteq {EntityOf(ld)}
      BY <1>l DEF InFlight, HeldPcs
    <3>3. CASE EntryOf(ld, e)
      <4>1. e \notin groupLinks'[k]
        BY <3>1, <3>3 DEF Without
      <4>2. ASSUME e \in get_actor_links(k) PROVE FALSE
        <5>1. PICK h \in Hash : /\ hostLinks[h] # NoLd
                                /\ hostLinks[h].actor_id = k
                                /\ e = EntityOf(hostLinks[h])
          BY <4>2, ActorLinksMember
        <5>2. h = HashOf(ld)
          BY <1>t, <2>2, <3>3, <5>1, SameEntry DEF TablesInv
        <5> QED
          BY <1>h, <5>1, <5>2
      <4> QED
        BY <2>0, <4>1, <4>2
    <3>4. CASE ~EntryOf(ld, e)
      <4>1. e \in groupLinks'[k] <=> e \in groupLinks[k]
        BY <3>1, <3>4 DEF Without
      <4>2. e # EntityOf(ld)
        BY <3>4 DEF EntryOf, EntityOf
      <4>3. e \in groupLinks[k] <=> e \in get_actor_links(k)
        BY <3>2, <4>2 DEF TablesInv, LinkTablesAgree
      <4> QED
        BY <2>0, <4>1, <4>3
    <3> QED
      BY <3>3, <3>4
  <2> QED
    BY <2>1, <2>2
<1> QED
  BY <1>2, <1>3 DEF TablesInv


\* A step that does as FrameStep says and minds the lock keeps the invariant.
LEMMA FrameAgrees ==
    ASSUME TablesInv, TypeOK', NEW l \in Link,
           hostLinks' = hostLinks, groups' = groups, groupLinks' = groupLinks,
           \A m \in Link \ {l} : task'[m] = task[m],
           task[l].pc \notin {"addGroup", "delGroup"},
           task'[l].pc \notin {"addGroup", "delGroup"},
           task'[l].pc \in HeldPcs => lock' = l,
           \A m \in Link \ {l} : task[m].pc \in HeldPcs => lock' = m
    PROVE  TablesInv'
<1>1. HostKeyed' /\ BetweenTables' /\ LinkTablesAgree'
  BY FrameStep DEF TablesInv
<1>2. LockHeld'
  BY DEF LockHeld
<1> QED
  BY <1>1, <1>2 DEF TablesInv

\* The steps of a task that touch neither host.links nor a group's table.
LEMMA OtherStepAgrees ==
    ASSUME TablesInv, TypeOK', NEW l \in Link,
           \/ Start(l) \/ Acquire(l)
           \/ AddFinalizer(l) \/ ResolveActor(l) \/ ResolveProvider(l) \/ ResolveFail(l)
           \/ AddPublish(l) \/ AddPublishFail(l) \/ PatchStatus(l) \/ PatchStatusFail(l)
           \/ DelPublish(l) \/ DelPublishFail(l) \/ Release(l) \/ ReleaseFail(l)
    PROVE  TablesInv'
<1> USE DEF At, Goto, Done, Requeue, Idle
<1>t. task \in [Link -> Task] /\ Free \notin Link
  BY LinksAssumption DEF TablesInv, TypeOK
<1>h. task[l].pc \in HeldPcs => \A m \in Link \ {l} : task[m].pc \notin HeldPcs
  BY DEF TablesInv, LockHeld
<1>f. lock = Free => \A m \in Link : task[m].pc \notin HeldPcs
  BY <1>t DEF TablesInv, LockHeld
<1>m. \A m \in Link : task[m].pc \in HeldPcs => lock = m
  BY DEF TablesInv, LockHeld
<1>1. CASE StartFinalize(l) \/ StartApply(l) \/ StartCleanup(l)
  BY <1>1, <1>t, <1>m, FrameAgrees DEF StartFinalize, StartApply, StartCleanup, Begin, tables, HeldPcs
<1>2. CASE AddFinalizer(l) \/ Release(l)
  BY <1>2, <1>t, <1>m, FrameAgrees DEF AddFinalizer, Release, tables, HeldPcs
<1>3. CASE ResolveActor(l) \/ ResolveProvider(l)
  <2>1. /\ UNCHANGED <<lock, hostLinks, groups, groupLinks>>
        /\ task[l].pc \in {"resolveActor", "resolveProvider"}
    BY <1>3 DEF ResolveActor, ResolveProvider, tables
  <2>2. /\ \A m \in Link \ {l} : task'[m] = task[m]
        /\ task'[l].pc \in {"idle", "resolveProvider", "addLock"}
    <3>1. CASE ResolveActor(l)
      <4>1. Done(l) \/ \E ld : Goto(l, "resolveProvider", ld)
        BY <3>1 DEF ResolveActor
      <4> QED
        BY <4>1, <1>t
    <3>2. CASE ResolveProvider(l)
      <4>1. Done(l) \/ \E ld : Goto(l, "addLock", ld)
        BY <3>2 DEF ResolveProvider
      <4> QED
        BY <4>1, <1>t
    <3> QED
      BY <1>3, <3>1, <3>2
  <2> QED
    BY <2>1, <2>2, <1>m, FrameAgrees DEF HeldPcs
<1>4. CASE AddRef(l) \/ DelRef(l)
  BY <1>4, <1>t, <1>f, FrameAgrees DEF AddRef, DelRef, HeldPcs
<1>5. CASE AddAcquire(l) \/ DelAcquire(l)
  BY <1>5, <1>t, <1>f, FrameAgrees DEF AddAcquire, DelAcquire, tables, HeldPcs
<1>6. CASE AddPublish(l) \/ AddPublishFail(l)
  BY <1>6, <1>t, <1>h, FrameAgrees DEF AddPublish, AddPublishFail, Added, HeldPcs
<1>7. CASE PatchStatus(l) \/ PatchStatusFail(l) \/ ReleaseFail(l) \/ ResolveFail(l)
  BY <1>7, <1>t, <1>m, FrameAgrees DEF PatchStatus, PatchStatusFail, ReleaseFail, ResolveFail, tables, HeldPcs
<1>8. CASE DelPublish(l) \/ DelPublishFail(l)
  BY <1>8, <1>t, <1>h, FrameAgrees DEF DelPublish, DelPublishFail, DeleteFailed, HeldPcs
<1> QED
  BY <1>1, <1>2, <1>3, <1>4, <1>5, <1>6, <1>7, <1>8 DEF Start, Acquire

\* The actor controller, the users, the watch, other hosts and a crash.
LEMMA WorldAgrees ==
    ASSUME TablesInv, TypeOK', World
    PROVE  TablesInv'
<1>1. CASE UNCHANGED <<task, lock, hostLinks, groups, groupLinks>>
  <2>1. \A k \in ActorKey : InFlight(k)' = InFlight(k) /\ get_actor_links(k)' = get_actor_links(k)
    BY <1>1 DEF InFlight, get_actor_links
  <2>2. HostKeyed' /\ LockHeld' /\ BetweenTables'
    BY <1>1 DEF TablesInv, HostKeyed, LockHeld, BetweenTables, At
  <2>3. LinkTablesAgree'
    BY <1>1, <2>1 DEF TablesInv, LinkTablesAgree, TypeOK
  <2> QED
    BY <2>2, <2>3 DEF TablesInv
<1>2. ASSUME NEW k \in ActorKey, NewGroup(k) \/ DropGroup(k) PROVE TablesInv'
  <2>1. UNCHANGED <<task, lock, hostLinks>>
    BY <1>2 DEF NewGroup, DropGroup
  <2>2. \A j \in ActorKey : InFlight(j)' = InFlight(j) /\ get_actor_links(j)' = get_actor_links(j)
    BY <2>1 DEF InFlight, get_actor_links
  <2>3. HostKeyed' /\ LockHeld' /\ BetweenTables'
    BY <2>1 DEF TablesInv, HostKeyed, LockHeld, BetweenTables, At
  <2>4. LinkTablesAgree'
    BY <1>2, <2>2 DEF NewGroup, DropGroup, TablesInv, LinkTablesAgree, TypeOK
  <2> QED
    BY <2>3, <2>4 DEF TablesInv
<1>3. CASE Crash
  BY <1>3 DEF Crash, NoTasks, NoHostLinks, Idle, TablesInv, HostKeyed, LockHeld, HeldPcs,
              BetweenTables, At, LinkTablesAgree
<1> QED
  BY <1>1, <1>2, <1>3
     DEF World, Create, Delete, Watch, Resync, PeerWatch, PeerPatch, PeerPublish, SetActor, SetProvider, local, tables

\* A host starts with tables that agree.
LEMMA InitAgrees == Init => TablesInv
<1> SUFFICES ASSUME Init PROVE TablesInv
  OBVIOUS
<1>1. TypeOK
  BY InitType
<1> QED
  BY <1>1 DEF Init, NoTasks, NoHostLinks, Idle, TablesInv, HostKeyed, LockHeld, HeldPcs,
              BetweenTables, At, LinkTablesAgree

\* Every step keeps the tables in step.
LEMMA StepAgrees == TablesInv /\ [Next]_vars => TablesInv'
<1> SUFFICES ASSUME TablesInv, [Next]_vars PROVE TablesInv'
  OBVIOUS
<1>1. ASSUME NEW l \in Link, Start(l) \/ Acquire(l) \/ Step(l) PROVE TablesInv'
  <2>1. TypeOK'
    BY <1>1, TaskStepType DEF TablesInv
  <2> QED
    BY <1>1, <2>1, AddHostAgrees, AddGroupAgrees, DelHostAgrees, DelGroupAgrees, OtherStepAgrees
       DEF Step
<1>2. CASE World
  BY <1>2, WorldType, WorldAgrees DEF TablesInv
<1>3. CASE UNCHANGED vars
  <2>1. TypeOK'
    BY <1>3 DEF vars, TablesInv, TypeOK, K!KubeTypeOK, kube, tables, faultCounts, env, resources
  <2>2. \A k \in ActorKey : InFlight(k)' = InFlight(k) /\ get_actor_links(k)' = get_actor_links(k)
    BY <1>3 DEF vars, tables, InFlight, get_actor_links
  <2>3. HostKeyed' /\ LockHeld' /\ BetweenTables'
    BY <1>3 DEF vars, tables, TablesInv, HostKeyed, LockHeld, BetweenTables, At
  <2>4. LinkTablesAgree'
    BY <1>3, <2>2 DEF vars, tables, TablesInv, LinkTablesAgree, TypeOK
  <2> QED
    BY <2>1, <2>3, <2>4 DEF TablesInv
<1> QED
  BY <1>1, <1>2, <1>3 DEF Next

(***************************************************************************)
(* The links an actor's handler looks up are those in host.links for its   *)
(* key, however add_linkdef, delete_linkdef and the creation of the group  *)
(* interleave, except for the one link whose add_linkdef or delete_linkdef *)
(* has changed host.links and not yet come to the group.  It holds also if *)
(* two links have the same linkdef_hash.                                   *)
(***************************************************************************)
THEOREM LinkTablesStayInStep == Spec => []LinkTablesAgree
<1>1. TablesInv => LinkTablesAgree
  BY DEF TablesInv
<1> QED
  BY <1>1, InitAgrees, StepAgrees, PTL DEF Spec

----------------------------------------------------------------------------
(***************************************************************************)
(* Deletions are not forgotten.                                            *)
(***************************************************************************)

\* There is no other host in the namespace, to patch its objects or to publish on
\* the lattice.
Alone == Peers = {}

\* No patch can make the object at the API server one with a finalizer again.
NoFinalizer(l) == api[l] = NoObject \/ ~api[l].finalizer

Cleaning(l) == task[l].pc \in DelPcs \cup {"release"}

\* A deletion goes by a copy of the object that is marked; and after the watch
\* brought such a copy, a reconciliation is due until one is under way, which
\* ends with the finalizer gone or with another one due.
DueLink(l) ==
    /\ Cleaning(l) => K!IsCleanup(task[l].obj)
    /\ K!IsCleanup(store[l]) =>
         l \in queue \/ Cleaning(l) \/ (At(l, "idle") /\ NoFinalizer(l))

DueInv == TypeOK /\ \A l \in Link : DueLink(l)

\* What a Link's deletion depends on is its own task, copy, object and request.
LEMMA DueFrame ==
    ASSUME DueInv, NEW l \in Link,
           task'[l] = task[l], store'[l] = store[l], api'[l] = api[l],
           l \in queue => l \in queue'
    PROVE  DueLink(l)'
BY DEF DueInv, DueLink, Cleaning, At, NoFinalizer, K!IsCleanup

\* A step of one task leaves the others' tasks, objects and requests alone.
LEMMA OwnStep ==
    ASSUME TypeOK, NEW m \in Link, Start(m) \/ Acquire(m) \/ Step(m)
    PROVE  /\ store' = store
           /\ queue' \in {queue, queue \cup {m}, queue \ {m}}
           /\ \A l \in Link \ {m} : task'[l] = task[l] /\ api'[l] = api[l]
<1> task \in [Link -> Task] /\ DOMAIN api = Link
  BY DEF TypeOK, K!KubeTypeOK
<1> USE DEF Begin, Goto, Done, Requeue, kube, Added, DeleteFailed
<1>1. CASE Start(m)
  BY <1>1 DEF Start, StartFinalize, StartApply, StartCleanup
<1>2. CASE Acquire(m)
  BY <1>2 DEF Acquire, AddRef, AddAcquire, DelRef, DelAcquire
<1>3. CASE AddFinalizer(m) \/ PatchStatus(m) \/ PatchStatusFail(m)
  BY <1>3 DEF AddFinalizer, PatchStatus, PatchStatusFail, K!AddFinalizer, K!WriteStatus
<1>4. CASE ResolveActor(m) \/ ResolveProvider(m) \/ ResolveFail(m)
  BY <1>4 DEF ResolveActor, ResolveProvider, ResolveFail
<1>5. CASE AddHost(m) \/ AddGroup(m) \/ AddPublish(m) \/ AddPublishFail(m)
  BY <1>5 DEF AddHost, AddGroup, AddPublish, AddPublishFail
<1>6. CASE DelHost(m) \/ DelGroup(m) \/ DelPublish(m) \/ DelPublishFail(m)
  BY <1>6 DEF DelHost, DelGroup, DelPublish, DelPublishFail
<1>7. CASE Release(m) \/ ReleaseFail(m)
  BY <1>7 DEF Release, ReleaseFail, K!RemoveFinalizer
<1> QED
  BY <1>1, <1>2, <1>3, <1>4, <1>5, <1>6, <1>7 DEF Step

\* A reconciliation that begins is the one that was due.
LEMMA StartDue ==
    ASSUME DueInv, NEW l \in Link, Start(l)
    PROVE  DueLink(l)'
<1>t. task \in [Link -> Task] /\ store' = store
  BY OwnStep DEF DueInv, DueLink, TypeOK
<1>1. CASE StartCleanup(l)
  <2>1. K!IsCleanup(store[l]) /\ task'[l].obj = store[l]
        /\ task'[l].pc \in DelPcs \cup {"release"}
    BY <1>1, <1>t DEF StartCleanup, Begin, DelPcs
  <2> QED
    BY <2>1, <1>t DEF DueLink, Cleaning
<1>2. CASE StartFinalize(l) \/ StartApply(l)
  <2>1. ~K!IsCleanup(store[l])
    BY <1>2 DEF StartFinalize, StartApply, K!NeedsFinalizer, K!IsApply, K!IsCleanup
  <2>2. task'[l].pc \notin DelPcs \cup {"release"}
    BY <1>2, <1>t DEF StartFinalize, StartApply, Begin, At, DelPcs
  <2> QED
    BY <2>1, <2>2, <1>t DEF DueLink, Cleaning, K!IsCleanup
<1> QED
  BY <1>1, <1>2 DEF Start

\* A reconciliation of a Link that is not being deleted leaves the request be.
LEMMA AddDue ==
    ASSUME DueInv, NEW l \in Link,
           \/ AddFinalizer(l) \/ ResolveActor(l) \/ ResolveProvider(l) \/ ResolveFail(l)
           \/ AddRef(l) \/ AddAcquire(l)
           \/ AddHost(l) \/ AddGroup(l) \/ AddPublish(l) \/ AddPublishFail(l)
           \/ PatchStatus(l) \/ PatchStatusFail(l)
    PROVE  DueLink(l)'
<1>t. task \in [Link -> Task] /\ store' = store
  BY OwnStep DEF DueInv, DueLink, TypeOK, Step, Acquire
<1>1. ~At(l, "idle") /\ ~Cleaning(l)
  BY DEF AddFinalizer, ResolveActor, ResolveProvider, ResolveFail, AddRef, AddAcquire, AddHost,
         AddGroup, AddPublish, AddPublishFail, PatchStatus, PatchStatusFail, At, Cleaning, DelPcs
<1>2. K!IsCleanup(store[l]) => l \in queue
  BY <1>1 DEF DueInv, DueLink
<1>3. queue \subseteq queue'
  BY DEF AddFinalizer, ResolveActor, ResolveProvider, ResolveFail, AddRef, AddAcquire, AddHost,
         AddGroup, AddPublish, AddPublishFail, PatchStatus, PatchStatusFail, Requeue, kube
<1>4. ~Cleaning(l)'
  <2>1. CASE AddFinalizer(l) \/ ResolveActor(l) \/ ResolveProvider(l) \/ ResolveFail(l)
    <3>1. CASE AddFinalizer(l) \/ ResolveFail(l)
      BY <3>1, <1>t DEF AddFinalizer, ResolveFail, Requeue, Done, Idle, Cleaning, DelPcs
    <3>2. CASE ResolveActor(l)
      <4>1. Done(l) \/ \E ld : Goto(l, "resolveProvider", ld)
        BY <3>2 DEF ResolveActor
      <4> QED
        BY <4>1, <1>t DEF Done, Goto, Idle, Cleaning, DelPcs
    <3>3. CASE ResolveProvider(l)
      <4>1. Done(l) \/ \E ld : Goto(l, "addLock", ld)
        BY <3>3 DEF ResolveProvider, Requeue
      <4> QED
        BY <4>1, <1>t DEF Done, Goto, Idle, Cleaning, DelPcs
    <3> QED
      BY <2>1, <3>1, <3>2, <3>3
  <2>2. CASE AddRef(l) \/ AddAcquire(l)
    BY <2>2, <1>t DEF AddRef, AddAcquire, Goto, Cleaning, DelPcs
  <2>3. CASE AddHost(l) \/ AddGroup(l) \/ AddPublish(l) \/ AddPublishFail(l)
    BY <2>3, <1>t DEF AddHost, AddGroup, AddPublish, AddPublishFail, Added, Done, Goto, Idle,
                      Cleaning, DelPcs
  <2>4. CASE PatchStatus(l) \/ PatchStatusFail(l)
    BY <2>4, <1>t DEF PatchStatus, PatchStatusFail, Done, Idle, Cleaning, DelPcs
  <2> QED
    BY <2>1, <2>2, <2>3, <2>4
<1>5. K!IsCleanup(store[l])' => K!IsCleanup(store[l])
  BY <1>t DEF K!IsCleanup
<1> QED
  BY <1>2, <1>3, <1>4, <1>5 DEF DueLink

\* Until the finalizer is to be removed, a deletion stays under way.
LEMMA DelDue ==
    ASSUME DueInv, NEW l \in Link,
           \/ DelRef(l) \/ DelAcquire(l)
           \/ DelHost(l) \/ DelGroup(l) \/ DelPublish(l) \/ DelPublishFail(l)
    PROVE  DueLink(l)'
<1>t. task \in [Link -> Task]
  BY DEF DueInv, DueLink, TypeOK
<1>1. Cleaning(l)
  BY DEF DelRef, DelAcquire, DelHost, DelGroup, DelPublish, DelPublishFail, At, Cleaning, DelPcs
<1>2. task'[l].obj = task[l].obj /\ task'[l].pc \in DelPcs \cup {"release"}
  <2>1. CASE DelRef(l) \/ DelAcquire(l)
    BY <2>1, <1>t DEF DelRef, DelAcquire, Goto, DelPcs
  <2>2. CASE DelHost(l) \/ DelGroup(l)
    BY <2>2, <1>t DEF DelHost, DelGroup, DeleteFailed, Goto, DelPcs
  <2>3. CASE DelPublish(l) \/ DelPublishFail(l)
    BY <2>3, <1>t DEF DelPublish, DelPublishFail, DeleteFailed, Goto, DelPcs
  <2> QED
    BY <2>1, <2>2, <2>3
<1>3. K!IsCleanup(task[l].obj)
  BY <1>1 DEF DueInv, DueLink
<1> QED
  BY <1>2, <1>3 DEF DueLink, Cleaning, K!IsCleanup

\* A deletion ends without the finalizer, or is due again.
LEMMA ReleaseDue ==
    ASSUME DueInv, NEW l \in Link, Release(l) \/ ReleaseFail(l)
    PROVE  DueLink(l)'
<1>t. task \in [Link -> Task] /\ api \in [Link -> K!Object \cup {NoObject}]
  BY DEF DueInv, DueLink, TypeOK, K!KubeTypeOK
<1>1. task'[l] = Idle
  BY <1>t DEF Release, ReleaseFail, Requeue, Done
<1>2. l \in queue' \/ NoFinalizer(l)'
  <2>1. CASE Requeue(l)
    BY <2>1 DEF Requeue
  <2>2. CASE K!CanRemoveFinalizer(l) /\ K!RemoveFinalizer(l)
    <3>1. api[l] \in K!Object
      BY <2>2, <1>t DEF K!CanRemoveFinalizer
    <3> QED
      BY <2>2, <3>1, <1>t DEF K!RemoveFinalizer, K!Object, NoFinalizer
  <2> QED
    BY <2>1, <2>2 DEF Release, ReleaseFail
<1> QED
  BY <1>1, <1>2 DEF DueLink, Cleaning, At, Idle, DelPcs

\* Users and the watch: only the watch changes the copy, and it brings a request.
LEMMA WorldDue ==
    ASSUME Alone, DueInv, World, NEW l \in Link
    PROVE  DueLink(l)'
<1>t. api \in [Link -> K!Object \cup {NoObject}] /\ store \in [Link -> K!Object \cup {NoObject}]
  BY DEF DueInv, DueLink, TypeOK, K!KubeTypeOK
<1>1. CASE \E m \in Link, s \in Specs : Create(m, s)
  <2>1. PICK m \in Link, s \in Specs : Create(m, s)
    BY <1>1
  <2>2. UNCHANGED <<store, queue, task>>
    BY <2>1 DEF Create, K!Create, local
  <2>3. CASE m # l
    <3>1. api'[l] = api[l]
      BY <2>1, <2>3, <1>t DEF Create, K!Create
    <3> QED
      BY <2>2, <3>1, DueFrame
  <2>4. CASE m = l
    <3>1. NoFinalizer(l) /\ NoFinalizer(l)'
      BY <2>1, <2>4, <1>t DEF Create, K!Create, NoFinalizer
    <3> QED
      BY <2>2, <3>1 DEF DueInv, DueLink, Cleaning, At, K!IsCleanup
  <2> QED
    BY <2>3, <2>4
<1>2. CASE \E m \in Link : Delete(m)
  <2>1. PICK m \in Link : Delete(m)
    BY <1>2
  <2>2. UNCHANGED <<store, queue, task>>
    BY <2>1 DEF Delete, K!Delete, local
  <2>3. NoFinalizer(l) => NoFinalizer(l)'
    BY <2>1, <1>t DEF Delete, K!Delete, NoFinalizer
  <2> QED
    BY <2>2, <2>3 DEF DueInv, DueLink, Cleaning, At, K!IsCleanup
<1>3. CASE \E m \in Link : Watch(m)
  <2>1. PICK m \in Link : Watch(m)
    BY <1>3
  <2>2. UNCHANGED <<api, task>>
    BY <2>1 DEF Watch, K!Watch, local
  <2>3. CASE m # l
    <3>1. store'[l] = store[l] /\ (l \in queue => l \in queue')
      BY <2>1, <2>3, <1>t DEF Watch, K!Watch
    <3> QED
      BY <2>2, <3>1, DueFrame
  <2>4. CASE m = l
    <3>1. K!IsCleanup(store[l])' => l \in queue'
      BY <2>1, <2>4, <1>t DEF Watch, K!Watch, K!IsCleanup
    <3>2. Cleaning(l)' => K!IsCleanup(task[l].obj)'
      BY <2>2 DEF DueInv, DueLink, Cleaning, K!IsCleanup
    <3> QED
      BY <3>1, <3>2 DEF DueLink
  <2> QED
    BY <2>3, <2>4
<1>4. CASE \E m \in Link : Resync(m)
  BY <1>4, DueFrame DEF Resync, K!Resync, local
<1>5. CASE \E k \in ActorKey : NewGroup(k) \/ DropGroup(k)
  BY <1>5, DueFrame DEF NewGroup, DropGroup, kube
<1>6. CASE \/ \E a \in ActorName, k \in ActorKey \cup {Empty} : SetActor(a, k)
           \/ \E n \in ProviderName, p \in Provider \cup {NoProvider} : SetProvider(n, p)
  BY <1>6, DueFrame DEF SetActor, SetProvider, kube, local
<1>7. CASE Crash
  BY <1>7 DEF Crash, NoTasks, Idle, DueLink, Cleaning, K!IsCleanup, DelPcs
<1> QED
  BY <1>1, <1>2, <1>3, <1>4, <1>5, <1>6, <1>7 DEF World, Alone

\* Every step of a host that is alone keeps the deletions due.
LEMMA StepDue ==
    ASSUME Alone, DueInv, [Next]_vars
    PROVE  DueInv'
<1>1. TypeOK'
  BY TypeStep DEF DueInv, DueLink
<1>2. ASSUME NEW l \in Link PROVE DueLink(l)'
  <2>1. CASE World
    BY <2>1, WorldDue
  <2>2. CASE UNCHANGED vars
    BY <2>2, DueFrame DEF vars, kube
  <2>3. CASE \E m \in Link : Start(m) \/ Acquire(m) \/ Step(m)
    <3>1. PICK m \in Link : Start(m) \/ Acquire(m) \/ Step(m)
      BY <2>3
    <3>2. CASE m # l
      <4>1. task'[l] = task[l] /\ api'[l] = api[l] /\ store'[l] = store[l]
        BY <3>1, <3>2, OwnStep DEF DueInv, DueLink
      <4>2. l \in queue => l \in queue'
        BY <3>1, <3>2, OwnStep DEF DueInv, DueLink
      <4> QED
        BY <4>1, <4>2, DueFrame
    <3>3. CASE m = l
      BY <3>1, <3>3, StartDue, AddDue, DelDue, ReleaseDue DEF Acquire, Step
    <3> QED
      BY <3>2, <3>3
  <2> QED
    BY <2>1, <2>2, <2>3 DEF Next
<1> QED
  BY <1>1, <1>2 DEF DueInv

(***************************************************************************)
(* On a host that is alone, no failure makes the controller forget a       *)
(* deletion: neither a delete_linkdef that failed, nor a finalizer that    *)
(* could not be removed, nor a crash, in whatever order the reconciliation *)
(* of an older copy, the watch and the users interleave with them.         *)
(***************************************************************************)
THEOREM DeletionsAlwaysDue ==
    ASSUME Alone
    PROVE  Spec => []DeletionsStayDue
<1>1. Init => DueInv
  BY InitType DEF Init, K!KubeInit, NoTasks, Idle, DueInv, DueLink, Cleaning, K!IsCleanup, DelPcs
<1>2. DueInv /\ [Next]_vars => DueInv'
  BY StepDue
<1>3. DueInv => DeletionsStayDue
  BY DEF DueInv, DueLink, DeletionsStayDue, Cleaning, NoFinalizer, K!IsCleanup
<1> QED
  BY <1>1, <1>2, <1>3, PTL DEF Spec

=============================================================================
