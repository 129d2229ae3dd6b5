-------------------------------- MODULE Actors --------------------------------
(***************************************************************************)
(* The actor controller of one kasmcloud host: reconcile_actor and         *)
(* delete_actor of src/main.rs, and reconcile_actor, remove_actor,         *)
(* start_actor and instantiate_actor of crates/host/src/lib.rs, with the   *)
(* three tables they work on.                                              *)
(*                                                                         *)
(* Actors of one public key share a group.  A reconciliation takes the     *)
(* group out of host.actors under one lock and changes it under another,   *)
(* with nothing held in between; remove_actor holds the first while it     *)
(* waits for the second.                                                   *)
(***************************************************************************)
EXTENDS Naturals, FiniteSets

CONSTANTS
    Actor,        \* names of the Actor objects
    Image,        \* image references
    Key,          \* public keys of actors
    KeyOf,        \* the public key in the claims of each image
    Hosts,        \* names of hosts
    HostName,     \* the name of this host
    Specs,        \* the specs users give each object
    GroupId,      \* identities of ActorGroup allocations
    NoObject, NoStatus, NoKey, NoGroup, NoEntry, Free,
    MaxReplicas,  \* the largest spec.replicas
    MaxRunning,   \* subscriptions an actor may pile up
    MaxEdits,     \* how often users create, update or delete objects
    MaxFailures,  \* how many fetches, subscriptions and patches may fail
    MaxCrashes,   \* how often this host may crash
    Resyncs,      \* whether objects are reconciled again without a change
    TakenElsewhere \* the locks of the host that the other controllers take

\* host.actors, which the link controller reads, and host.providers, which the
\* provider controller changes.
HostLock == {"actors", "providers"}

ActorSpec == [host : Hosts, image : Image, replicas : 0..MaxReplicas]

\* The image stands for what a status repeats of its claims, such as the version.
ActorStatus == [publicKey : Key, image : Image, availableReplicas : 0..MaxReplicas]

ASSUME ActorsAssumption ==
    /\ IsFiniteSet(Actor) /\ IsFiniteSet(Key)
    /\ KeyOf \in [Image -> Key]
    /\ MaxReplicas \in Nat /\ MaxRunning \in Nat /\ MaxEdits \in Nat /\ MaxFailures \in Nat
    /\ MaxCrashes \in Nat /\ Resyncs \in BOOLEAN /\ TakenElsewhere \subseteq HostLock
    /\ Specs \in [Actor -> SUBSET ActorSpec]
    /\ NoKey \notin Key /\ NoGroup \notin GroupId /\ Free \notin Actor
    /\ NoEntry \notin [image : Image, instances : 0..MaxRunning]
    /\ NoStatus \notin ActorStatus
    /\ NoObject \notin [spec      : ActorSpec,
                        status    : ActorStatus \cup {NoStatus},
                        finalizer : BOOLEAN,
                        deleting  : BOOLEAN]

VARIABLES
    api, store, queue,  \* the Actor objects and their controller's queue: see Kube
    task,        \* the reconciliation of each actor
    actorKeys,   \* host.actor_keys: name -> public key
    actors,      \* host.actors: public key -> group
    members,     \* the actors table of each group: name -> image and number of instances
    actorsLock,  \* who holds host.actors for writing across an await
    groupLock,   \* who holds the actors table of a group across an await
    running,     \* subscribed call loops of each actor: spawned and not aborted
    hostStatus,  \* the counts in the status of this KasmCloudHost
    elsewhere,   \* the locks of the host that another controller holds
    edits, failures, crashes

kube == <<api, store, queue>>
host == <<actorKeys, actors, members, running>>
locks == <<actorsLock, groupLock>>
bounds == <<edits, failures, crashes>>
vars == <<kube, task, host, locks, hostStatus, elsewhere, bounds>>

K == INSTANCE Kube WITH Name <- Actor, SpecVal <- ActorSpec, StatusVal <- ActorStatus

Entry == [image : Image, instances : 0..MaxRunning]

Counts == [groups : 0..Cardinality(Key), instances : Nat]

Pcs == {"idle", "finalize", "fetch", "check", "group", "scale", "subscribe",
        "patch", "rmLock", "rmMember", "rmCheck", "rmName",
        "stats", "count", "countProviders", "hostPatch", "release"}

\* A task: where it is, the object it began with, the group it took from
\* host.actors, the subscriptions it has yet to make and those it has made,
\* the keys of the groups it has yet to count, the counts it will report, and
\* whether it ends by removing the finalizer.
Task == [pc       : Pcs,
         obj      : K!Object \cup {NoObject},
         group    : GroupId \cup {NoGroup},
         left     : 0..MaxReplicas,
         started  : 0..MaxReplicas,
         todo     : SUBSET Key,
         counts   : Counts,
         cleanup  : BOOLEAN]

NoCounts == [groups |-> 0, instances |-> 0]

Idle == [pc |-> "idle", obj |-> NoObject, group |-> NoGroup, left |-> 0, started |-> 0,
         todo |-> {}, counts |-> NoCounts, cleanup |-> FALSE]

\* Types.  No count of reconcile_actor and remove_actor leaves its range: they
\* abort no more call loops than they started.
TypeOK ==
    /\ K!KubeTypeOK
    /\ task \in [Actor -> Task]
    /\ actorKeys \in [Actor -> Key \cup {NoKey}]
    /\ actors \in [Key -> GroupId \cup {NoGroup}]
    /\ members \in [GroupId -> [Actor -> Entry \cup {NoEntry}]]
    /\ actorsLock \in Actor \cup {Free}
    /\ groupLock \in [GroupId -> Actor \cup {Free}]
    /\ running \in [Actor -> 0..MaxRunning]
    /\ hostStatus \in Counts
    /\ elsewhere \subseteq TakenElsewhere
    /\ edits \in 0..MaxEdits
    /\ failures \in 0..MaxFailures
    /\ crashes \in 0..MaxCrashes

\* What a host process starts with.
NoTasks == [a \in Actor |-> Idle]
NoKeys == [a \in Actor |-> NoKey]
NoGroups == [k \in Key |-> NoGroup]
NoMembers == [g \in GroupId |-> [a \in Actor |-> NoEntry]]
NoGroupLocks == [g \in GroupId |-> Free]
NoneRunning == [a \in Actor |-> 0]

Init ==
    /\ K!KubeInit
    /\ task = NoTasks
    /\ actorKeys = NoKeys
    /\ actors = NoGroups
    /\ members = NoMembers
    /\ actorsLock = Free
    /\ groupLock = NoGroupLocks
    /\ running = NoneRunning
    /\ hostStatus = NoCounts
    /\ elsewhere = {}
    /\ edits = 0
    /\ failures = 0
    /\ crashes = 0

----------------------------------------------------------------------------
At(a, pc) == task[a].pc = pc
Goto(a, pc) == task' = [task EXCEPT ![a].pc = pc]
KeyOfTask(a) == KeyOf[task[a].obj.spec.image]

Fail == failures < MaxFailures /\ failures' = failures + 1

\* stats() has host.actors read-locked until it has all its counts.
Counting(a) == task[a].pc \in {"count", "countProviders"}

\* host.actors can be locked for writing.
HostActorsFree ==
    /\ actorsLock = Free
    /\ "actors" \notin elsewhere
    /\ \A a \in Actor : ~Counting(a)

\* The controller looks only at objects whose spec names this host.
Mine(o) == o # NoObject /\ o.spec.host = HostName

Begin(a, pc, cleanup) ==
    /\ At(a, "idle") /\ K!Due(a) /\ Mine(store[a])
    /\ task' = [task EXCEPT ![a] = [Idle EXCEPT !.pc = pc, !.obj = store[a], !.cleanup = cleanup]]
    /\ queue' = queue \ {a}
    /\ UNCHANGED <<api, store, host, locks, hostStatus, elsewhere, bounds>>

Ignore(a) ==
    /\ At(a, "idle") /\ K!Due(a) /\ ~Mine(store[a])
    /\ queue' = queue \ {a}
    /\ UNCHANGED <<api, store, task, host, locks, hostStatus, elsewhere, bounds>>

StartFinalize(a) == K!NeedsFinalizer(store[a]) /\ Begin(a, "finalize", FALSE)
StartApply(a) == K!IsApply(store[a]) /\ Begin(a, "fetch", FALSE)
StartCleanup(a) == K!IsCleanup(store[a]) /\ Begin(a, "rmLock", TRUE)

Done(a) == task' = [task EXCEPT ![a] = Idle]
Requeue(a) == Done(a) /\ queue' = queue \cup {a}

AddFinalizer(a) ==
    /\ At(a, "finalize")
    /\ \/ K!CanAddFinalizer(a) /\ K!AddFinalizer(a) /\ Done(a) /\ UNCHANGED queue
       \/ ~K!CanAddFinalizer(a) /\ Requeue(a) /\ UNCHANGED api
    /\ UNCHANGED <<store, host, locks, hostStatus, elsewhere, bounds>>

----------------------------------------------------------------------------
(***************************************************************************)
(* Host::reconcile_actor                                                   *)
(***************************************************************************)

\* fetch_actor, which may take long or fail.  An error is logged: the
\* controller goes on to the host's status, and no reconciliation is due.
Fetch(a) ==
    /\ At(a, "fetch")
    /\ \/ Goto(a, "check") /\ UNCHANGED bounds
       \/ Fail /\ Goto(a, "stats") /\ UNCHANGED <<edits, crashes>>
    /\ UNCHANGED <<kube, host, locks, hostStatus, elsewhere>>

\* Mutant: an image of another key is taken for the same actor.
CheckKeyNever(a) ==
    /\ At(a, "check")
    /\ actorKeys' = [actorKeys EXCEPT ![a] = KeyOfTask(a)]
    /\ Goto(a, "group")
    /\ UNCHANGED <<kube, actors, members, running, locks, hostStatus, elsewhere, bounds>>

\* actor_keys: only this actor's tasks, one at a time, touch its entry, so
\* that reading it and then writing it are one step.
CheckKey(a) ==
    /\ At(a, "check")
    /\ \/ /\ actorKeys[a] \notin {NoKey, KeyOfTask(a)}
          /\ Goto(a, "stats")
          /\ UNCHANGED actorKeys
       \/ /\ actorKeys[a] \in {NoKey, KeyOfTask(a)}
          /\ actorKeys' = [actorKeys EXCEPT ![a] = KeyOfTask(a)]
          /\ Goto(a, "group")
    /\ UNCHANGED <<kube, actors, members, running, locks, hostStatus, elsewhere, bounds>>

\* A group nobody has a reference to.
Fresh(g) ==
    /\ \A k \in Key : actors[k] # g
    /\ \A a \in Actor : task[a].group # g /\ members[g][a] = NoEntry

\* host.actors.write(): take the group of the key, or make one.
TakeGroup(a) ==
    LET k == KeyOfTask(a) IN
    /\ At(a, "group") /\ HostActorsFree
    /\ \/ /\ actors[k] # NoGroup
          /\ task' = [task EXCEPT ![a].pc = "scale", ![a].group = actors[k]]
          /\ UNCHANGED actors
       \/ /\ actors[k] = NoGroup
          /\ \E g \in GroupId : Fresh(g)
          /\ LET g == CHOOSE x \in GroupId : Fresh(x) IN
             /\ actors' = [actors EXCEPT ![k] = g]
             /\ task' = [task EXCEPT ![a].pc = "scale", ![a].group = g]
    /\ UNCHANGED <<kube, actorKeys, members, running, locks, hostStatus, elsewhere, bounds>>

(***************************************************************************)
(* group.actors.write(): compare the instances there are with the replicas *)
(* there should be.  New ones are subscribed one by one, with the group's  *)
(* table locked; superfluous ones are aborted at once.                     *)
(***************************************************************************)
Instances(a) == LET e == members[task[a].group][a] IN IF e = NoEntry THEN 0 ELSE e.instances

\* Mutant: the aborted instances are left in the table.
ScaleUntruncated(a) ==
    LET g == task[a].group
        wanted == task[a].obj.spec.replicas
        current == Instances(a)
    IN
    /\ At(a, "scale") /\ groupLock[g] = Free
    /\ \/ /\ wanted > current
          /\ groupLock' = [groupLock EXCEPT ![g] = a]
          /\ task' = [task EXCEPT ![a].pc = "subscribe", ![a].left = wanted - current,
                                  ![a].started = 0]
          /\ UNCHANGED running
       \/ /\ wanted <= current
          /\ running' = [running EXCEPT ![a] = @ - (current - wanted)]
          /\ Goto(a, "patch")
          /\ UNCHANGED groupLock
    /\ UNCHANGED <<kube, actorKeys, actors, members, actorsLock, hostStatus, elsewhere, bounds>>

\* Mutant: the last missing instance is not started.
ScaleAllButOne(a) ==
    LET g == task[a].group
        wanted == task[a].obj.spec.replicas
        current == Instances(a)
    IN
    /\ At(a, "scale") /\ groupLock[g] = Free
    /\ \/ /\ wanted > current + 1
          /\ groupLock' = [groupLock EXCEPT ![g] = a]
          /\ task' = [task EXCEPT ![a].pc = "subscribe", ![a].left = wanted - current - 1,
                                  ![a].started = 0]
       \/ /\ wanted <= current + 1
          /\ Goto(a, "patch")
          /\ UNCHANGED groupLock
    /\ UNCHANGED <<kube, host, actorsLock, hostStatus, elsewhere, bounds>>

Scale(a) ==
    LET g == task[a].group
        wanted == task[a].obj.spec.replicas
        current == Instances(a)
    IN
    /\ At(a, "scale") /\ groupLock[g] = Free
    /\ \/ /\ wanted > current
          /\ groupLock' = [groupLock EXCEPT ![g] = a]
          /\ task' = [task EXCEPT ![a].pc = "subscribe", ![a].left = wanted - current,
                                  ![a].started = 0]
          /\ UNCHANGED <<members, running>>
       \/ /\ wanted = current
          /\ Goto(a, "patch")
          /\ UNCHANGED <<groupLock, members, running>>
       \/ /\ wanted < current
          /\ members' = [members EXCEPT ![g][a].instances = wanted]
          /\ running' = [running EXCEPT ![a] = @ - (current - wanted)]
          /\ Goto(a, "patch")
          /\ UNCHANGED groupLock
    /\ UNCHANGED <<kube, actorKeys, actors, actorsLock, hostStatus, elsewhere, bounds>>

\* The instances made become the group's; a first one brings the image in.
Joined(a) ==
    LET g == task[a].group
        image == IF members[g][a] = NoEntry THEN task[a].obj.spec.image ELSE members[g][a].image
    IN
    /\ members' = [members EXCEPT ![g][a] =
                     [image |-> image, instances |-> Instances(a) + task[a].started + 1]]
    /\ groupLock' = [groupLock EXCEPT ![g] = Free]
    /\ task' = [task EXCEPT ![a].pc = "patch", ![a].left = 0, ![a].started = 0]

\* instantiate_actor: one more queue subscription with its call loop spawned.
Subscribe(a) ==
    /\ At(a, "subscribe") /\ running[a] < MaxRunning
    /\ running' = [running EXCEPT ![a] = @ + 1]
    /\ \/ task[a].left = 1 /\ Joined(a)
       \/ /\ task[a].left > 1
          /\ task' = [task EXCEPT ![a].left = @ - 1, ![a].started = @ + 1]
          /\ UNCHANGED <<members, groupLock>>
    /\ UNCHANGED <<kube, actorKeys, actors, actorsLock, hostStatus, elsewhere, bounds>>

\* A subscription fails: the loops spawned before it go on, and nobody has
\* the handles to abort them.
SubscribeFail(a) ==
    /\ At(a, "subscribe") /\ Fail
    /\ groupLock' = [groupLock EXCEPT ![task[a].group] = Free]
    /\ Goto(a, "stats")
    /\ UNCHANGED <<kube, host, actorsLock, hostStatus, elsewhere, edits, crashes>>

----------------------------------------------------------------------------
(***************************************************************************)
(* What the controller does with the result of reconcile_actor: the status *)
(* it computes repeats the claims of the image and the replicas of the     *)
(* spec, and is patched when it differs from the one in the task's copy.   *)
(***************************************************************************)
NewStatus(a) == [publicKey         |-> KeyOfTask(a),
                 image             |-> task[a].obj.spec.image,
                 availableReplicas |-> task[a].obj.spec.replicas]

PatchStatus(a) ==
    /\ At(a, "patch")
    /\ \/ /\ task[a].obj.status # NewStatus(a) /\ K!CanPatchStatus(a)
          /\ K!WriteStatus(a, NewStatus(a))
          /\ UNCHANGED failures
       \/ /\ task[a].obj.status = NewStatus(a) \/ ~K!CanPatchStatus(a)
          /\ UNCHANGED <<api, failures>>
       \/ /\ task[a].obj.status # NewStatus(a)
          /\ Fail
          /\ UNCHANGED api
    /\ Goto(a, "stats")
    /\ UNCHANGED <<store, queue, host, locks, hostStatus, elsewhere, edits, crashes>>

----------------------------------------------------------------------------
(***************************************************************************)
(* Host::remove_actor                                                      *)
(***************************************************************************)

\* actor_keys.read(), then host.actors.write(), held until the group is done with.
RemoveLock(a) ==
    LET k == actorKeys[a] IN
    /\ At(a, "rmLock")
    /\ \/ k = NoKey /\ Goto(a, "stats") /\ UNCHANGED actorsLock
       \/ /\ k # NoKey /\ HostActorsFree
          /\ \/ actors[k] = NoGroup /\ Goto(a, "rmName") /\ UNCHANGED actorsLock
             \/ /\ actors[k] # NoGroup
                /\ actorsLock' = a
                /\ task' = [task EXCEPT ![a].pc = "rmMember", ![a].group = actors[k]]
    /\ UNCHANGED <<kube, host, groupLock, hostStatus, elsewhere, bounds>>

\* Mutant: the call loops are not aborted.
RemoveMemberRunning(a) ==
    LET g == task[a].group IN
    /\ At(a, "rmMember") /\ groupLock[g] = Free
    /\ members' = [members EXCEPT ![g][a] = NoEntry]
    /\ Goto(a, "rmCheck")
    /\ UNCHANGED <<kube, actorKeys, actors, running, locks, hostStatus, elsewhere, bounds>>

\* group.actors.write(): abort the actor's instances and take its entry out.
RemoveMember(a) ==
    LET g == task[a].group IN
    /\ At(a, "rmMember") /\ groupLock[g] = Free
    /\ members' = [members EXCEPT ![g][a] = NoEntry]
    /\ running' = [running EXCEPT ![a] = @ - Instances(a)]
    /\ Goto(a, "rmCheck")
    /\ UNCHANGED <<kube, actorKeys, actors, locks, hostStatus, elsewhere, bounds>>

\* Mutant: host.actors stays locked.
RemoveGroupLocked(a) ==
    LET g == task[a].group IN
    /\ At(a, "rmCheck") /\ groupLock[g] = Free
    /\ actors' = IF \A b \in Actor : members[g][b] = NoEntry
                 THEN [actors EXCEPT ![actorKeys[a]] = NoGroup]
                 ELSE actors
    /\ Goto(a, "rmName")
    /\ UNCHANGED <<kube, actorKeys, members, running, locks, hostStatus, elsewhere, bounds>>

\* group.actors.read(): a group without actors is dropped from host.actors.
RemoveGroup(a) ==
    LET g == task[a].group IN
    /\ At(a, "rmCheck") /\ groupLock[g] = Free
    /\ actors' = IF \A b \in Actor : members[g][b] = NoEntry
                 THEN [actors EXCEPT ![actorKeys[a]] = NoGroup]
                 ELSE actors
    /\ actorsLock' = Free
    /\ Goto(a, "rmName")
    /\ UNCHANGED <<kube, actorKeys, members, running, groupLock, hostStatus, elsewhere, bounds>>

RemoveName(a) ==
    /\ At(a, "rmName")
    /\ actorKeys' = [actorKeys EXCEPT ![a] = NoKey]
    /\ Goto(a, "stats")
    /\ UNCHANGED <<kube, actors, members, running, locks, hostStatus, elsewhere, bounds>>

----------------------------------------------------------------------------
(***************************************************************************)
(* update_host_status, at the end of every reconciliation: stats() reads   *)
(* host.actors, each group's table and host.providers in turn, keeping     *)
(* host.actors read-locked while it waits for the others; then the patch,  *)
(* whose failure nobody looks at.  The number of providers it reports is   *)
(* left out.                                                               *)
(***************************************************************************)
InstancesIn(k) ==
    {x \in Actor \X (1..MaxRunning) :
        LET e == members[actors[k]][x[1]] IN e # NoEntry /\ x[2] <= e.instances}

GroupKeys == {k \in Key : actors[k] # NoGroup}

Stats(a) ==
    /\ At(a, "stats") /\ actorsLock = Free
    /\ task' = [task EXCEPT ![a].pc = IF GroupKeys = {} THEN "countProviders" ELSE "count",
                            ![a].group = NoGroup, ![a].left = 0, ![a].started = 0,
                            ![a].todo = GroupKeys,
                            ![a].counts = [NoCounts EXCEPT !.groups = Cardinality(GroupKeys)]]
    /\ UNCHANGED <<kube, host, locks, hostStatus, elsewhere, bounds>>

CountGroup(a, k) ==
    /\ At(a, "count") /\ k \in task[a].todo /\ groupLock[actors[k]] = Free
    /\ task' = [task EXCEPT ![a].pc = IF task[a].todo = {k} THEN "countProviders" ELSE "count",
                            ![a].todo = @ \ {k},
                            ![a].counts.instances = @ + Cardinality(InstancesIn(k))]
    /\ UNCHANGED <<kube, host, locks, hostStatus, elsewhere, bounds>>

CountProviders(a) ==
    /\ At(a, "countProviders") /\ "providers" \notin elsewhere
    /\ Goto(a, "hostPatch")
    /\ UNCHANGED <<kube, host, locks, hostStatus, elsewhere, bounds>>

HostPatch(a) ==
    /\ At(a, "hostPatch")
    /\ \/ hostStatus' = task[a].counts /\ UNCHANGED bounds
       \/ Fail /\ UNCHANGED <<hostStatus, edits, crashes>>
    /\ task' = [task EXCEPT ![a] = IF @.cleanup
                                   THEN [@ EXCEPT !.pc = "release", !.counts = NoCounts]
                                   ELSE Idle]
    /\ UNCHANGED <<kube, host, locks, elsewhere>>

Release(a) ==
    /\ At(a, "release")
    /\ \/ K!CanRemoveFinalizer(a) /\ K!RemoveFinalizer(a) /\ Done(a) /\ UNCHANGED queue
       \/ ~K!CanRemoveFinalizer(a) /\ Requeue(a) /\ UNCHANGED api
    /\ UNCHANGED <<store, host, locks, hostStatus, elsewhere, bounds>>

----------------------------------------------------------------------------
(***************************************************************************)
(* The users and the watch.  The webhook refuses a change of spec.host.    *)
(***************************************************************************)
Edit == edits < MaxEdits /\ edits' = edits + 1 /\ UNCHANGED <<failures, crashes>>

local == <<task, host, locks, hostStatus, elsewhere>>

Create(a, s) == Edit /\ K!Create(a, s) /\ UNCHANGED local
Update(a, s) == /\ Edit /\ K!Update(a, s)
                /\ s.host = api[a].spec.host
                /\ UNCHANGED local
Delete(a) == Edit /\ K!Delete(a) /\ UNCHANGED local
Watch(a) == K!Watch(a) /\ UNCHANGED <<local, bounds>>

\* One that comes during a reconciliation is as good as one right after it.
Resync(a) == Resyncs /\ At(a, "idle") /\ K!Resync(a) /\ UNCHANGED <<local, bounds>>

(***************************************************************************)
(* The other controllers of the process.  start_provider and stop_provider *)
(* hold host.providers for writing while they feed a child or ask one to   *)
(* shut down.  add_linkdef and delete_linkdef, of which ctx.links admits   *)
(* one at a time, have host.actors read-locked while they wait for the     *)
(* links of a group, which a call keeps until it is answered.  Only those  *)
(* who have come to a lock can tell, so it is enough to have it taken then.*)
(***************************************************************************)
Awaiting(x) == IF x = "actors" THEN {"group", "rmLock"} ELSE {"countProviders"}

LockElsewhere(x) ==
    /\ x \in TakenElsewhere \ elsewhere
    /\ x = "actors" => actorsLock = Free
    /\ \E a \in Actor : task[a].pc \in Awaiting(x)
    /\ elsewhere' = elsewhere \cup {x}
    /\ UNCHANGED <<kube, task, host, locks, hostStatus, bounds>>

UnlockElsewhere(x) ==
    /\ x \in elsewhere
    /\ elsewhere' = elsewhere \ {x}
    /\ UNCHANGED <<kube, task, host, locks, hostStatus, bounds>>

(***************************************************************************)
(* The host process dies, with its tables and call loops, and a new one    *)
(* starts: it reports its empty tables before it runs the controllers.     *)
(***************************************************************************)
Crash ==
    /\ crashes < MaxCrashes
    /\ crashes' = crashes + 1
    /\ task' = NoTasks
    /\ actorKeys' = NoKeys
    /\ actors' = NoGroups
    /\ members' = NoMembers
    /\ actorsLock' = Free
    /\ groupLock' = NoGroupLocks
    /\ running' = NoneRunning
    /\ hostStatus' = NoCounts
    /\ elsewhere' = {}
    /\ store' = [a \in Actor |-> NoObject]
    /\ queue' = {}
    /\ UNCHANGED <<api, edits, failures>>

Start(a) == Ignore(a) \/ StartFinalize(a) \/ StartApply(a) \/ StartCleanup(a)

\* The steps that wait for a lock.
Locking(a) ==
    \/ TakeGroup(a) \/ Scale(a) \/ RemoveLock(a) \/ RemoveMember(a) \/ RemoveGroup(a)
    \/ Stats(a) \/ (\E k \in Key : CountGroup(a, k)) \/ CountProviders(a)

Step(a) ==
    \/ AddFinalizer(a) \/ Fetch(a) \/ CheckKey(a) \/ Subscribe(a) \/ SubscribeFail(a)
    \/ PatchStatus(a) \/ RemoveName(a) \/ HostPatch(a) \/ Release(a)

World ==
    \/ \E a \in Actor : \/ \E s \in Specs[a] : Create(a, s) \/ Update(a, s)
                       \/ Delete(a) \/ Watch(a) \/ Resync(a)
    \/ \E x \in HostLock : LockElsewhere(x) \/ UnlockElsewhere(x)
    \/ Crash

Next == (\E a \in Actor : Start(a) \/ Locking(a) \/ Step(a)) \/ World

Spec == Init /\ [][Next]_vars

(***************************************************************************)
(* Tasks are polled, the watch delivers, and tokio's locks serve those who *)
(* wait for them in turn; stop_provider waits at most five seconds for a   *)
(* child with host.providers locked.  Nothing makes the link controller    *)
(* release host.actors: it waits for calls of actors.                      *)
(***************************************************************************)
Fairness ==
    /\ \A a \in Actor : /\ WF_vars(Watch(a)) /\ WF_vars(Start(a)) /\ WF_vars(Step(a))
                         /\ SF_vars(Locking(a))
    /\ WF_vars(UnlockElsewhere("providers"))

FairSpec == Spec /\ Fairness

----------------------------------------------------------------------------
(***************************************************************************)
(* Properties.                                                             *)
(***************************************************************************)

\* The controller is done with an actor it keeps, whose image has the public
\* key the host knows the actor by.
Settled(a) ==
    /\ At(a, "idle")
    /\ store[a] = api[a]
    /\ a \notin queue
    /\ Mine(store[a]) /\ K!IsApply(store[a])
    /\ actorKeys[a] = KeyOf[store[a].spec.image]

(***************************************************************************)
(* Whoever is in a group is known to actor_keys by the group's key, so     *)
(* that remove_actor, which goes by actor_keys, finds it.                  *)
(***************************************************************************)
MembersHaveKeys ==
    \A k \in Key, a \in Actor :
        actors[k] # NoGroup /\ members[actors[k]][a] # NoEntry => actorKeys[a] = k

(***************************************************************************)
(* While nothing has failed, the replicas of a settled actor really are    *)
(* subscribed, also while actors of the same key come and go: a group that *)
(* remove_actor drops takes no other actor's instances with it.            *)
(***************************************************************************)
ReplicasServe ==
    failures = 0 => \A a \in Actor : Settled(a) => running[a] >= store[a].spec.replicas

(***************************************************************************)
(* "ActorStatus defines the observed state of Actor": a settled actor has  *)
(* exactly as many instances running as its availableReplicas says.        *)
(***************************************************************************)
ReplicasObserved ==
    failures = 0 =>
        \A a \in Actor : Settled(a) /\ store[a].status # NoStatus =>
            running[a] = store[a].status.availableReplicas

\* What stats() would count if nothing changed meanwhile.
stats == [groups    |-> Cardinality(GroupKeys),
          instances |-> Cardinality({x \in GroupKeys \X (Actor \X (1..MaxRunning)) : x[2] \in InstancesIn(x[1])})]

(***************************************************************************)
(* "KasmCloudHostStatus defines the observed state of KasmCloudHost": when *)
(* no reconciliation is under way or due, it has the counts of the host's  *)
(* tables.                                                                 *)
(***************************************************************************)
HostStatusObserved ==
    /\ failures = 0
    /\ queue = {} /\ store = api
    /\ \A a \in Actor : At(a, "idle")
    => hostStatus = stats

\* An actor object that is there to stay, and that the host does not refuse.
Kept(a) ==
    /\ api[a] # NoObject /\ ~api[a].deleting /\ Mine(api[a])
    /\ actorKeys[a] \in {NoKey, KeyOf[api[a].spec.image]}

Scaled(a) ==
    /\ api[a] # NoObject
    /\ api[a].status # NoStatus
    /\ running[a] = api[a].spec.replicas
    /\ api[a].status.availableReplicas = running[a]

\* The calls that an add_linkdef or a delete_linkdef waits for are answered: the
\* link controller does not keep host.actors for ever.
HostActorsYields == []<>("actors" \notin elsewhere)

(***************************************************************************)
(* An actor that stays as it is comes to run the replicas its spec asks    *)
(* for, and to report them, unless its image has another public key, and   *)
(* provided that the link controller comes to release host.actors.  Then   *)
(* no reconciliation waits for a lock for ever, although stats() keeps     *)
(* host.actors while the provider controller has host.providers, and none  *)
(* is missed, also when the host crashes in the middle of one.             *)
(***************************************************************************)
ActorsGetScaled == HostActorsYields => \A a \in Actor : <>[]Kept(a) => <>[]Scaled(a)

(***************************************************************************)
(* A deleted actor's object goes away, and with it its instances, with the *)
(* same proviso: remove_actor waits for host.actors as well.               *)
(***************************************************************************)
DeletedActorsStop ==
    HostActorsYields =>
        \A a \in Actor :
            (api[a] # NoObject /\ api[a].deleting) ~> (api[a] = NoObject /\ running[a] = 0)

=============================================================================
