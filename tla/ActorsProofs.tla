---------------------------- MODULE ActorsProofs ----------------------------
(***************************************************************************)
(* Theorems about Actors, for any number of actors, keys and replicas, and *)
(* any bounds.                                                             *)
(***************************************************************************)
EXTENDS Actors, FiniteSetTheorems, TLAPS

----------------------------------------------------------------------------
(***************************************************************************)
(* The invariant.                                                          *)
(*                                                                         *)
(* The counts of reconcile_actor and remove_actor stay in their ranges     *)
(* only because an actor's entries in the groups it can still reach never  *)
(* promise more call loops than it has; and that rests on its being in at  *)
(* most one such group.                                                    *)
(***************************************************************************)

\* The instances the table of a group has for an actor.
Inst(g, a) == IF members[g][a] = NoEntry THEN 0 ELSE members[g][a].instances

\* The call loops that a task has spawned and not yet put into the table.
Started(a) == IF At(a, "subscribe") THEN task[a].started ELSE 0

\* The tasks that have taken a group and not yet changed it, and those that hold
\* host.actors to take their actor out of a group.
Pending(a) == task[a].pc \in {"scale", "subscribe"}
Removing(a) == task[a].pc \in {"rmMember", "rmCheck"}

\* No group of host.actors has the actor.
NoMember(a) == \A k \in GroupKeys : members[actors[k]][a] = NoEntry

\* The group that a task has taken is the group of its key, or remove_actor has
\* dropped it meanwhile; then no group of host.actors has the actor.
Took(a) ==
    /\ task[a].group \in GroupId
    /\ Inst(task[a].group, a) + Started(a) <= running[a]
    /\ \/ task[a].group = actors[KeyOfTask(a)]
       \/ NoMember(a) /\ \A k \in GroupKeys : actors[k] # task[a].group

\* What is started and what is left to start add up to the replicas of the spec.
Subscribing(a) ==
    /\ task[a].left > 0
    /\ Inst(task[a].group, a) + task[a].started + task[a].left = task[a].obj.spec.replicas

\* What holds of each actor and its task.
ActorInv(a) ==
    /\ ~At(a, "idle") => task[a].obj # NoObject
    /\ task[a].pc \in {"group", "scale", "subscribe", "patch"} => actorKeys[a] = KeyOfTask(a)
    /\ \A k \in GroupKeys : members[actors[k]][a] # NoEntry => actorKeys[a] = k
    /\ \A k \in GroupKeys : Inst(actors[k], a) <= running[a]
    /\ Pending(a) => Took(a)
    /\ At(a, "subscribe") => Subscribing(a)
    /\ Removing(a) => /\ actorsLock = a
                      /\ actorKeys[a] \in GroupKeys /\ task[a].group = actors[actorKeys[a]]
    /\ At(a, "rmCheck") => members[task[a].group][a] = NoEntry
    /\ At(a, "rmName") => NoMember(a)
    /\ Counting(a) => actorsLock = Free /\ task[a].todo \subseteq GroupKeys

\* Keys do not share a group.
OwnGroups == \A k, l \in GroupKeys : actors[k] = actors[l] => k = l

GroupsInv == TypeOK /\ OwnGroups /\ \A a \in Actor : ActorInv(a)

----------------------------------------------------------------------------
(***************************************************************************)
(* Typing.                                                                 *)
(***************************************************************************)

\* A patched object is an object.
LEMMA PatchType ==
    ASSUME NEW o \in K!Object
    PROVE  /\ \A b \in BOOLEAN : /\ [o EXCEPT !.finalizer = b] \in K!Object
                                 /\ [o EXCEPT !.deleting = b] \in K!Object
           /\ \A st \in ActorStatus : [o EXCEPT !.status = st] \in K!Object
           /\ \A s \in ActorSpec : [o EXCEPT !.spec = s] \in K!Object
BY DEF K!Object

\* What the spec of an object has.
LEMMA SpecType ==
    ASSUME NEW o \in K!Object
    PROVE  /\ o.spec.image \in Image /\ KeyOf[o.spec.image] \in Key
           /\ o.spec.replicas \in 0..MaxReplicas
           /\ [publicKey |-> KeyOf[o.spec.image], image |-> o.spec.image,
               availableReplicas |-> o.spec.replicas] \in ActorStatus
BY ActorsAssumption DEF K!Object, ActorSpec, ActorStatus

\* The number of an actor's instances in a group is in its range.
LEMMA InstType ==
    ASSUME TypeOK, NEW g \in GroupId, NEW a \in Actor
    PROVE  /\ Inst(g, a) \in 0..MaxRunning
           /\ members[g][a] # NoEntry => members[g][a] \in Entry /\ members[g][a].instances = Inst(g, a)
BY ActorsAssumption DEF TypeOK, Inst, Entry

\* The counts of stats() are numbers.
LEMMA CountType ==
    /\ Cardinality(GroupKeys) \in 0..Cardinality(Key)
    /\ \A k : Cardinality(InstancesIn(k)) \in Nat
<1>1. Cardinality(GroupKeys) \in 0..Cardinality(Key)
  <2>1. IsFiniteSet(Key) /\ GroupKeys \in SUBSET Key
    BY ActorsAssumption DEF GroupKeys
  <2>2. IsFiniteSet(GroupKeys) /\ Cardinality(GroupKeys) <= Cardinality(Key)
    BY <2>1, FS_Subset
  <2> QED
    BY <2>1, <2>2, FS_CardinalityType
<1>2. ASSUME NEW k PROVE Cardinality(InstancesIn(k)) \in Nat
  <2>1. IsFiniteSet(1..MaxRunning)
    BY ActorsAssumption, FS_Interval
  <2>2. IsFiniteSet(Actor \X (1..MaxRunning))
    BY <2>1, ActorsAssumption, FS_Product
  <2>3. InstancesIn(k) \in SUBSET (Actor \X (1..MaxRunning))
    BY DEF InstancesIn
  <2>4. IsFiniteSet(InstancesIn(k))
    BY <2>2, <2>3, FS_Subset
  <2> QED
    BY <2>4, FS_CardinalityType
<1> QED
  BY <1>1, <1>2

\* What a task of one actor leaves alone.
Others(a) ==
    \A b \in Actor : b # a =>
        /\ task'[b] = task[b] /\ actorKeys'[b] = actorKeys[b] /\ running'[b] = running[b]
        /\ \A g \in GroupId : members'[g][b] = members[g][b]

\* The empty counts and the idle task have their types.
LEMMA IdleType == NoCounts \in Counts /\ Idle \in Task
<1>1. NoCounts \in Counts
  BY CountType, ActorsAssumption, FS_CardinalityType DEF NoCounts, Counts
<1> QED
  BY <1>1, ActorsAssumption DEF Idle, Task, Pcs

\* The host starts with tables of their types.
LEMMA InitType == Init => TypeOK
<1>1. Init => elsewhere \subseteq TakenElsewhere
  BY DEF Init
<1>2. Init => members \in [GroupId -> [Actor -> Entry \cup {NoEntry}]]
  BY DEF Init, NoMembers
<1> QED
  BY <1>1, <1>2, IdleType, ActorsAssumption
     DEF Init, TypeOK, K!KubeInit, K!KubeTypeOK, NoTasks, NoKeys, NoGroups, NoGroupLocks, NoneRunning

\* A task with some of its fields replaced is a task.
LEMMA TaskWith ==
    ASSUME NEW t \in Task
    PROVE  \A pc \in Pcs :
             /\ [t EXCEPT !.pc = pc] \in Task
             /\ \A g \in GroupId \cup {NoGroup} : [t EXCEPT !.pc = pc, !.group = g] \in Task
             /\ \A l, n \in 0..MaxReplicas : [t EXCEPT !.pc = pc, !.left = l, !.started = n] \in Task
             /\ \A c \in Counts : [t EXCEPT !.pc = pc, !.counts = c] \in Task
             /\ \A c \in Counts, todo \in SUBSET Key :
                  /\ [t EXCEPT !.pc = pc, !.todo = todo, !.counts = c] \in Task
                  /\ \A g \in GroupId \cup {NoGroup}, l, n \in 0..MaxReplicas :
                       [t EXCEPT !.pc = pc, !.group = g, !.left = l, !.started = n,
                                 !.todo = todo, !.counts = c] \in Task
<1> TAKE pc \in Pcs
<1>1. [t EXCEPT !.pc = pc] \in Task
  BY DEF Task
<1>2. ASSUME NEW g \in GroupId \cup {NoGroup} PROVE [t EXCEPT !.pc = pc, !.group = g] \in Task
  BY DEF Task
<1>3. ASSUME NEW l \in 0..MaxReplicas, NEW n \in 0..MaxReplicas
      PROVE  [t EXCEPT !.pc = pc, !.left = l, !.started = n] \in Task
  BY DEF Task
<1>4. ASSUME NEW c \in Counts PROVE [t EXCEPT !.pc = pc, !.counts = c] \in Task
  BY DEF Task
<1>5. ASSUME NEW c \in Counts, NEW todo \in SUBSET Key
      PROVE  /\ [t EXCEPT !.pc = pc, !.todo = todo, !.counts = c] \in Task
             /\ \A g \in GroupId \cup {NoGroup}, l, n \in 0..MaxReplicas :
                  [t EXCEPT !.pc = pc, !.group = g, !.left = l, !.started = n,
                            !.todo = todo, !.counts = c] \in Task
  <2>1. [t EXCEPT !.pc = pc, !.todo = todo, !.counts = c] \in Task
    BY DEF Task
  <2>2. ASSUME NEW g \in GroupId \cup {NoGroup}, NEW l \in 0..MaxReplicas, NEW n \in 0..MaxReplicas
        PROVE  [t EXCEPT !.pc = pc, !.group = g, !.left = l, !.started = n,
                         !.todo = todo, !.counts = c] \in Task
    BY DEF Task
  <2> QED
    BY <2>1, <2>2
<1> QED
  BY <1>1, <1>2, <1>3, <1>4, <1>5

\* Replacing one task by a well-typed one keeps the tasks well-typed.
LEMMA TaskUpdate ==
    ASSUME task \in [Actor -> Task], NEW a \in Actor, NEW t \in Task,
           task' = [task EXCEPT ![a] = t]
    PROVE  task' \in [Actor -> Task]
OBVIOUS

\* A task that goes on keeps the tasks well-typed.
LEMMA GotoType ==
    ASSUME TypeOK, NEW a \in Actor, NEW pc \in Pcs, Goto(a, pc)
    PROVE  task' \in [Actor -> Task]
<1>1. [task[a] EXCEPT !.pc = pc] \in Task
  BY TaskWith DEF TypeOK
<1> QED
  BY <1>1, TaskUpdate DEF TypeOK, Goto

\* A reconciliation that ends keeps the tasks well-typed.
LEMMA DoneType ==
    ASSUME TypeOK, NEW a \in Actor, Done(a)
    PROVE  task' \in [Actor -> Task]
BY IdleType DEF TypeOK, Done

\* A reconciliation that begins keeps the tasks well-typed.
LEMMA BeginType ==
    ASSUME TypeOK, NEW a \in Actor, NEW pc \in Pcs, NEW cleanup \in BOOLEAN, Begin(a, pc, cleanup)
    PROVE  TypeOK'
<1>1. [Idle EXCEPT !.pc = pc, !.obj = store[a], !.cleanup = cleanup] \in Task
  BY IdleType DEF TypeOK, K!KubeTypeOK, Task, Pcs
<1>2. task' \in [Actor -> Task]
  BY <1>1 DEF TypeOK, Begin
<1>3. elsewhere' \subseteq TakenElsewhere
  BY DEF TypeOK, Begin
<1> QED
  BY <1>2, <1>3 DEF TypeOK, K!KubeTypeOK, Begin, host, locks, bounds

\* One more failure stays within its bound.
LEMMA FailType ==
    ASSUME TypeOK, Fail
    PROVE  failures' \in 0..MaxFailures /\ failures' # 0
BY ActorsAssumption DEF TypeOK, Fail

\* What the program counter of a task says about its object.
LEMMA TaskFacts ==
    ASSUME GroupsInv, NEW a \in Actor
    PROVE  /\ task[a] \in Task
           /\ ~At(a, "idle") =>
                /\ task[a].obj \in K!Object /\ KeyOfTask(a) \in Key
                /\ task[a].obj.spec.replicas \in 0..MaxReplicas
                /\ task[a].obj.spec.image \in Image /\ NewStatus(a) \in ActorStatus
           /\ Pending(a) \/ Removing(a) =>
                /\ task[a].group \in GroupId /\ Instances(a) = Inst(task[a].group, a)
                /\ Inst(task[a].group, a) \in 0..MaxRunning
                /\ Inst(task[a].group, a) + Started(a) <= running[a]
<1>1. TypeOK /\ ActorInv(a)
  BY DEF GroupsInv
<1>2. task[a] \in Task
  BY <1>1 DEF TypeOK
<1>3. ~At(a, "idle") => task[a].obj \in K!Object
  BY <1>1, <1>2 DEF ActorInv, Task
<1>4. Pending(a) \/ Removing(a) =>
        /\ task[a].group \in GroupId
        /\ Inst(task[a].group, a) + Started(a) <= running[a]
  <2>1. CASE Pending(a)
    BY <1>1, <2>1 DEF ActorInv, Took
  <2>2. CASE Removing(a)
    <3>1. task[a].group \in GroupId /\ Inst(task[a].group, a) <= running[a] /\ Started(a) = 0
      BY <1>1, <2>2 DEF ActorInv, GroupKeys, Removing, Started, At, TypeOK
    <3>2. Inst(task[a].group, a) \in Nat
      BY <1>1, <3>1, InstType, ActorsAssumption
    <3> QED
      BY <3>1, <3>2
  <2> QED
    BY <2>1, <2>2
<1> QED
  BY <1>1, <1>2, <1>3, <1>4, SpecType, InstType DEF KeyOfTask, NewStatus, Instances, Inst

\* Every step of a reconciliation keeps the types.
LEMMA TaskStepType ==
    ASSUME GroupsInv, NEW a \in Actor, Start(a) \/ Locking(a) \/ Step(a)
    PROVE  TypeOK'
<1> DEFINE t == task[a]
           g == task[a].group
<1>i. TypeOK /\ ActorInv(a)
  BY DEF GroupsInv
<1>f. /\ t \in Task
      /\ ~At(a, "idle") => /\ t.obj \in K!Object /\ KeyOfTask(a) \in Key
                           /\ t.obj.spec.replicas \in 0..MaxReplicas
                           /\ t.obj.spec.image \in Image /\ NewStatus(a) \in ActorStatus
      /\ Pending(a) \/ Removing(a) => /\ g \in GroupId /\ Instances(a) = Inst(g, a)
                                      /\ Inst(g, a) \in 0..MaxRunning
                                      /\ Inst(g, a) + Started(a) <= running[a]
  BY TaskFacts
<1>r. running \in [Actor -> 0..MaxRunning] /\ running[a] \in 0..MaxRunning /\ MaxRunning \in Nat
      /\ MaxReplicas \in Nat
  BY <1>i, ActorsAssumption DEF TypeOK
<1>z. 0 \in 0..MaxReplicas /\ NoGroup \in GroupId \cup {NoGroup}
  BY <1>r
<1>w. {"scale", "subscribe", "patch", "rmMember", "count", "countProviders", "release"} \subseteq Pcs
  BY DEF Pcs
<1>a. api[a] # NoObject => api[a] \in K!Object
  BY <1>i DEF TypeOK, K!KubeTypeOK
<1>p. elsewhere' = elsewhere
  BY DEF Start, Locking, Step, Ignore, StartFinalize, StartApply, StartCleanup, Begin, AddFinalizer, Fetch,
     CheckKey, TakeGroup, Scale, Subscribe, SubscribeFail, PatchStatus, RemoveLock, RemoveMember,
     RemoveGroup, RemoveName, Stats, CountGroup, CountProviders, HostPatch, Release
<1>q. elsewhere' \subseteq TakenElsewhere
  BY <1>i, <1>p DEF TypeOK
<1> USE DEF At
<1>0. CASE Ignore(a)
  BY <1>0, <1>i, <1>q DEF Ignore, TypeOK, K!KubeTypeOK, host, locks, bounds
<1>1. CASE StartFinalize(a)
  BY <1>1, <1>i, BeginType DEF StartFinalize, Pcs
<1>2. CASE StartApply(a)
  BY <1>2, <1>i, BeginType DEF StartApply, Pcs
<1>3. CASE StartCleanup(a)
  BY <1>3, <1>i, BeginType DEF StartCleanup, Pcs
<1>4. CASE AddFinalizer(a)
  <2>1. task' \in [Actor -> Task]
    BY <1>4, <1>i, DoneType DEF AddFinalizer, Requeue
  <2>2. api' \in [Actor -> K!Object \cup {NoObject}]
    BY <1>4, <1>i, <1>a, PatchType DEF AddFinalizer, K!CanAddFinalizer, K!AddFinalizer, TypeOK, K!KubeTypeOK
  <2> QED
    BY <1>4, <1>i, <1>q, <2>1, <2>2 DEF AddFinalizer, Requeue, TypeOK, K!KubeTypeOK, host, locks, bounds
<1>5. CASE Fetch(a)
  <2>1. task' \in [Actor -> Task]
    BY <1>5, <1>i, GotoType DEF Fetch, Pcs
  <2> QED
    BY <1>5, <1>i, <1>q, <2>1, FailType DEF Fetch, TypeOK, K!KubeTypeOK, kube, host, locks, bounds
<1>6. CASE CheckKey(a)
  <2>1. task' \in [Actor -> Task]
    BY <1>6, <1>i, GotoType DEF CheckKey, Pcs
  <2> QED
    BY <1>6, <1>i, <1>f, <1>q, <2>1 DEF CheckKey, TypeOK, K!KubeTypeOK, kube, locks, bounds
<1>7. CASE TakeGroup(a)
  <2>1. PICK h \in GroupId : /\ task' = [task EXCEPT ![a].pc = "scale", ![a].group = h]
                             /\ actors' = actors \/ actors' = [actors EXCEPT ![KeyOfTask(a)] = h]
    BY <1>7, <1>i, <1>f DEF TakeGroup, TypeOK
  <2>2. task' \in [Actor -> Task]
    <3>1. [t EXCEPT !.pc = "scale", !.group = h] \in Task
      BY <1>f, TaskWith DEF Pcs
    <3> QED
      BY <2>1, <3>1, <1>i, TaskUpdate DEF TypeOK
  <2>3. actors' \in [Key -> GroupId \cup {NoGroup}]
    BY <2>1, <1>i DEF TypeOK
  <2> QED
    BY <1>7, <1>i, <1>q, <2>2, <2>3 DEF TakeGroup, TypeOK, K!KubeTypeOK, kube, locks, bounds
<1>8. CASE Scale(a)
  <2>0. g \in GroupId /\ Pending(a)
    BY <1>8, <1>f DEF Scale, Pending
  <2>1. CASE /\ t.obj.spec.replicas > Instances(a)
             /\ groupLock' = [groupLock EXCEPT ![g] = a]
             /\ task' = [task EXCEPT ![a].pc = "subscribe", ![a].left = t.obj.spec.replicas - Instances(a),
                                     ![a].started = 0]
             /\ UNCHANGED <<members, running>>
    <3>1. t.obj.spec.replicas - Instances(a) \in 0..MaxReplicas
      BY <1>8, <1>f, <1>r, <2>0, <2>1 DEF Scale
    <3>2. task' \in [Actor -> Task]
      <4>1. [t EXCEPT !.pc = "subscribe", !.left = t.obj.spec.replicas - Instances(a), !.started = 0] \in Task
        BY <3>1, <1>f, <1>z, <1>w, TaskWith
      <4> QED
        BY <2>1, <4>1, <1>i, TaskUpdate DEF TypeOK
    <3> QED
      BY <1>8, <1>i, <1>q, <2>0, <2>1, <3>2 DEF Scale, TypeOK, K!KubeTypeOK, kube, bounds
  <2>2. CASE Goto(a, "patch") /\ UNCHANGED <<groupLock, members, running>>
    <3>1. task' \in [Actor -> Task]
      BY <2>2, <1>i, GotoType DEF Pcs
    <3> QED
      BY <1>8, <1>i, <1>q, <2>2, <3>1 DEF Scale, TypeOK, K!KubeTypeOK, kube, bounds
  <2>3. CASE /\ t.obj.spec.replicas < Instances(a)
             /\ members' = [members EXCEPT ![g][a].instances = t.obj.spec.replicas]
             /\ running' = [running EXCEPT ![a] = @ - (Instances(a) - t.obj.spec.replicas)]
             /\ Goto(a, "patch")
             /\ UNCHANGED groupLock
    <3>1. task' \in [Actor -> Task]
      BY <2>3, <1>i, GotoType DEF Pcs
    <3>2. members[g][a] \in Entry /\ t.obj.spec.replicas \in 0..MaxRunning
      BY <1>8, <1>f, <1>i, <1>r, <2>0, <2>3, InstType DEF Scale, Inst
    <3>3. [members[g][a] EXCEPT !.instances = t.obj.spec.replicas] \in Entry
      BY <3>2 DEF Entry
    <3>4. members' \in [GroupId -> [Actor -> Entry \cup {NoEntry}]]
      BY <2>0, <2>3, <3>3, <1>i DEF TypeOK
    <3>5. Started(a) = 0
      BY <1>8 DEF Scale, Started
    <3>6. running[a] - (Instances(a) - t.obj.spec.replicas) \in 0..MaxRunning
      BY <1>8, <1>f, <1>r, <2>0, <2>3, <3>5 DEF Scale
    <3>7. running' \in [Actor -> 0..MaxRunning]
      BY <2>3, <3>6, <1>r
    <3> QED
      BY <1>8, <1>i, <1>q, <2>3, <3>1, <3>4, <3>7 DEF Scale, TypeOK, K!KubeTypeOK, kube, bounds
  <2> QED
    BY <1>8, <2>1, <2>2, <2>3 DEF Scale
<1>9. CASE Subscribe(a)
  <2>0. g \in GroupId /\ Pending(a) /\ Started(a) = t.started /\ t.started \in 0..MaxReplicas
        /\ t.left \in 0..MaxReplicas
    BY <1>9, <1>f DEF Subscribe, Pending, Started, Task
  <2>1. running' \in [Actor -> 0..MaxRunning]
    BY <1>9, <1>r DEF Subscribe
  <2>2. CASE Joined(a)
    <3>1. Instances(a) + t.started + 1 \in 0..MaxRunning
      BY <1>9, <1>f, <1>r, <2>0 DEF Subscribe
    <3>2. (IF members[g][a] = NoEntry THEN t.obj.spec.image ELSE members[g][a].image) \in Image
      BY <1>9, <1>f, <1>i, <2>0, InstType DEF Subscribe, Entry
    <3>3. members' \in [GroupId -> [Actor -> Entry \cup {NoEntry}]]
      BY <2>0, <2>2, <3>1, <3>2, <1>i DEF Joined, Entry, TypeOK
    <3>4. task' \in [Actor -> Task]
      <4>1. [t EXCEPT !.pc = "patch", !.left = 0, !.started = 0] \in Task
        BY <1>f, <1>z, <1>w, TaskWith
      <4> QED
        BY <2>2, <4>1, <1>i, TaskUpdate DEF Joined, TypeOK
    <3> QED
      BY <1>9, <1>i, <1>q, <2>0, <2>1, <2>2, <3>3, <3>4 DEF Subscribe, Joined, TypeOK, K!KubeTypeOK, kube, bounds
  <2>3. CASE /\ t.left > 1
             /\ task' = [task EXCEPT ![a].left = @ - 1, ![a].started = @ + 1]
             /\ UNCHANGED <<members, groupLock>>
    <3>1. t.started + 1 \in 0..MaxReplicas /\ t.left - 1 \in 0..MaxReplicas
      <4>1. Inst(g, a) + t.started + t.left = t.obj.spec.replicas /\ t.left > 0
        BY <1>9, <1>i DEF Subscribe, ActorInv, Subscribing
      <4> QED
        BY <1>9, <1>f, <1>r, <2>0, <2>3, <4>1 DEF Subscribe
    <3>2. task' \in [Actor -> Task]
      <4>1. [t EXCEPT !.left = @ - 1, !.started = @ + 1] \in Task
        BY <3>1, <1>f DEF Task
      <4> QED
        BY <2>3, <4>1, <1>i, TaskUpdate DEF TypeOK
    <3> QED
      BY <1>9, <1>i, <1>q, <2>1, <2>3, <3>2 DEF Subscribe, TypeOK, K!KubeTypeOK, kube, bounds
  <2> QED
    BY <1>9, <2>2, <2>3 DEF Subscribe
<1>10. CASE SubscribeFail(a)
  <2>1. task' \in [Actor -> Task]
    BY <1>10, <1>i, GotoType DEF SubscribeFail, Pcs
  <2> QED
    BY <1>10, <1>i, <1>q, <2>1, FailType DEF SubscribeFail, TypeOK, K!KubeTypeOK, kube, host
<1>11. CASE PatchStatus(a)
  <2>1. task' \in [Actor -> Task]
    BY <1>11, <1>i, GotoType DEF PatchStatus, Pcs
  <2>2. api' \in [Actor -> K!Object \cup {NoObject}]
    BY <1>11, <1>i, <1>a, <1>f, PatchType DEF PatchStatus, K!CanPatchStatus, K!WriteStatus, TypeOK, K!KubeTypeOK
  <2> QED
    BY <1>11, <1>i, <1>q, <2>1, <2>2, FailType DEF PatchStatus, TypeOK, K!KubeTypeOK, host, locks
<1>12. CASE RemoveLock(a)
  <2>1. task' \in [Actor -> Task]
    <3>1. CASE \E pc \in Pcs : Goto(a, pc)
      BY <3>1, <1>i, GotoType
    <3>2. CASE actorKeys[a] # NoKey /\ task' = [task EXCEPT ![a].pc = "rmMember", ![a].group = actors[actorKeys[a]]]
      <4>1. actors[actorKeys[a]] \in GroupId \cup {NoGroup}
        BY <3>2, <1>i DEF TypeOK
      <4>2. [t EXCEPT !.pc = "rmMember", !.group = actors[actorKeys[a]]] \in Task
        BY <4>1, <1>f, TaskWith DEF Pcs
      <4> QED
        BY <3>2, <4>2, <1>i, TaskUpdate DEF TypeOK
    <3> QED
      BY <1>12, <3>1, <3>2 DEF RemoveLock, Pcs
  <2> QED
    BY <1>12, <1>i, <1>q, <2>1 DEF RemoveLock, TypeOK, K!KubeTypeOK, kube, host, bounds
<1>13. CASE RemoveMember(a)
  <2>0. g \in GroupId /\ Removing(a) /\ Started(a) = 0
    BY <1>13, <1>f DEF RemoveMember, Removing, Started
  <2>1. task' \in [Actor -> Task]
    BY <1>13, <1>i, GotoType DEF RemoveMember, Pcs
  <2>2. running' \in [Actor -> 0..MaxRunning]
    BY <1>13, <1>f, <1>r, <2>0 DEF RemoveMember
  <2>3. members' \in [GroupId -> [Actor -> Entry \cup {NoEntry}]]
    BY <1>13, <1>i, <2>0 DEF RemoveMember, TypeOK
  <2> QED
    BY <1>13, <1>i, <1>q, <2>1, <2>2, <2>3 DEF RemoveMember, TypeOK, K!KubeTypeOK, kube, locks, bounds
<1>14. CASE RemoveGroup(a)
  <2>1. task' \in [Actor -> Task]
    BY <1>14, <1>i, GotoType DEF RemoveGroup, Pcs
  <2> QED
    BY <1>14, <1>i, <1>q, <2>1 DEF RemoveGroup, TypeOK, K!KubeTypeOK, kube, bounds
<1>15. CASE RemoveName(a)
  <2>1. task' \in [Actor -> Task]
    BY <1>15, <1>i, GotoType DEF RemoveName, Pcs
  <2> QED
    BY <1>15, <1>i, <1>q, <2>1 DEF RemoveName, TypeOK, K!KubeTypeOK, kube, locks, bounds
<1>16. CASE Stats(a)
  <2>1. [NoCounts EXCEPT !.groups = Cardinality(GroupKeys)] \in Counts /\ GroupKeys \in SUBSET Key
    BY IdleType, CountType DEF Counts, GroupKeys
  <2>2. [t EXCEPT !.pc = IF GroupKeys = {} THEN "countProviders" ELSE "count",
                  !.group = NoGroup, !.left = 0, !.started = 0, !.todo = GroupKeys,
                  !.counts = [NoCounts EXCEPT !.groups = Cardinality(GroupKeys)]] \in Task
    BY <1>f, <1>z, <1>w, <2>1, TaskWith
  <2>3. task' \in [Actor -> Task]
    BY <1>16, <1>i, <2>2, TaskUpdate DEF Stats, TypeOK
  <2> QED
    BY <1>16, <1>i, <1>q, <2>3 DEF Stats, TypeOK, K!KubeTypeOK, kube, host, locks, bounds
<1>17. ASSUME NEW k \in Key, CountGroup(a, k) PROVE TypeOK'
  <2>1. [t.counts EXCEPT !.instances = @ + Cardinality(InstancesIn(k))] \in Counts
    BY <1>f, CountType DEF Counts, Task
  <2>2. [t EXCEPT !.pc = IF t.todo = {k} THEN "countProviders" ELSE "count", !.todo = @ \ {k},
                  !.counts = [t.counts EXCEPT !.instances = @ + Cardinality(InstancesIn(k))]] \in Task
    <3>1. t.todo \ {k} \in SUBSET Key
      BY <1>f DEF Task
    <3> QED
      BY <1>f, <2>1, <3>1, TaskWith DEF Pcs
  <2>3. task' \in [Actor -> Task]
    <3>1. task' = [task EXCEPT ![a] = [t EXCEPT !.pc = IF t.todo = {k} THEN "countProviders" ELSE "count",
                                                !.todo = @ \ {k}, !.counts.instances = @ + Cardinality(InstancesIn(k))]]
      BY <1>17 DEF CountGroup
    <3> QED
      BY <1>i, <2>2, <3>1, TaskUpdate DEF TypeOK
  <2> QED
    BY <1>17, <1>i, <1>q, <2>3 DEF CountGroup, TypeOK, K!KubeTypeOK, kube, host, locks, bounds
<1>18. CASE CountProviders(a)
  <2>1. task' \in [Actor -> Task]
    BY <1>18, <1>i, GotoType DEF CountProviders, Pcs
  <2> QED
    BY <1>18, <1>i, <1>q, <2>1 DEF CountProviders, TypeOK, K!KubeTypeOK, kube, host, locks, bounds
<1>19. CASE HostPatch(a)
  <2>1. [t EXCEPT !.pc = "release", !.counts = NoCounts] \in Task
    BY <1>f, IdleType, TaskWith DEF Pcs
  <2>2. task' \in [Actor -> Task]
    BY <1>19, <1>i, <2>1, IdleType DEF HostPatch, TypeOK
  <2>3. t.counts \in Counts
    BY <1>f DEF Task
  <2> QED
    BY <1>19, <1>i, <1>q, <2>2, <2>3, FailType DEF HostPatch, TypeOK, K!KubeTypeOK, kube, host, locks, bounds
<1>20. CASE Release(a)
  <2>1. task' \in [Actor -> Task]
    BY <1>20, <1>i, DoneType DEF Release, Requeue
  <2>2. api' \in [Actor -> K!Object \cup {NoObject}]
    BY <1>20, <1>i, <1>a, PatchType DEF Release, K!CanRemoveFinalizer, K!RemoveFinalizer, TypeOK, K!KubeTypeOK
  <2> QED
    BY <1>20, <1>i, <1>q, <2>1, <2>2 DEF Release, Requeue, TypeOK, K!KubeTypeOK, host, locks, bounds
<1> QED
  BY <1>0, <1>1, <1>2, <1>3, <1>4, <1>5, <1>6, <1>7, <1>8, <1>9, <1>10, <1>11, <1>12, <1>13, <1>14, <1>15,
     <1>16, <1>17, <1>18, <1>19, <1>20
     DEF Start, Locking, Step

\* The world keeps the types.
LEMMA WorldType ==
    ASSUME TypeOK, World
    PROVE  TypeOK'
<1>s. \A a \in Actor : Specs[a] \subseteq ActorSpec
  BY ActorsAssumption
<1>e. Edit => edits' \in 0..MaxEdits /\ failures' = failures /\ crashes' = crashes
  BY ActorsAssumption DEF Edit, TypeOK
<1>p. (\/ \E a \in Actor : \/ \E s \in Specs[a] : Create(a, s) \/ Update(a, s)
                           \/ Delete(a) \/ Watch(a) \/ Resync(a))
      => elsewhere' \subseteq TakenElsewhere
  BY DEF TypeOK, Create, Update, Delete, Watch, Resync, local
<1>1. ASSUME NEW a \in Actor, NEW s \in Specs[a], Create(a, s) PROVE TypeOK'
  BY <1>1, <1>s, <1>e, <1>p
     DEF Create, K!Create, K!Object, TypeOK, K!KubeTypeOK, local, host, locks, bounds
<1>2. ASSUME NEW a \in Actor, NEW s \in Specs[a], Update(a, s) PROVE TypeOK'
  <2>1. api' \in [Actor -> K!Object \cup {NoObject}]
    BY <1>2, <1>s, PatchType DEF Update, K!Update, TypeOK, K!KubeTypeOK
  <2> QED
    BY <1>2, <2>1, <1>e, <1>p DEF Update, K!Update, TypeOK, K!KubeTypeOK, local, host, locks, bounds
<1>3. ASSUME NEW a \in Actor, Delete(a) PROVE TypeOK'
  BY <1>3, <1>e, <1>p, PatchType DEF Delete, K!Delete, TypeOK, K!KubeTypeOK, local, host, locks, bounds
<1>4. ASSUME NEW a \in Actor, Watch(a) PROVE TypeOK'
  BY <1>4, <1>p DEF Watch, K!Watch, TypeOK, K!KubeTypeOK, local, host, locks, bounds
<1>5. ASSUME NEW a \in Actor, Resync(a) PROVE TypeOK'
  BY <1>5, <1>p DEF Resync, K!Resync, TypeOK, K!KubeTypeOK, local, host, locks, bounds
<1>6. ASSUME NEW x \in HostLock, LockElsewhere(x) \/ UnlockElsewhere(x) PROVE TypeOK'
  <2>1. elsewhere' \subseteq TakenElsewhere
    BY <1>6 DEF TypeOK, LockElsewhere, UnlockElsewhere
  <2> QED
    BY <1>6, <2>1 DEF LockElsewhere, UnlockElsewhere, TypeOK, K!KubeTypeOK, kube, host, locks, bounds
<1>7. CASE Crash
  <2>1. elsewhere' \subseteq TakenElsewhere
    BY <1>7 DEF Crash
  <2>2. members' \in [GroupId -> [Actor -> Entry \cup {NoEntry}]]
    BY <1>7 DEF Crash, NoMembers
  <2> QED
    BY <1>7, <2>1, <2>2, IdleType, ActorsAssumption
       DEF Crash, TypeOK, K!KubeTypeOK, NoTasks, NoKeys, NoGroups, NoGroupLocks, NoneRunning
<1> QED
  BY <1>1, <1>2, <1>3, <1>4, <1>5, <1>6, <1>7 DEF World

----------------------------------------------------------------------------
(***************************************************************************)
(* The groups.                                                             *)
(***************************************************************************)

\* A task changes nothing of the other actors.
LEMMA StepLeavesOthers ==
    ASSUME GroupsInv, NEW a \in Actor, Start(a) \/ Locking(a) \/ Step(a)
    PROVE  Others(a)
<1>t. TypeOK
  BY DEF GroupsInv
<1>k. task \in [Actor -> Task] /\ actorKeys \in [Actor -> Key \cup {NoKey}]
      /\ running \in [Actor -> 0..MaxRunning] /\ members \in [GroupId -> [Actor -> Entry \cup {NoEntry}]]
  BY <1>t DEF TypeOK
<1> DEFINE g == task[a].group
<1>1. \E t : task' = [task EXCEPT ![a] = t]
  <2>1. CASE Ignore(a)
    <3>1. task' = [task EXCEPT ![a] = task[a]]
      BY <2>1, <1>k DEF Ignore
    <3> QED
      BY <3>1
  <2>2. CASE StartFinalize(a) \/ StartApply(a) \/ StartCleanup(a)
    BY <2>2 DEF StartFinalize, StartApply, StartCleanup, Begin
  <2>3. CASE Step(a)
    BY <2>3 DEF Step, AddFinalizer, Fetch, CheckKey, Subscribe, SubscribeFail, PatchStatus, RemoveName,
       HostPatch, Release, Requeue, Done, Goto, Joined
  <2>4. CASE Locking(a)
    BY <2>4 DEF Locking, TakeGroup, Scale, RemoveLock, RemoveMember, RemoveGroup, Stats, CountGroup,
       CountProviders, Goto
  <2> QED
    BY <2>1, <2>2, <2>3, <2>4 DEF Start
<1>2. actorKeys' = actorKeys \/ \E k : actorKeys' = [actorKeys EXCEPT ![a] = k]
  BY DEF Start, Locking, Step, Ignore, StartFinalize, StartApply, StartCleanup, Begin, AddFinalizer, Fetch,
     CheckKey, TakeGroup, Scale, Subscribe, SubscribeFail, PatchStatus, RemoveLock, RemoveMember,
     RemoveGroup, RemoveName, Stats, CountGroup, CountProviders, HostPatch, Release, host
<1>3. running' = running \/ \E n : running' = [running EXCEPT ![a] = n]
  BY DEF Start, Locking, Step, Ignore, StartFinalize, StartApply, StartCleanup, Begin, AddFinalizer, Fetch,
     CheckKey, TakeGroup, Scale, Subscribe, SubscribeFail, PatchStatus, RemoveLock, RemoveMember,
     RemoveGroup, RemoveName, Stats, CountGroup, CountProviders, HostPatch, Release, host
<1>4. members' = members \/ \E e : members' = [members EXCEPT ![g][a] = e]
  BY DEF Start, Locking, Step, Ignore, StartFinalize, StartApply, StartCleanup, Begin, AddFinalizer, Fetch,
     CheckKey, TakeGroup, Scale, Subscribe, Joined, SubscribeFail, PatchStatus, RemoveLock, RemoveMember,
     RemoveGroup, RemoveName, Stats, CountGroup, CountProviders, HostPatch, Release, host
<1> SUFFICES ASSUME NEW b \in Actor, b # a
             PROVE  /\ task'[b] = task[b] /\ actorKeys'[b] = actorKeys[b] /\ running'[b] = running[b]
                    /\ \A h \in GroupId : members'[h][b] = members[h][b]
  BY DEF Others
<1>5. task'[b] = task[b]
  BY <1>1, <1>k
<1>6. actorKeys'[b] = actorKeys[b] /\ running'[b] = running[b]
  BY <1>2, <1>3, <1>k
<1>7. ASSUME NEW h \in GroupId PROVE members'[h][b] = members[h][b]
  <2>1. CASE members' = members
    BY <2>1
  <2>2. CASE \E e : members' = [members EXCEPT ![g][a] = e]
    <3>1. PICK e : members' = [members EXCEPT ![g][a] = e]
      BY <2>2
    <3>2. members'[h] = IF h = g THEN [members[h] EXCEPT ![a] = e] ELSE members[h]
      BY <3>1, <1>k
    <3>3. members[h] \in [Actor -> Entry \cup {NoEntry}]
      BY <1>k
    <3> QED
      BY <3>2, <3>3
  <2> QED
    BY <1>4, <2>1, <2>2
<1> QED
  BY <1>5, <1>6, <1>7

\* How host.actors and its lock may change in a step of the task of a.
SameGroups(a) ==
    /\ actors' = actors
    /\ \/ actorsLock' = actorsLock
       \/ HostActorsFree /\ actorsLock' = a
       \/ actorsLock = a /\ actorsLock' = Free

NewGroup(a) ==
    /\ HostActorsFree /\ actorsLock' = actorsLock
    /\ \E k \in Key, g \in GroupId :
          /\ actors[k] = NoGroup /\ Fresh(g)
          /\ actors' = [actors EXCEPT ![k] = g]

DropGroup(a) ==
    /\ actorsLock = a /\ actorsLock' = Free
    /\ \E k \in GroupKeys :
          /\ \A b \in Actor : members[actors[k]][b] = NoEntry
          /\ actors' = [actors EXCEPT ![k] = NoGroup]

\* A step that leaves host.actors alone, up to its lock, keeps the other actors' invariant.
LEMMA OthersKeepGroups ==
    ASSUME GroupsInv, NEW a \in Actor, NEW b \in Actor, b # a, Others(a), SameGroups(a)
    PROVE  ActorInv(b)'
<1>1. TypeOK /\ ActorInv(b)
  BY DEF GroupsInv
<1>2. /\ task'[b] = task[b] /\ actorKeys'[b] = actorKeys[b] /\ running'[b] = running[b]
      /\ \A g \in GroupId : members'[g][b] = members[g][b] /\ Inst(g, b)' = Inst(g, b)
  BY DEF Others, Inst
<1>3. /\ actors' = actors /\ GroupKeys' = GroupKeys /\ \A k \in GroupKeys : actors[k] \in GroupId
      /\ KeyOfTask(b)' = KeyOfTask(b) /\ Started(b)' = Started(b)
  BY <1>1, <1>2 DEF SameGroups, GroupKeys, TypeOK, KeyOfTask, Started, At
<1>4. Removing(b) => actorsLock' = b
  BY <1>1, ActorsAssumption DEF SameGroups, HostActorsFree, ActorInv
<1>5. Counting(b) => actorsLock' = Free
  BY <1>1, ActorsAssumption DEF SameGroups, HostActorsFree, ActorInv
<1>6. NoMember(b)' <=> NoMember(b)
  BY <1>2, <1>3 DEF NoMember
<1>7. Pending(b) => Took(b)'
  <2> SUFFICES ASSUME Pending(b) PROVE Took(b)'
    OBVIOUS
  <2>1. Took(b)
    BY <1>1 DEF ActorInv
  <2>2. Inst(task[b].group, b)' + Started(b)' <= running'[b] /\ task'[b].group \in GroupId
    BY <1>2, <1>3, <2>1 DEF Took
  <2> QED
    BY <1>2, <1>3, <1>6, <2>1, <2>2 DEF Took
<1>8. At(b, "subscribe") => Subscribing(b)'
  BY <1>1, <1>2, <1>3 DEF ActorInv, Subscribing, Pending, Took, At
<1>9. Removing(b) => task[b].group \in GroupId
  BY <1>1, <1>3 DEF ActorInv
<1> QED
  BY <1>1, <1>2, <1>3, <1>4, <1>5, <1>6, <1>7, <1>8, <1>9 DEF ActorInv, At, Pending, Removing, Counting

\* A new group keeps the other actors' invariant: nobody is in it.
LEMMA OthersKeepNewGroup ==
    ASSUME GroupsInv, NEW a \in Actor, NEW b \in Actor, b # a, Others(a), NewGroup(a)
    PROVE  ActorInv(b)'
<1>1. TypeOK /\ ActorInv(b)
  BY DEF GroupsInv
<1>2. /\ task'[b] = task[b] /\ actorKeys'[b] = actorKeys[b] /\ running'[b] = running[b]
      /\ \A g \in GroupId : members'[g][b] = members[g][b] /\ Inst(g, b)' = Inst(g, b)
  BY DEF Others, Inst
<1>3. PICK k \in Key, h \in GroupId : /\ actors[k] = NoGroup /\ Fresh(h)
                                     /\ actors' = [actors EXCEPT ![k] = h]
  BY DEF NewGroup
<1>4. /\ GroupKeys' = GroupKeys \cup {k} /\ k \notin GroupKeys /\ actors'[k] = h
      /\ \A l \in GroupKeys : actors'[l] = actors[l] /\ actors[l] \in GroupId
      /\ KeyOfTask(b)' = KeyOfTask(b) /\ Started(b)' = Started(b)
  BY <1>1, <1>2, <1>3, ActorsAssumption DEF GroupKeys, TypeOK, KeyOfTask, Started, At
<1>5. members[h][b] = NoEntry /\ Inst(h, b) = 0 /\ task[b].group # h /\ running[b] >= 0
  BY <1>1, <1>3, ActorsAssumption DEF Fresh, Inst, TypeOK
<1>6. ~Removing(b) /\ ~Counting(b)
  BY <1>1, ActorsAssumption DEF NewGroup, HostActorsFree, ActorInv
<1>7. NoMember(b)' <=> NoMember(b)
  BY <1>2, <1>4, <1>5 DEF NoMember
<1>8. Pending(b) => Took(b)'
  <2> SUFFICES ASSUME Pending(b) PROVE Took(b)'
    OBVIOUS
  <2>1. Took(b)
    BY <1>1 DEF ActorInv
  <2>2. Inst(task[b].group, b)' + Started(b)' <= running'[b] /\ task'[b].group \in GroupId
    BY <1>2, <1>4, <2>1 DEF Took
  <2>3. CASE task[b].group = actors[KeyOfTask(b)]
    <3>1. KeyOfTask(b) # k
      BY <1>3, <2>1, <2>3, ActorsAssumption DEF Took
    <3>2. ~At(b, "idle")
      BY DEF Pending, At
    <3>3. KeyOfTask(b) \in Key
      BY <3>2, TaskFacts
    <3>4. actors'[KeyOfTask(b)] = actors[KeyOfTask(b)]
      BY <1>1, <1>3, <3>1, <3>3 DEF TypeOK
    <3> QED
      BY <1>2, <1>4, <2>2, <2>3, <3>4 DEF Took
  <2>4. CASE NoMember(b) /\ \A l \in GroupKeys : actors[l] # task[b].group
    BY <1>2, <1>4, <1>5, <1>7, <2>2, <2>4 DEF Took
  <2> QED
    BY <2>1, <2>3, <2>4 DEF Took
<1>9. At(b, "subscribe") => Subscribing(b)'
  BY <1>1, <1>2, <1>4 DEF ActorInv, Subscribing, Pending, Took, At
<1>10. \A l \in GroupKeys' : members'[actors'[l]][b] # NoEntry => actorKeys'[b] = l
  BY <1>1, <1>2, <1>4, <1>5 DEF ActorInv
<1>11. \A l \in GroupKeys' : Inst(actors[l], b)' <= running'[b]
  BY <1>1, <1>2, <1>4, <1>5 DEF ActorInv
<1> QED
  BY <1>1, <1>2, <1>4, <1>6, <1>7, <1>8, <1>9, <1>10, <1>11 DEF ActorInv, At, Pending, Removing, Counting

\* Dropping a group without actors keeps the other actors' invariant; a task that has
\* taken this group goes on with it, and is the case for which Took has two.
LEMMA OthersKeepDroppedGroup ==
    ASSUME GroupsInv, NEW a \in Actor, NEW b \in Actor, b # a, Others(a), DropGroup(a)
    PROVE  ActorInv(b)'
<1>1. TypeOK /\ ActorInv(b) /\ OwnGroups
  BY DEF GroupsInv
<1>2. /\ task'[b] = task[b] /\ actorKeys'[b] = actorKeys[b] /\ running'[b] = running[b]
      /\ \A g \in GroupId : members'[g][b] = members[g][b] /\ Inst(g, b)' = Inst(g, b)
  BY DEF Others, Inst
<1>3. PICK k \in GroupKeys : /\ \A c \in Actor : members[actors[k]][c] = NoEntry
                            /\ actors' = [actors EXCEPT ![k] = NoGroup]
  BY DEF DropGroup
<1>4. /\ k \in Key /\ GroupKeys' = GroupKeys \ {k}
      /\ \A l \in GroupKeys : actors[l] \in GroupId
      /\ \A l \in Key : l # k => actors'[l] = actors[l]
      /\ KeyOfTask(b)' = KeyOfTask(b) /\ Started(b)' = Started(b)
  BY <1>1, <1>2, <1>3 DEF GroupKeys, TypeOK, KeyOfTask, Started, At
<1>6. ~Removing(b) /\ ~Counting(b)
  BY <1>1, ActorsAssumption DEF DropGroup, ActorInv
<1>7. NoMember(b) => NoMember(b)'
  BY <1>2, <1>4 DEF NoMember, GroupKeys
<1>8. Pending(b) => Took(b)'
  <2> SUFFICES ASSUME Pending(b) PROVE Took(b)'
    OBVIOUS
  <2>1. Took(b) /\ actorKeys[b] = KeyOfTask(b) /\ KeyOfTask(b) \in Key
    <3>1. ~At(b, "idle")
      BY DEF Pending, At
    <3> QED
      BY <1>1, <3>1, TaskFacts DEF ActorInv, Pending
  <2>2. Inst(task[b].group, b)' + Started(b)' <= running'[b] /\ task'[b].group \in GroupId
    BY <1>2, <1>4, <2>1 DEF Took
  <2>3. CASE task[b].group = actors[KeyOfTask(b)] /\ KeyOfTask(b) # k
    BY <1>2, <1>4, <2>1, <2>2, <2>3 DEF Took
  <2>4. CASE task[b].group = actors[KeyOfTask(b)] /\ KeyOfTask(b) = k
    <3>1. NoMember(b)'
      BY <1>1, <1>2, <1>3, <1>4, <2>1, <2>4 DEF NoMember, ActorInv, GroupKeys
    <3>2. \A l \in GroupKeys' : actors'[l] # task[b].group
      BY <1>1, <1>3, <1>4, <2>4 DEF OwnGroups, GroupKeys
    <3> QED
      BY <1>2, <2>2, <3>1, <3>2 DEF Took
  <2>5. CASE NoMember(b) /\ \A l \in GroupKeys : actors[l] # task[b].group
    <3>1. \A l \in GroupKeys' : actors'[l] # task[b].group
      BY <1>4, <2>5 DEF GroupKeys
    <3> QED
      BY <1>2, <1>7, <2>2, <2>5, <3>1 DEF Took
  <2> QED
    BY <2>1, <2>3, <2>4, <2>5 DEF Took
<1>9. At(b, "subscribe") => Subscribing(b)'
  BY <1>1, <1>2, <1>4 DEF ActorInv, Subscribing, Pending, Took, At
<1>10. \A l \in GroupKeys' : members'[actors'[l]][b] # NoEntry => actorKeys'[b] = l
  BY <1>1, <1>2, <1>4 DEF ActorInv, GroupKeys
<1>11. \A l \in GroupKeys' : Inst(actors[l], b)' <= running'[b]
  BY <1>1, <1>2, <1>4 DEF ActorInv, GroupKeys
<1> QED
  BY <1>1, <1>2, <1>4, <1>6, <1>7, <1>8, <1>9, <1>10, <1>11 DEF ActorInv, At, Pending, Removing, Counting

\* A step of a reconciliation changes host.actors in one of these ways.
LEMMA StepChangesGroups ==
    ASSUME GroupsInv, NEW a \in Actor, Start(a) \/ Locking(a) \/ Step(a)
    PROVE  SameGroups(a) \/ NewGroup(a) \/ DropGroup(a)
<1>1. CASE TakeGroup(a)
  <2>1. CASE actors' = actors
    BY <1>1, <2>1 DEF TakeGroup, SameGroups, locks
  <2>2. CASE /\ actors[KeyOfTask(a)] = NoGroup
             /\ \E g \in GroupId : Fresh(g)
             /\ actors' = [actors EXCEPT ![KeyOfTask(a)] = CHOOSE x \in GroupId : Fresh(x)]
    <3>1. KeyOfTask(a) \in Key
      BY <1>1, TaskFacts DEF TakeGroup, At
    <3>2. (CHOOSE x \in GroupId : Fresh(x)) \in GroupId /\ Fresh(CHOOSE x \in GroupId : Fresh(x))
      BY <2>2
    <3> QED
      BY <1>1, <2>2, <3>1, <3>2 DEF TakeGroup, NewGroup, locks
  <2> QED
    BY <1>1, <2>1, <2>2 DEF TakeGroup
<1>2. CASE RemoveGroup(a)
  <2>1. actorsLock = a /\ actorKeys[a] \in GroupKeys /\ task[a].group = actors[actorKeys[a]]
    BY <1>2 DEF GroupsInv, ActorInv, RemoveGroup, Removing, At
  <2> QED
    BY <1>2, <2>1 DEF RemoveGroup, SameGroups, DropGroup
<1>3. CASE RemoveLock(a)
  BY <1>3 DEF RemoveLock, SameGroups, host
<1> QED
  BY <1>1, <1>2, <1>3
     DEF Start, Locking, Step, Ignore, StartFinalize, StartApply, StartCleanup, Begin, AddFinalizer, Fetch,
         CheckKey, Scale, Subscribe, SubscribeFail, PatchStatus, RemoveMember, RemoveName, Stats, CountGroup,
         CountProviders, HostPatch, Release, SameGroups, host, locks

\* These steps keep keys and groups one to one.
LEMMA StepKeepsOwnGroups ==
    ASSUME GroupsInv, NEW a \in Actor, SameGroups(a) \/ NewGroup(a) \/ DropGroup(a)
    PROVE  OwnGroups'
<1>1. TypeOK /\ OwnGroups
  BY DEF GroupsInv
<1>2. CASE SameGroups(a)
  BY <1>1, <1>2 DEF SameGroups, OwnGroups, GroupKeys
<1>3. CASE NewGroup(a)
  BY <1>1, <1>3 DEF NewGroup, Fresh, OwnGroups, GroupKeys, TypeOK
<1>4. CASE DropGroup(a)
  BY <1>1, <1>4 DEF DropGroup, OwnGroups, GroupKeys, TypeOK
<1> QED
  BY <1>2, <1>3, <1>4

\* A task that is in none of the phases with a group, and leaves the tables alone.
LEMMA PlainStep ==
    ASSUME GroupsInv, NEW a \in Actor,
           task'[a].pc \in {"idle", "finalize", "fetch", "check", "rmLock", "stats", "hostPatch", "release"},
           task'[a].pc # "idle" => task'[a].obj # NoObject,
           UNCHANGED host
    PROVE  ActorInv(a)'
BY DEF GroupsInv, ActorInv, host, At, Pending, Removing, Counting, GroupKeys, Inst

\* What Goto and Done do to the task.
LEMMA GotoFrame ==
    ASSUME GroupsInv, NEW a \in Actor
    PROVE  /\ \A pc : Goto(a, pc) => task'[a] = [task[a] EXCEPT !.pc = pc] /\ task'[a].pc = pc
                                       /\ task'[a].obj = task[a].obj /\ task'[a].group = task[a].group
                                       /\ task'[a].started = task[a].started /\ task'[a].left = task[a].left
                                       /\ task'[a].todo = task[a].todo /\ task'[a].cleanup = task[a].cleanup
           /\ Done(a) => task'[a] = Idle /\ task'[a].pc = "idle"
           /\ ~At(a, "idle") => task[a].obj # NoObject
<1>1. task \in [Actor -> Task] /\ task[a] \in Task
  BY DEF GroupsInv, TypeOK
<1>2. ASSUME NEW pc, Goto(a, pc)
      PROVE  task'[a] = [task[a] EXCEPT !.pc = pc] /\ task'[a].pc = pc
                /\ task'[a].obj = task[a].obj /\ task'[a].group = task[a].group
                /\ task'[a].started = task[a].started /\ task'[a].left = task[a].left
                /\ task'[a].todo = task[a].todo /\ task'[a].cleanup = task[a].cleanup
  <2>1. task'[a] = [task[a] EXCEPT !.pc = pc]
    BY <1>1, <1>2 DEF Goto
  <2> QED
    BY <1>1, <2>1 DEF Task
<1>4. Done(a) => task'[a] = Idle /\ task'[a].pc = "idle"
  BY <1>1 DEF Done, Idle
<1>5. ~At(a, "idle") => task[a].obj # NoObject
  BY DEF GroupsInv, ActorInv
<1> QED
  BY <1>2, <1>4, <1>5

\* The steps of a reconciliation outside the tables keep its own invariant.
LEMMA PlainSteps ==
    ASSUME GroupsInv, NEW a \in Actor,
           Start(a) \/ AddFinalizer(a) \/ Fetch(a) \/ SubscribeFail(a) \/ PatchStatus(a)
             \/ CountProviders(a) \/ HostPatch(a) \/ Release(a)
    PROVE  ActorInv(a)'
<1> USE DEF At
<1>t. task \in [Actor -> Task] /\ task[a] \in Task
  BY DEF GroupsInv, TypeOK
<1>1. CASE Ignore(a)
  BY <1>1 DEF Ignore, GroupsInv, ActorInv, host, locks, Pending, Took, Subscribing, Removing, Counting, NoMember,
     GroupKeys, Inst, Started, KeyOfTask
<1>2. CASE \E pc \in {"finalize", "fetch", "rmLock"}, c \in BOOLEAN : Begin(a, pc, c)
  <2>1. PICK pc \in {"finalize", "fetch", "rmLock"}, c \in BOOLEAN : Begin(a, pc, c)
    BY <1>2
  <2>2. task'[a] = [Idle EXCEPT !.pc = pc, !.obj = store[a], !.cleanup = c] /\ store[a] # NoObject
    BY <1>t, <2>1 DEF Begin, Mine
  <2>3. task'[a].pc = pc /\ task'[a].obj = store[a]
    BY <2>2 DEF Idle
  <2> QED
    BY <2>1, <2>2, <2>3, PlainStep DEF Begin
<1>3. CASE AddFinalizer(a) \/ Release(a)
  BY <1>3, GotoFrame, PlainStep DEF AddFinalizer, Release, Requeue
<1>4. CASE PatchStatus(a) \/ CountProviders(a) \/ SubscribeFail(a)
  BY <1>4, GotoFrame, PlainStep DEF PatchStatus, CountProviders, SubscribeFail
<1>5. CASE Fetch(a)
  <2>1. task[a].obj # NoObject /\ UNCHANGED host
    BY <1>5, GotoFrame DEF Fetch
  <2>2. task'[a].pc \in {"check", "stats"} /\ task'[a].obj = task[a].obj
    BY <1>5, GotoFrame DEF Fetch
  <2> QED
    BY <2>1, <2>2, PlainStep
<1>6. CASE HostPatch(a)
  <2>1. task'[a] = IF task[a].cleanup THEN [task[a] EXCEPT !.pc = "release", !.counts = NoCounts] ELSE Idle
    BY <1>6, <1>t DEF HostPatch
  <2>2. LET t == [task[a] EXCEPT !.pc = "release", !.counts = NoCounts] IN
        t.pc = "release" /\ t.obj = task[a].obj
    BY <1>t DEF Task
  <2>3. Idle.pc = "idle" /\ task[a].obj # NoObject
    BY <1>6, GotoFrame DEF Idle, HostPatch
  <2> QED
    BY <1>6, <2>1, <2>2, <2>3, PlainStep DEF HostPatch
<1> QED
  BY <1>1, <1>2, <1>3, <1>4, <1>5, <1>6 DEF Start, StartFinalize, StartApply, StartCleanup

\* actor_keys: an actor without a key is in no group, so that any key will do.
LEMMA CheckKeyStep ==
    ASSUME GroupsInv, NEW a \in Actor, CheckKey(a)
    PROVE  ActorInv(a)'
<1>t. TypeOK /\ ActorInv(a) /\ task[a].obj # NoObject
  BY GotoFrame DEF GroupsInv, CheckKey, At
<1>u. UNCHANGED <<actors, members, running, actorsLock>>
  BY DEF CheckKey, locks
<1>1. CASE Goto(a, "stats") /\ UNCHANGED actorKeys
  BY <1>1, <1>t, GotoFrame, PlainStep DEF CheckKey, host
<1>2. CASE actorKeys[a] \in {NoKey, KeyOfTask(a)} /\ Goto(a, "group")
            /\ actorKeys' = [actorKeys EXCEPT ![a] = KeyOfTask(a)]
  <2>1. task'[a].pc = "group" /\ task'[a].obj = task[a].obj
    BY <1>2, GotoFrame
  <2>2. actorKeys'[a] = KeyOfTask(a) /\ KeyOfTask(a)' = KeyOfTask(a)
    BY <1>t, <1>2, <2>1 DEF TypeOK, KeyOfTask
  <2>3. \A k \in GroupKeys : members[actors[k]][a] # NoEntry => KeyOfTask(a) = k
    BY <1>t, <1>2, ActorsAssumption DEF ActorInv, GroupKeys
  <2>4. \A k \in GroupKeys : Inst(actors[k], a) <= running[a]
    BY <1>t DEF ActorInv
  <2> QED
    BY <1>u, <2>1, <2>2, <2>3, <2>4, <1>t DEF ActorInv, At, Pending, Removing, Counting, GroupKeys, Inst
<1> QED
  BY <1>1, <1>2 DEF CheckKey

\* host.actors.write(): the group taken is the one of the task's key.
LEMMA TakeGroupStep ==
    ASSUME GroupsInv, NEW a \in Actor, TakeGroup(a)
    PROVE  ActorInv(a)'
<1> DEFINE k == KeyOfTask(a)
<1>t. TypeOK /\ ActorInv(a) /\ task[a].obj # NoObject /\ k \in Key
  BY GotoFrame, TaskFacts DEF GroupsInv, TakeGroup, At
<1>u. UNCHANGED <<actorKeys, members, running>>
  BY DEF TakeGroup
<1>1. PICK g \in GroupId :
        /\ task' = [task EXCEPT ![a].pc = "scale", ![a].group = g]
        /\ \/ actors[k] = g /\ actors' = actors
           \/ actors[k] = NoGroup /\ Fresh(g) /\ actors' = [actors EXCEPT ![k] = g]
  <2>1. CASE actors[k] # NoGroup
    BY <2>1, <1>t DEF TakeGroup, TypeOK
  <2>2. CASE actors[k] = NoGroup
    <3>1. (CHOOSE x \in GroupId : Fresh(x)) \in GroupId /\ Fresh(CHOOSE x \in GroupId : Fresh(x))
      BY <2>2 DEF TakeGroup
    <3> QED
      BY <2>2, <3>1 DEF TakeGroup
  <2> QED
    BY <2>1, <2>2
<1>2. task'[a] = [task[a] EXCEPT !.pc = "scale", !.group = g]
  BY <1>1, <1>t DEF TypeOK
<1>3. task'[a].pc = "scale" /\ task'[a].group = g /\ task'[a].obj = task[a].obj
  BY <1>2, <1>t DEF TypeOK, Task
<1>4. KeyOfTask(a)' = k /\ actorKeys'[a] = k /\ Started(a)' = 0
  BY <1>3, <1>t, <1>u DEF KeyOfTask, ActorInv, TakeGroup, At, Started
<1>5. actors'[k] = g /\ k \in GroupKeys' /\ \A l \in GroupKeys' : l # k => l \in GroupKeys /\ actors'[l] = actors[l]
  BY <1>1, <1>t, ActorsAssumption DEF GroupKeys, TypeOK
<1>6. /\ members[g][a] # NoEntry => actorKeys[a] = k
      /\ Inst(g, a) <= running[a] /\ Inst(g, a) \in Nat /\ running[a] \in Nat
  <2>1. running[a] \in Nat /\ Inst(g, a) \in Nat
    BY <1>t, InstType, ActorsAssumption DEF TypeOK
  <2>2. CASE k \in GroupKeys /\ actors[k] = g
    BY <1>t, <2>1, <2>2 DEF ActorInv
  <2>3. CASE Fresh(g)
    BY <2>1, <2>3 DEF Fresh, Inst
  <2> QED
    BY <1>1, <1>t, <2>2, <2>3, ActorsAssumption DEF GroupKeys
<1>7. /\ \A l \in GroupKeys' : members'[actors'[l]][a] # NoEntry => actorKeys'[a] = l
      /\ \A l \in GroupKeys' : Inst(actors[l], a)' <= running'[a]
  BY <1>t, <1>u, <1>5, <1>6 DEF ActorInv, Inst
<1>8. Took(a)'
  BY <1>3, <1>4, <1>5, <1>6, <1>u DEF Took, Inst
<1> QED
  BY <1>3, <1>4, <1>7, <1>8, <1>t DEF ActorInv, At, Pending, Removing, Counting

\* The group a task works on is the only one of host.actors that may have its actor.
LEMMA OnlyGroup ==
    ASSUME GroupsInv, NEW a \in Actor, Pending(a) \/ Removing(a)
    PROVE  \A l \in GroupKeys : IF actors[l] = task[a].group THEN l = actorKeys[a]
                                                              ELSE members[actors[l]][a] = NoEntry
<1>1. TypeOK /\ OwnGroups /\ ActorInv(a)
  BY DEF GroupsInv
<1>2. CASE actorKeys[a] \in GroupKeys /\ task[a].group = actors[actorKeys[a]]
  BY <1>1, <1>2 DEF OwnGroups, ActorInv
<1>3. CASE Pending(a)
  <2>1. Took(a) /\ actorKeys[a] = KeyOfTask(a) /\ KeyOfTask(a) \in Key
    <3>1. ~At(a, "idle")
      BY <1>3 DEF Pending, At
    <3> QED
      BY <1>1, <1>3, <3>1, TaskFacts DEF ActorInv, Pending
  <2>2. CASE task[a].group = actors[KeyOfTask(a)]
    BY <1>2, <2>1, <2>2, ActorsAssumption DEF Took, GroupKeys
  <2>3. CASE NoMember(a) /\ \A k \in GroupKeys : actors[k] # task[a].group
    BY <2>3 DEF NoMember
  <2> QED
    BY <2>1, <2>2, <2>3 DEF Took
<1>4. CASE Removing(a)
  BY <1>1, <1>2, <1>4 DEF ActorInv
<1> QED
  BY <1>3, <1>4

\* Changing the actor's entry in that group, within what it has running, keeps the
\* part of its invariant that is about the tables.
LEMMA EntryStep ==
    ASSUME GroupsInv, NEW a \in Actor, Pending(a) \/ Removing(a),
           UNCHANGED <<actors, actorKeys>>,
           running'[a] \in Nat,
           Inst(task[a].group, a)' <= running'[a],
           task'[a].group = task[a].group,
           \A h \in GroupId : h # task[a].group => members'[h][a] = members[h][a]
    PROVE  /\ \A k \in GroupKeys' : members'[actors'[k]][a] # NoEntry => actorKeys'[a] = k
           /\ \A k \in GroupKeys' : Inst(actors[k], a)' <= running'[a]
<1>1. GroupKeys' = GroupKeys /\ \A k \in GroupKeys : actors[k] \in GroupId
  BY DEF GroupKeys, GroupsInv, TypeOK
<1> SUFFICES ASSUME NEW k \in GroupKeys
             PROVE  /\ members'[actors[k]][a] # NoEntry => actorKeys[a] = k
                    /\ Inst(actors[k], a)' <= running'[a]
  BY <1>1
<1>2. CASE actors[k] = task[a].group
  BY <1>2, OnlyGroup
<1>3. CASE actors[k] # task[a].group
  <2>1. members'[actors[k]][a] = NoEntry
    BY <1>1, <1>3, OnlyGroup
  <2> QED
    BY <2>1 DEF Inst
<1> QED
  BY <1>2, <1>3

\* group.actors.write() of reconcile_actor.
LEMMA ScaleStep ==
    ASSUME GroupsInv, NEW a \in Actor, Scale(a)
    PROVE  ActorInv(a)'
<1> DEFINE g == task[a].group
           wanted == task[a].obj.spec.replicas
<1>p. Pending(a) /\ At(a, "scale") /\ ~At(a, "idle")
  BY DEF Scale, Pending, At
<1>t. TypeOK /\ ActorInv(a) /\ task[a].obj # NoObject
  BY <1>p, GotoFrame DEF GroupsInv
<1>f. /\ g \in GroupId /\ Instances(a) = Inst(g, a) /\ Inst(g, a) \in Nat /\ wanted \in Nat
      /\ Inst(g, a) <= running[a] /\ running[a] \in Nat /\ actorKeys[a] = KeyOfTask(a) /\ Took(a)
  <2>1. Started(a) = 0
    BY <1>p DEF Started, At
  <2> QED
    BY <1>p, <1>t, <2>1, TaskFacts, ActorsAssumption DEF TypeOK, ActorInv, At
<1>u. UNCHANGED <<actorKeys, actors, actorsLock>>
  BY DEF Scale
<1>1. CASE /\ wanted > Instances(a)
           /\ task' = [task EXCEPT ![a].pc = "subscribe", ![a].left = wanted - Instances(a), ![a].started = 0]
           /\ UNCHANGED <<members, running>>
  <2>1. task'[a] = [task[a] EXCEPT !.pc = "subscribe", !.left = wanted - Instances(a), !.started = 0]
    BY <1>1, <1>t DEF TypeOK
  <2>2. /\ task'[a].pc = "subscribe" /\ task'[a].group = g /\ task'[a].obj = task[a].obj
        /\ task'[a].left = wanted - Instances(a) /\ task'[a].started = 0
    BY <2>1, <1>t DEF TypeOK, Task
  <2>3. /\ KeyOfTask(a)' = KeyOfTask(a) /\ Started(a)' = 0
        /\ \A h : Inst(h, a)' = Inst(h, a)
        /\ GroupKeys' = GroupKeys /\ (NoMember(a)' <=> NoMember(a))
    BY <2>2, <1>1, <1>u DEF KeyOfTask, Started, At, Inst, GroupKeys, NoMember
  <2>4. Took(a)'
    <3>1. Inst(g, a)' + Started(a)' <= running'[a]
      BY <1>f, <2>2, <2>3, <1>1
    <3> QED
      BY <1>f, <1>u, <2>2, <2>3, <3>1 DEF Took
  <2>5. Subscribing(a)'
    BY <1>1, <1>f, <2>2, <2>3 DEF Subscribing
  <2> QED
    BY <1>1, <1>t, <1>u, <1>f, <2>2, <2>3, <2>4, <2>5 DEF ActorInv, At, Pending, Removing, Counting
<1>2. CASE Goto(a, "patch") /\ Inst(g, a)' <= running'[a] /\ running'[a] \in Nat
           /\ \A h \in GroupId : h # g => members'[h][a] = members[h][a]
  <2>1. /\ task'[a].pc = "patch" /\ task'[a].group = g /\ task'[a].obj = task[a].obj
    BY <1>2, GotoFrame
  <2>2. KeyOfTask(a)' = KeyOfTask(a)
    BY <2>1 DEF KeyOfTask
  <2>3. /\ \A k \in GroupKeys' : members'[actors'[k]][a] # NoEntry => actorKeys'[a] = k
        /\ \A k \in GroupKeys' : Inst(actors[k], a)' <= running'[a]
    BY <1>2, <1>p, <1>u, <2>1, EntryStep
  <2> QED
    BY <1>t, <1>f, <1>u, <2>1, <2>2, <2>3 DEF ActorInv, At, Pending, Removing, Counting
<1>3. CASE Goto(a, "patch") /\ UNCHANGED <<members, running>>
  <2>1. Inst(g, a)' = Inst(g, a)
    BY <1>3, GotoFrame DEF Inst
  <2> QED
    BY <1>2, <1>3, <1>f, <2>1
<1>4. CASE /\ wanted < Instances(a)
           /\ members' = [members EXCEPT ![g][a].instances = wanted]
           /\ running' = [running EXCEPT ![a] = @ - (Instances(a) - wanted)]
           /\ Goto(a, "patch")
  <2>1. members[g][a] \in Entry /\ Entry = [image : Image, instances : 0..MaxRunning]
    BY <1>4, <1>f, <1>t, InstType DEF Inst, Entry
  <2>2. /\ members'[g][a] = [members[g][a] EXCEPT !.instances = wanted]
        /\ \A h \in GroupId : h # g => members'[h][a] = members[h][a]
    BY <1>4, <1>f, <1>t DEF TypeOK
  <2>3. members'[g][a].instances = wanted
    BY <2>1, <2>2
  <2>4. Inst(g, a)' \in {0, wanted}
    BY <2>3, <1>4, GotoFrame DEF Inst
  <2>5. running'[a] = running[a] - (Instances(a) - wanted)
    BY <1>4, <1>t DEF TypeOK
  <2> QED
    BY <1>2, <1>4, <1>f, <2>2, <2>4, <2>5
<1> QED
  BY <1>1, <1>3, <1>4 DEF Scale

\* One more subscription.
LEMMA SubscribeStep ==
    ASSUME GroupsInv, NEW a \in Actor, Subscribe(a)
    PROVE  ActorInv(a)'
<1> DEFINE g == task[a].group
<1>p. Pending(a) /\ At(a, "subscribe") /\ ~At(a, "idle")
  BY DEF Subscribe, Pending, At
<1>t. TypeOK /\ ActorInv(a) /\ task[a].obj # NoObject
  BY <1>p, GotoFrame DEF GroupsInv
<1>f. /\ g \in GroupId /\ Instances(a) = Inst(g, a) /\ Inst(g, a) \in Nat /\ task[a].started \in Nat
      /\ Inst(g, a) + task[a].started <= running[a] /\ running[a] \in Nat
      /\ actorKeys[a] = KeyOfTask(a) /\ Took(a) /\ Subscribing(a) /\ task[a].left \in Nat
  <2>1. Started(a) = task[a].started
    BY <1>p DEF Started, At
  <2> QED
    BY <1>p, <1>t, <2>1, TaskFacts, ActorsAssumption DEF TypeOK, ActorInv, At, Task
<1>u. UNCHANGED <<actorKeys, actors, actorsLock>> /\ running'[a] = running[a] + 1
  BY <1>t DEF Subscribe, TypeOK
<1>1. CASE Joined(a)
  <2>1. task'[a] = [task[a] EXCEPT !.pc = "patch", !.left = 0, !.started = 0]
    BY <1>1, <1>t DEF Joined, TypeOK
  <2>2. task'[a].pc = "patch" /\ task'[a].group = g /\ task'[a].obj = task[a].obj
    BY <2>1, <1>t DEF TypeOK, Task
  <2>3. /\ \E i : members'[g][a] = [image |-> i, instances |-> Instances(a) + task[a].started + 1]
        /\ \A h \in GroupId : h # g => members'[h][a] = members[h][a]
    BY <1>1, <1>f, <1>t DEF Joined, TypeOK
  <2>4. members'[g][a].instances = Inst(g, a) + task[a].started + 1
    BY <1>f, <2>3
  <2>5. Inst(g, a)' <= running'[a] /\ running'[a] \in Nat
    BY <1>f, <1>u, <2>2, <2>4 DEF Inst
  <2>6. /\ \A k \in GroupKeys' : members'[actors'[k]][a] # NoEntry => actorKeys'[a] = k
        /\ \A k \in GroupKeys' : Inst(actors[k], a)' <= running'[a]
    BY <1>p, <1>u, <2>2, <2>3, <2>5, EntryStep
  <2>7. KeyOfTask(a)' = KeyOfTask(a)
    BY <2>2 DEF KeyOfTask
  <2> QED
    BY <1>t, <1>f, <1>u, <2>2, <2>6, <2>7 DEF ActorInv, At, Pending, Removing, Counting
<1>2. CASE /\ task[a].left > 1
           /\ task' = [task EXCEPT ![a].left = @ - 1, ![a].started = @ + 1]
           /\ UNCHANGED members
  <2>1. task'[a] = [task[a] EXCEPT !.left = @ - 1, !.started = @ + 1]
    BY <1>2, <1>t DEF TypeOK
  <2>2. /\ task'[a].pc = "subscribe" /\ task'[a].group = g /\ task'[a].obj = task[a].obj
        /\ task'[a].left = task[a].left - 1 /\ task'[a].started = task[a].started + 1
    BY <2>1, <1>p, <1>t DEF TypeOK, Task, At
  <2>3. /\ KeyOfTask(a)' = KeyOfTask(a) /\ Started(a)' = task[a].started + 1
        /\ \A h : Inst(h, a)' = Inst(h, a)
        /\ GroupKeys' = GroupKeys /\ (NoMember(a)' <=> NoMember(a))
    BY <2>2, <1>2, <1>u DEF KeyOfTask, Started, At, Inst, GroupKeys, NoMember
  <2>4. Took(a)'
    <3>1. Inst(g, a)' + Started(a)' <= running'[a]
      BY <1>f, <2>2, <2>3, <1>u
    <3> QED
      BY <1>f, <1>u, <2>2, <2>3, <3>1 DEF Took
  <2>5. Subscribing(a)'
    <3>1. task[a].obj.spec.replicas = Inst(g, a) + task[a].started + task[a].left
      BY <1>f DEF Subscribing
    <3> QED
      BY <1>2, <1>f, <2>2, <2>3, <3>1 DEF Subscribing
  <2>6. \A k \in GroupKeys : Inst(actors[k], a)' <= running'[a]
    <3> SUFFICES ASSUME NEW k \in GroupKeys PROVE Inst(actors[k], a)' <= running'[a]
      OBVIOUS
    <3>1. actors[k] \in GroupId
      BY <1>t DEF TypeOK, GroupKeys
    <3>2. Inst(actors[k], a) <= running[a] /\ Inst(actors[k], a) \in Nat
      BY <3>1, <1>t, InstType, ActorsAssumption DEF ActorInv
    <3> QED
      BY <3>2, <2>3, <1>f, <1>u
  <2> QED
    BY <1>2, <1>t, <1>u, <1>f, <2>2, <2>3, <2>4, <2>5, <2>6 DEF ActorInv, At, Pending, Removing, Counting
<1> QED
  BY <1>1, <1>2 DEF Subscribe

\* remove_actor up to the end of its hold on host.actors, and its last step.
LEMMA RemoveSteps ==
    ASSUME GroupsInv, NEW a \in Actor,
           RemoveLock(a) \/ RemoveMember(a) \/ RemoveGroup(a) \/ RemoveName(a)
    PROVE  ActorInv(a)'
<1> DEFINE g == task[a].group
<1>t. TypeOK /\ ActorInv(a) /\ task[a].obj # NoObject /\ task[a] \in Task
  BY GotoFrame DEF GroupsInv, TypeOK, RemoveLock, RemoveMember, RemoveGroup, RemoveName, At
<1>g. \A k \in GroupKeys : actors[k] \in GroupId
  BY <1>t DEF TypeOK, GroupKeys
<1>1. CASE RemoveLock(a)
  <2>u. UNCHANGED host
    BY <1>1 DEF RemoveLock
  <2>1. CASE Goto(a, "stats")
    BY <2>1, <2>u, <1>t, GotoFrame, PlainStep
  <2>2. CASE actorKeys[a] # NoKey /\ actors[actorKeys[a]] = NoGroup /\ Goto(a, "rmName")
    <3>1. NoMember(a)
      BY <2>2, <1>t DEF NoMember, ActorInv, GroupKeys
    <3>2. NoMember(a)' /\ GroupKeys' = GroupKeys
      BY <2>u, <3>1 DEF NoMember, GroupKeys, host
    <3>3. task'[a].pc = "rmName" /\ task'[a].obj = task[a].obj
      BY <2>2, <1>t, GotoFrame
    <3>4. \A k \in GroupKeys' : Inst(actors[k], a)' <= running'[a]
      BY <2>u, <3>2, <1>t DEF ActorInv, host, Inst
    <3> QED
      BY <3>2, <3>3, <3>4, <1>t DEF ActorInv, NoMember, At, Pending, Removing, Counting
  <2>3. CASE /\ actorKeys[a] # NoKey /\ actors[actorKeys[a]] # NoGroup /\ actorsLock' = a
             /\ task' = [task EXCEPT ![a].pc = "rmMember", ![a].group = actors[actorKeys[a]]]
    <3>1. task'[a] = [task[a] EXCEPT !.pc = "rmMember", !.group = actors[actorKeys[a]]]
      BY <2>3, <1>t DEF TypeOK
    <3>2. task'[a].pc = "rmMember" /\ task'[a].group = actors[actorKeys[a]] /\ task'[a].obj = task[a].obj
      BY <3>1, <1>t DEF Task
    <3>3. actorKeys[a] \in GroupKeys
      BY <2>3, <1>t DEF TypeOK, GroupKeys
    <3> QED
      BY <2>3, <2>u, <3>2, <3>3, <1>t
         DEF ActorInv, host, At, Pending, Removing, Counting, GroupKeys, Inst
  <2> QED
    BY <1>1, <2>1, <2>2, <2>3 DEF RemoveLock
<1>2. CASE RemoveMember(a)
  <2>p. Removing(a) /\ At(a, "rmMember") /\ Started(a) = 0
    BY <1>2 DEF RemoveMember, Removing, At, Started
  <2>u. UNCHANGED <<actorKeys, actors, actorsLock>>
    BY <1>2 DEF RemoveMember, locks
  <2>f. /\ g \in GroupId /\ Instances(a) = Inst(g, a) /\ Inst(g, a) \in Nat
        /\ Inst(g, a) <= running[a] /\ running[a] \in Nat
    BY <2>p, <1>t, TaskFacts, ActorsAssumption DEF TypeOK
  <2>1. task'[a].pc = "rmCheck" /\ task'[a].group = g /\ task'[a].obj = task[a].obj
    BY <1>2, GotoFrame DEF RemoveMember
  <2>2. members'[g][a] = NoEntry /\ \A h \in GroupId : h # g => members'[h][a] = members[h][a]
    BY <1>2, <1>t, <2>f DEF RemoveMember, TypeOK
  <2>3. running'[a] = running[a] - Instances(a)
    BY <1>2, <1>t DEF RemoveMember, TypeOK
  <2>4. running'[a] \in Nat /\ Inst(g, a)' <= running'[a]
    BY <2>f, <2>1, <2>2, <2>3 DEF Inst
  <2>5. /\ \A k \in GroupKeys' : members'[actors'[k]][a] # NoEntry => actorKeys'[a] = k
        /\ \A k \in GroupKeys' : Inst(actors[k], a)' <= running'[a]
    BY <2>p, <2>u, <2>1, <2>2, <2>4, EntryStep
  <2> QED
    BY <2>p, <2>u, <2>1, <2>2, <2>5, <1>t DEF ActorInv, At, Pending, Removing, Counting, GroupKeys
<1>3. CASE RemoveGroup(a)
  <2>p. Removing(a) /\ members[g][a] = NoEntry /\ actorKeys[a] \in GroupKeys /\ g = actors[actorKeys[a]]
    BY <1>3, <1>t DEF RemoveGroup, Removing, At, ActorInv
  <2>1. task'[a].pc = "rmName" /\ task'[a].obj = task[a].obj
    BY <1>3, GotoFrame DEF RemoveGroup
  <2>2. NoMember(a)
    BY <2>p, OnlyGroup DEF NoMember
  <2>3. GroupKeys' \subseteq GroupKeys /\ \A k \in GroupKeys' : actors'[k] = actors[k]
    BY <1>3, <1>t DEF RemoveGroup, GroupKeys, TypeOK
  <2>4. UNCHANGED <<members, running, actorKeys>>
    BY <1>3 DEF RemoveGroup
  <2>5. NoMember(a)'
    BY <2>2, <2>3, <2>4 DEF NoMember
  <2>6. \A k \in GroupKeys' : Inst(actors[k], a)' <= running'[a]
    BY <1>t, <2>3, <2>4 DEF ActorInv, Inst
  <2> QED
    BY <2>1, <2>5, <2>6, <1>t DEF ActorInv, NoMember, At, Pending, Removing, Counting
<1>4. CASE RemoveName(a)
  <2>1. task'[a].pc = "stats" /\ task'[a].obj = task[a].obj
    BY <1>4, GotoFrame DEF RemoveName
  <2>2. NoMember(a) /\ UNCHANGED <<actors, members, running>>
    BY <1>4, <1>t DEF RemoveName, ActorInv
  <2> QED
    BY <2>1, <2>2, <1>t DEF ActorInv, NoMember, At, Pending, Removing, Counting, GroupKeys, Inst
<1> QED
  BY <1>1, <1>2, <1>3, <1>4

\* stats() keeps host.actors from changing, so that the groups it has yet to count are there.
LEMMA StatsSteps ==
    ASSUME GroupsInv, NEW a \in Actor, Stats(a) \/ \E k \in Key : CountGroup(a, k)
    PROVE  ActorInv(a)'
<1>t. TypeOK /\ ActorInv(a) /\ task[a].obj # NoObject /\ task[a] \in Task
  BY GotoFrame DEF GroupsInv, TypeOK, Stats, CountGroup, At
<1>u. UNCHANGED host /\ UNCHANGED actorsLock
  BY DEF Stats, CountGroup, locks
<1>1. /\ task'[a].pc \in {"count", "countProviders"} /\ task'[a].obj = task[a].obj
      /\ task'[a].todo \subseteq GroupKeys /\ actorsLock = Free
  <2>1. CASE Stats(a)
    <3>1. task'[a] = [task[a] EXCEPT !.pc = IF GroupKeys = {} THEN "countProviders" ELSE "count",
                            !.group = NoGroup, !.left = 0, !.started = 0, !.todo = GroupKeys,
                            !.counts = [NoCounts EXCEPT !.groups = Cardinality(GroupKeys)]]
      BY <2>1, <1>t DEF Stats, TypeOK
    <3>2. task'[a].obj = task[a].obj /\ task'[a].todo = GroupKeys
      BY <3>1, <1>t DEF Task
    <3>3. task'[a].pc = IF GroupKeys = {} THEN "countProviders" ELSE "count"
      BY <3>1, <1>t DEF Task
    <3> QED
      BY <2>1, <3>2, <3>3 DEF Stats
  <2>2. ASSUME NEW k \in Key, CountGroup(a, k)
        PROVE  /\ task'[a].pc \in {"count", "countProviders"} /\ task'[a].obj = task[a].obj
               /\ task'[a].todo = task[a].todo \ {k}
    <3>1. task'[a] = [task[a] EXCEPT !.pc = IF task[a].todo = {k} THEN "countProviders" ELSE "count",
                            !.todo = @ \ {k}, !.counts.instances = @ + Cardinality(InstancesIn(k))]
      BY <2>2, <1>t DEF CountGroup, TypeOK
    <3> QED
      BY <2>2, <3>1, <1>t DEF Task
  <2>3. CASE \E k \in Key : CountGroup(a, k)
    <3>1. Counting(a)
      BY <2>3 DEF CountGroup, Counting, At
    <3> QED
      BY <2>2, <2>3, <3>1, <1>t DEF ActorInv
  <2> QED
    BY <2>1, <2>3
<1> QED
  BY <1>1, <1>u, <1>t DEF ActorInv, host, At, Pending, Removing, Counting, GroupKeys, Inst

\* Every step of a reconciliation keeps the invariant of all actors.
LEMMA TaskStepKeepsGroups ==
    ASSUME GroupsInv, NEW a \in Actor, Start(a) \/ Locking(a) \/ Step(a)
    PROVE  GroupsInv'
<1>1. TypeOK'
  BY TaskStepType
<1>2. SameGroups(a) \/ NewGroup(a) \/ DropGroup(a)
  BY StepChangesGroups
<1>3. OwnGroups'
  BY <1>2, StepKeepsOwnGroups
<1>4. Others(a)
  BY StepLeavesOthers
<1>5. ASSUME NEW b \in Actor, b # a PROVE ActorInv(b)'
  BY <1>2, <1>4, <1>5, OthersKeepGroups, OthersKeepNewGroup, OthersKeepDroppedGroup
<1>6. ActorInv(a)'
  BY PlainSteps, CheckKeyStep, TakeGroupStep, ScaleStep, SubscribeStep, RemoveSteps, StatsSteps
     DEF Locking, Step
<1> QED
  BY <1>1, <1>3, <1>5, <1>6 DEF GroupsInv

\* What the invariant is about is the host's own: the world leaves it alone.
LEMMA LocalKeepsGroups ==
    ASSUME OwnGroups /\ \A a \in Actor : ActorInv(a), UNCHANGED <<task, host, locks>>
    PROVE  (OwnGroups /\ \A a \in Actor : ActorInv(a))'
BY DEF OwnGroups, ActorInv, host, locks, At, Pending, Took, Subscribing, Removing, Counting, NoMember,
   GroupKeys, Inst, Started, KeyOfTask

\* A host that has just started has no groups.
LEMMA EmptyGroups ==
    ASSUME task = NoTasks, actors = NoGroups, running = NoneRunning
    PROVE  OwnGroups /\ \A a \in Actor : ActorInv(a)
<1>1. GroupKeys = {}
  BY DEF GroupKeys, NoGroups
<1>2. \A a \in Actor : task[a].pc = "idle"
  BY DEF NoTasks, Idle
<1> QED
  BY <1>1, <1>2 DEF OwnGroups, ActorInv, At, Pending, Removing, Counting

\* The world keeps the invariant.
LEMMA WorldKeepsGroups ==
    ASSUME GroupsInv, World
    PROVE  GroupsInv'
<1>1. TypeOK'
  BY WorldType DEF GroupsInv
<1>2. CASE UNCHANGED <<task, host, locks>>
  BY <1>1, <1>2, LocalKeepsGroups DEF GroupsInv
<1>3. CASE Crash
  <2>1. task' = NoTasks /\ actors' = NoGroups /\ running' = NoneRunning
    BY <1>3 DEF Crash
  <2>2. GroupKeys' = {}
    BY <2>1 DEF GroupKeys, NoGroups
  <2>3. \A a \in Actor : task'[a].pc = "idle"
    BY <2>1 DEF NoTasks, Idle
  <2> QED
    BY <1>1, <2>2, <2>3 DEF GroupsInv, OwnGroups, ActorInv, At, Pending, Removing, Counting
<1> QED
  BY <1>2, <1>3 DEF World, Create, Update, Delete, Watch, Resync, LockElsewhere, UnlockElsewhere, local

\* Nothing that the invariants are about changes when nothing does.
LEMMA StutterKeepsGroups ==
    ASSUME GroupsInv, UNCHANGED vars
    PROVE  GroupsInv'
<1>1. elsewhere' \subseteq TakenElsewhere
  BY DEF vars, GroupsInv, TypeOK
<1>2. TypeOK'
  BY <1>1 DEF vars, kube, host, locks, bounds, GroupsInv, TypeOK, K!KubeTypeOK
<1>3. UNCHANGED <<task, host, locks>>
  BY DEF vars
<1> QED
  BY <1>2, <1>3, LocalKeepsGroups DEF GroupsInv

\* The invariant is one.
LEMMA GroupsInvariant == Spec => []GroupsInv
<1>1. Init => GroupsInv
  BY InitType, EmptyGroups DEF Init, GroupsInv
<1>2. GroupsInv /\ [Next]_vars => GroupsInv'
  <2> SUFFICES ASSUME GroupsInv, [Next]_vars PROVE GroupsInv'
    OBVIOUS
  <2>1. CASE Next
    BY <2>1, TaskStepKeepsGroups, WorldKeepsGroups DEF Next
  <2>2. CASE UNCHANGED vars
    BY <2>2, StutterKeepsGroups
  <2> QED
    BY <2>1, <2>2
<1> QED
  BY <1>1, <1>2, PTL DEF Spec

\* The types hold throughout: reconcile_actor and remove_actor never abort more call
\* loops than their actor has, although others take, drop and make anew the
\* groups of its key while it waits.
THEOREM ActorsTypeCorrect == Spec => []TypeOK
BY GroupsInvariant, PTL DEF GroupsInv

\* Whoever is in a group of host.actors is known to actor_keys by the key of this
\* group, so that remove_actor finds it.
THEOREM MembersKeepTheirKeys == Spec => []MembersHaveKeys
<1>1. GroupsInv => MembersHaveKeys
  BY DEF GroupsInv, ActorInv, MembersHaveKeys, GroupKeys
<1> QED
  BY <1>1, GroupsInvariant, PTL
=============================================================================
