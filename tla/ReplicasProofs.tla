--------------------------- MODULE ReplicasProofs ---------------------------
(***************************************************************************)
(* What the status of an Actor says of its call loops, proved on top of    *)
(* the invariant of the groups.                                            *)
(***************************************************************************)
EXTENDS ActorsProofs

----------------------------------------------------------------------------
(***************************************************************************)
(* The course of a reconciliation: the copy of the object it began with    *)
(* decides which way it goes, and it keeps this copy to its end.           *)
(***************************************************************************)
ApplyPcs == {"fetch", "check", "group", "scale", "subscribe", "patch"}
RemovePcs == {"rmLock", "rmMember", "rmCheck", "rmName"}
StatsPcs == {"stats", "count", "countProviders", "hostPatch"}

\* An applied object has its finalizer, and one being cleaned up is being deleted.
Phase(a) ==
    /\ At(a, "finalize") => K!NeedsFinalizer(task[a].obj)
    /\ task[a].pc \in ApplyPcs => ~task[a].cleanup
    /\ task[a].pc \in RemovePcs \cup {"release"} => task[a].cleanup
    /\ task[a].pc \in ApplyPcs \cup StatsPcs /\ ~task[a].cleanup => K!IsApply(task[a].obj)
    /\ task[a].pc \in RemovePcs \cup StatsPcs \cup {"release"} /\ task[a].cleanup =>
         K!IsCleanup(task[a].obj)

\* When no other reconciliation is due, this one has the copy the reflector has now.
UpToDate(a) ==
    a \notin queue /\ store[a] # NoObject /\ ~At(a, "idle") => store[a] = task[a].obj

\* The steps within a reconciliation, and those that end it.
Moves(a) ==
    /\ task'[a].obj = task[a].obj /\ task'[a].cleanup = task[a].cleanup
    /\ UNCHANGED <<store, queue>>
    /\ \/ task[a].pc \in ApplyPcs /\ task'[a].pc \in ApplyPcs \cup {"stats"}
       \/ task[a].pc \in RemovePcs /\ task'[a].pc \in RemovePcs \cup {"stats"}
       \/ task[a].pc \in StatsPcs /\ task'[a].pc \in StatsPcs
       \/ At(a, "hostPatch") /\ task[a].cleanup /\ task'[a].pc = "release"

Ends(a) ==
    /\ task'[a].pc = "idle" /\ store' = store
    /\ queue' \in {queue, queue \cup {a}}
    /\ \/ task[a].pc \in {"finalize", "release"}
       \/ At(a, "hostPatch") /\ ~task[a].cleanup

\* What the beginning of a reconciliation does to its task.
LEMMA BeginFrame ==
    ASSUME GroupsInv, NEW a \in Actor, NEW pc, NEW c, Begin(a, pc, c)
    PROVE  /\ At(a, "idle") /\ Mine(store[a]) /\ store' = store /\ queue' = queue \ {a}
           /\ task'[a].pc = pc /\ task'[a].obj = store[a] /\ task'[a].cleanup = c
<1>1. task'[a] = [Idle EXCEPT !.pc = pc, !.obj = store[a], !.cleanup = c]
  BY DEF Begin, GroupsInv, TypeOK
<1>2. task'[a].pc = pc /\ task'[a].obj = store[a] /\ task'[a].cleanup = c
  BY <1>1 DEF Idle
<1> QED
  BY <1>2 DEF Begin

\* A step of a reconciliation is its beginning, its end, or one within it.
LEMMA TaskMoves ==
    ASSUME GroupsInv, NEW a \in Actor, Start(a) \/ Locking(a) \/ Step(a)
    PROVE  \/ Ignore(a) \/ StartFinalize(a) \/ StartApply(a) \/ StartCleanup(a)
           \/ Moves(a) \/ Ends(a)
<1> USE DEF At, ApplyPcs, RemovePcs, StatsPcs
<1>t. task \in [Actor -> Task] /\ task[a] \in Task
  BY DEF GroupsInv, TypeOK
<1>1. CASE \/ Fetch(a) \/ CheckKey(a) \/ SubscribeFail(a) \/ PatchStatus(a) \/ RemoveName(a)
           \/ RemoveMember(a) \/ RemoveGroup(a) \/ CountProviders(a)
  <2>1. UNCHANGED <<store, queue>>
    BY <1>1 DEF Fetch, CheckKey, SubscribeFail, PatchStatus, RemoveName, RemoveMember, RemoveGroup,
       CountProviders, kube
  <2>2. PICK pc : /\ Goto(a, pc)
                  /\ \/ task[a].pc \in ApplyPcs /\ pc \in ApplyPcs \cup {"stats"}
                     \/ task[a].pc \in RemovePcs /\ pc \in RemovePcs \cup {"stats"}
                     \/ task[a].pc \in StatsPcs /\ pc \in StatsPcs
    BY <1>1 DEF Fetch, CheckKey, SubscribeFail, PatchStatus, RemoveName, RemoveMember, RemoveGroup,
       CountProviders
  <2>3. task'[a].pc = pc /\ task'[a].obj = task[a].obj /\ task'[a].cleanup = task[a].cleanup
    BY <2>2, GotoFrame
  <2>4. \/ task[a].pc \in ApplyPcs /\ task'[a].pc \in ApplyPcs \cup {"stats"}
        \/ task[a].pc \in RemovePcs /\ task'[a].pc \in RemovePcs \cup {"stats"}
        \/ task[a].pc \in StatsPcs /\ task'[a].pc \in StatsPcs
    BY <2>2, <2>3
  <2> QED
    BY <2>1, <2>3, <2>4 DEF Moves
<1>2. CASE AddFinalizer(a) \/ Release(a)
  BY <1>2, GotoFrame DEF Ends, AddFinalizer, Release, Requeue
<1>3. CASE TakeGroup(a)
  <2>1. PICK g : task' = [task EXCEPT ![a].pc = "scale", ![a].group = g]
    BY <1>3 DEF TakeGroup
  <2>2. task'[a] = [task[a] EXCEPT !.pc = "scale", !.group = g]
    BY <1>t, <2>1
  <2>3. task'[a].pc = "scale" /\ task'[a].obj = task[a].obj /\ task'[a].cleanup = task[a].cleanup
    BY <1>t, <2>2 DEF Task
  <2> QED
    BY <1>3, <2>3 DEF TakeGroup, Moves, kube
<1>4. CASE Scale(a)
  <2>1. CASE Goto(a, "patch")
    BY <1>4, <2>1, GotoFrame DEF Scale, Moves, kube
  <2>2. CASE \E l : task' = [task EXCEPT ![a].pc = "subscribe", ![a].left = l, ![a].started = 0]
    <3>1. PICK l : task'[a] = [task[a] EXCEPT !.pc = "subscribe", !.left = l, !.started = 0]
      BY <1>t, <2>2
    <3>2. task'[a].pc = "subscribe" /\ task'[a].obj = task[a].obj /\ task'[a].cleanup = task[a].cleanup
      BY <1>t, <3>1 DEF Task
    <3> QED
      BY <1>4, <3>2 DEF Scale, Moves, kube
  <2> QED
    BY <1>4, <2>1, <2>2 DEF Scale
<1>5. CASE Subscribe(a)
  <2>1. \E pc \in {"subscribe", "patch"} : \E l, n :
          task'[a] = [task[a] EXCEPT !.pc = pc, !.left = l, !.started = n]
    <3>1. CASE task' = [task EXCEPT ![a].left = @ - 1, ![a].started = @ + 1]
      <4>1. task'[a] = [task[a] EXCEPT !.left = @ - 1, !.started = @ + 1]
        BY <1>t, <3>1
      <4>2. task'[a] = [task[a] EXCEPT !.pc = "subscribe", !.left = task[a].left - 1,
                                       !.started = task[a].started + 1]
        BY <1>5, <1>t, <4>1 DEF Subscribe, Task
      <4> QED
        BY <4>2
    <3>2. CASE Joined(a)
      <4>1. task'[a] = [task[a] EXCEPT !.pc = "patch", !.left = 0, !.started = 0]
        BY <1>t, <3>2 DEF Joined
      <4> QED
        BY <4>1
    <3> QED
      BY <1>5, <3>1, <3>2 DEF Subscribe
  <2>2. PICK pc \in {"subscribe", "patch"} : \E l, n :
          task'[a] = [task[a] EXCEPT !.pc = pc, !.left = l, !.started = n]
    BY <2>1
  <2>3. task'[a].pc = pc /\ task'[a].obj = task[a].obj /\ task'[a].cleanup = task[a].cleanup
    BY <1>t, <2>2 DEF Task
  <2> QED
    BY <1>5, <2>3 DEF Subscribe, Moves, kube
<1>6. CASE RemoveLock(a)
  <2>1. CASE Goto(a, "stats") \/ Goto(a, "rmName")
    BY <1>6, <2>1, GotoFrame DEF RemoveLock, Moves, kube
  <2>2. CASE \E g : task' = [task EXCEPT ![a].pc = "rmMember", ![a].group = g]
    <3>1. PICK g : task'[a] = [task[a] EXCEPT !.pc = "rmMember", !.group = g]
      BY <1>t, <2>2
    <3>2. task'[a].pc = "rmMember" /\ task'[a].obj = task[a].obj /\ task'[a].cleanup = task[a].cleanup
      BY <1>t, <3>1 DEF Task
    <3> QED
      BY <1>6, <3>2 DEF RemoveLock, Moves, kube
  <2> QED
    BY <1>6, <2>1, <2>2 DEF RemoveLock
<1>7. CASE Stats(a)
  <2>1. \E pc \in {"count", "countProviders"} : \E todo, c :
          task'[a] = [task[a] EXCEPT !.pc = pc, !.group = NoGroup, !.left = 0, !.started = 0,
                                     !.todo = todo, !.counts = c]
    BY <1>7, <1>t DEF Stats
  <2>2. /\ task'[a].pc \in {"count", "countProviders"}
        /\ task'[a].obj = task[a].obj /\ task'[a].cleanup = task[a].cleanup
    BY <1>t, <2>1 DEF Task
  <2> QED
    BY <1>7, <2>2 DEF Stats, Moves, kube
<1>8. ASSUME NEW k \in Key, CountGroup(a, k) PROVE Moves(a)
  <2>1. \E pc \in {"count", "countProviders"} :
          task'[a] = [task[a] EXCEPT !.pc = pc, !.todo = @ \ {k},
                                     !.counts.instances = @ + Cardinality(InstancesIn(k))]
    BY <1>8, <1>t DEF CountGroup
  <2>2. /\ task'[a].pc \in {"count", "countProviders"}
        /\ task'[a].obj = task[a].obj /\ task'[a].cleanup = task[a].cleanup
    BY <1>t, <2>1 DEF Task
  <2> QED
    BY <1>8, <2>2 DEF CountGroup, Moves, kube
<1>9. CASE HostPatch(a)
  <2>1. task'[a] = IF task[a].cleanup THEN [task[a] EXCEPT !.pc = "release", !.counts = NoCounts] ELSE Idle
    BY <1>9, <1>t DEF HostPatch
  <2>2. LET t == [task[a] EXCEPT !.pc = "release", !.counts = NoCounts] IN
        t.pc = "release" /\ t.obj = task[a].obj /\ t.cleanup = task[a].cleanup
    BY <1>t DEF Task
  <2>3. Idle.pc = "idle"
    BY DEF Idle
  <2> QED
    BY <1>9, <2>1, <2>2, <2>3 DEF HostPatch, Moves, Ends, kube
<1> QED
  BY <1>1, <1>2, <1>3, <1>4, <1>5, <1>6, <1>7, <1>8, <1>9 DEF Start, Locking, Step

\* Each step keeps the course of its reconciliation.
LEMMA StepKeepsPhase ==
    ASSUME GroupsInv, NEW a \in Actor, Phase(a), UpToDate(a), Start(a) \/ Locking(a) \/ Step(a)
    PROVE  Phase(a)' /\ UpToDate(a)'
<1> USE DEF At, Phase, UpToDate, ApplyPcs, RemovePcs, StatsPcs
<1>1. CASE Ignore(a)
  BY <1>1 DEF Ignore
<1>2. CASE StartFinalize(a)
  <2>1. /\ store' = store /\ queue' = queue \ {a} /\ At(a, "idle")
        /\ task'[a].pc = "finalize" /\ task'[a].obj = store[a] /\ (task'[a].cleanup = FALSE)
    BY <1>2, BeginFrame DEF StartFinalize
  <2> QED
    BY <1>2, <2>1 DEF StartFinalize
<1>3. CASE StartApply(a)
  <2>1. /\ store' = store /\ queue' = queue \ {a} /\ At(a, "idle")
        /\ task'[a].pc = "fetch" /\ task'[a].obj = store[a] /\ (task'[a].cleanup = FALSE)
    BY <1>3, BeginFrame DEF StartApply
  <2> QED
    BY <1>3, <2>1 DEF StartApply
<1>4. CASE StartCleanup(a)
  <2>1. /\ store' = store /\ queue' = queue \ {a} /\ At(a, "idle")
        /\ task'[a].pc = "rmLock" /\ task'[a].obj = store[a] /\ (task'[a].cleanup = TRUE)
    BY <1>4, BeginFrame DEF StartCleanup
  <2> QED
    BY <1>4, <2>1 DEF StartCleanup
<1>5. CASE Moves(a)
  BY <1>5 DEF Moves
<1>6. CASE Ends(a)
  BY <1>6 DEF Ends
<1> QED
  BY <1>1, <1>2, <1>3, <1>4, <1>5, <1>6, TaskMoves

----------------------------------------------------------------------------
(***************************************************************************)
(* The replicas that serve.                                                *)
(***************************************************************************)

\* The reconciliation has brought the actor to the replicas of its copy, or found
\* that it has them: an actor refused for its key, or one being removed, has not.
Accepted(a) ==
    \/ At(a, "patch")
    \/ task[a].pc \in StatsPcs /\ ~task[a].cleanup /\ actorKeys[a] = KeyOfTask(a)

\* The copy has been applied, and no reconciliation is due.
Applied(a) ==
    /\ At(a, "idle") /\ a \notin queue
    /\ Mine(store[a]) /\ K!IsApply(store[a])
    /\ actorKeys[a] = KeyOf[store[a].spec.image]

\* The replicas run from when the reconciliation has seen to it.
Served(a) ==
    /\ Accepted(a) => running[a] >= task[a].obj.spec.replicas
    /\ Applied(a) => running[a] >= store[a].spec.replicas

ServeInv(a) == Phase(a) /\ UpToDate(a) /\ (failures = 0 => Served(a))

ServesInv == GroupsInv /\ \A a \in Actor : ServeInv(a)

\* When reconcile_actor has scaled an actor, the table of its group has the replicas of
\* the spec, and the call loops have become as many more or fewer as the entry.
LEMMA ScaleReaches ==
    ASSUME GroupsInv, NEW a \in Actor, Scale(a) \/ Subscribe(a), task'[a].pc = "patch"
    PROVE  LET g == task[a].group
               wanted == task[a].obj.spec.replicas
           IN  /\ members'[g][a] # NoEntry => members'[g][a].instances = wanted
               /\ members'[g][a] = NoEntry => wanted = 0
               /\ \A h \in GroupId : h # g => members'[h][a] = members[h][a]
               /\ running'[a] + Inst(g, a) + Started(a) = running[a] + wanted
<1> DEFINE g == task[a].group
           wanted == task[a].obj.spec.replicas
<1> USE DEF At
<1>p. Pending(a) /\ ~At(a, "idle") /\ task[a].pc \in {"scale", "subscribe"}
  BY DEF Scale, Subscribe, Pending
<1>t. TypeOK /\ ActorInv(a) /\ task[a] \in Task
  BY TaskFacts DEF GroupsInv
<1>f. /\ g \in GroupId /\ Instances(a) = Inst(g, a) /\ Inst(g, a) \in Nat /\ wanted \in Nat
      /\ Inst(g, a) + Started(a) <= running[a] /\ running[a] \in 0..MaxRunning
      /\ task[a].obj.spec.image \in Image
  BY <1>p, <1>t, TaskFacts, ActorsAssumption DEF TypeOK
<1>1. CASE Scale(a)
  <2>0. Started(a) = 0
    BY <1>1 DEF Scale, Started
  <2>1. CASE /\ wanted > Instances(a)
             /\ task' = [task EXCEPT ![a].pc = "subscribe", ![a].left = wanted - Instances(a), ![a].started = 0]
    <3>1. task'[a] = [task[a] EXCEPT !.pc = "subscribe", !.left = wanted - Instances(a), !.started = 0]
      BY <2>1, <1>t DEF TypeOK
    <3>2. task'[a].pc = "subscribe"
      BY <3>1, <1>t DEF Task
    <3> QED
      BY <3>2
  <2>2. CASE wanted = Instances(a) /\ UNCHANGED <<members, running>>
    BY <2>0, <2>2, <1>f, <1>t, InstType DEF Inst
  <2>3. CASE /\ wanted < Instances(a)
             /\ members' = [members EXCEPT ![g][a].instances = wanted]
             /\ running' = [running EXCEPT ![a] = @ - (Instances(a) - wanted)]
    <3>1. members[g][a] \in Entry /\ Entry = [image : Image, instances : 0..MaxRunning]
      BY <2>3, <1>f, <1>t, InstType DEF Inst, Entry
    <3>2. /\ members'[g][a] = [members[g][a] EXCEPT !.instances = wanted]
          /\ \A h \in GroupId : h # g => members'[h][a] = members[h][a]
      BY <2>3, <1>f, <1>t DEF TypeOK
    <3>6. wanted \in 0..MaxRunning
      BY <2>0, <2>3, <1>f, ActorsAssumption
    <3>3. members'[g][a].instances = wanted /\ members'[g][a] \in Entry
      BY <3>1, <3>2, <3>6
    <3>4. running'[a] = running[a] - (Instances(a) - wanted)
      BY <2>3, <1>t DEF TypeOK
    <3>5. NoEntry \notin Entry
      BY ActorsAssumption DEF Entry
    <3> QED
      BY <2>0, <1>f, <3>2, <3>3, <3>4, <3>5
  <2> QED
    BY <1>1, <2>1, <2>2, <2>3 DEF Scale
<1>2. CASE Subscribe(a)
  <2>0. /\ Started(a) = task[a].started /\ Subscribing(a) /\ task[a].started \in Nat /\ task[a].left \in Nat
        /\ running[a] < MaxRunning
    BY <1>2, <1>t, ActorsAssumption DEF Subscribe, Started, ActorInv, Task
  <2>1. CASE task[a].left = 1 /\ Joined(a)
    <3>1. Inst(g, a) + task[a].started + 1 = wanted
      BY <2>0, <2>1, <1>f DEF Subscribing
    <3>2. PICK i \in Image : members' = [members EXCEPT ![g][a] = [image |-> i, instances |-> wanted]]
      <4>1. members[g][a] # NoEntry => members[g][a].image \in Image
        BY <1>t, <1>f, InstType DEF Entry
      <4> QED
        BY <2>1, <3>1, <4>1, <1>f DEF Joined
    <3>3. /\ members'[g][a] = [image |-> i, instances |-> wanted]
          /\ \A h \in GroupId : h # g => members'[h][a] = members[h][a]
      BY <3>2, <1>f, <1>t DEF TypeOK
    <3>4. running'[a] = running[a] + 1
      BY <1>2, <1>t DEF Subscribe, TypeOK
    <3>5. members'[g][a].instances = wanted
      BY <3>3
    <3>6. members'[g][a] # NoEntry
      BY <3>1, <3>3, <2>0, <1>f, ActorsAssumption
    <3> QED
      BY <2>0, <3>1, <3>3, <3>4, <3>5, <3>6, <1>f
  <2>2. CASE task' = [task EXCEPT ![a].left = @ - 1, ![a].started = @ + 1]
    <3>1. task'[a] = [task[a] EXCEPT !.left = @ - 1, !.started = @ + 1]
      BY <2>2, <1>t DEF TypeOK
    <3>2. task'[a].pc = task[a].pc
      BY <3>1, <1>t DEF Task
    <3> QED
      BY <3>2, <1>2 DEF Subscribe
  <2> QED
    BY <1>2, <2>1, <2>2 DEF Subscribe
<1> QED
  BY <1>1, <1>2

\* A step that fails nothing brings a reconciliation to where it is accepted only with
\* its replicas running.
LEMMA StepAccepted ==
    ASSUME GroupsInv, NEW a \in Actor, Phase(a), failures' = 0, Start(a) \/ Locking(a) \/ Step(a),
           Accepted(a)'
    PROVE  \/ Accepted(a) /\ running'[a] = running[a] /\ actorKeys'[a] = actorKeys[a]
           \/ (Scale(a) \/ Subscribe(a)) /\ task'[a].pc = "patch"
<1> USE DEF At, ApplyPcs, RemovePcs, StatsPcs
<1>n. ~Fail
  BY FailType DEF GroupsInv
<1>g. \A pc : Goto(a, pc) => task'[a].pc = pc
  BY GotoFrame
<1>a. \/ task'[a].pc = "patch"
      \/ task'[a].pc \in StatsPcs /\ ~task'[a].cleanup /\ actorKeys'[a] = KeyOfTask(a)'
  BY DEF Accepted
<1>m. CASE Moves(a)
  <2>o. task'[a].obj = task[a].obj /\ KeyOfTask(a)' = KeyOfTask(a) /\ (task'[a].cleanup <=> task[a].cleanup)
    BY <1>m DEF Moves, KeyOfTask
  <2>1. CASE Fetch(a)
    BY <2>1, <1>n, <1>g, <1>a DEF Fetch
  <2>2. CASE CheckKey(a)
    <3>1. CASE Goto(a, "stats") /\ actorKeys[a] # KeyOfTask(a) /\ UNCHANGED actorKeys
      BY <3>1, <2>o, <1>g, <1>a
    <3>2. CASE Goto(a, "group")
      BY <3>2, <1>g, <1>a
    <3> QED
      BY <2>2, <3>1, <3>2 DEF CheckKey
  <2>3. CASE TakeGroup(a)
    <3>1. task[a].pc = "group" /\ task[a] \in Task /\ task \in [Actor -> Task]
      BY <2>3 DEF TakeGroup, GroupsInv, TypeOK
    <3>2. PICK g : task' = [task EXCEPT ![a].pc = "scale", ![a].group = g]
      BY <2>3 DEF TakeGroup
    <3>3. task'[a] = [task[a] EXCEPT !.pc = "scale", !.group = g]
      BY <3>1, <3>2
    <3>4. task'[a].pc = "scale"
      BY <3>1, <3>3 DEF Task
    <3> QED
      BY <3>4, <1>a
  <2>4. CASE Scale(a)
    <3>1. task'[a].pc \in ApplyPcs
      <4>1. task[a] \in Task /\ task \in [Actor -> Task]
        BY DEF GroupsInv, TypeOK
      <4>2. CASE Goto(a, "patch")
        BY <4>2, <1>g
      <4>3. CASE \E l : task' = [task EXCEPT ![a].pc = "subscribe", ![a].left = l, ![a].started = 0]
        <5>1. PICK l : task'[a] = [task[a] EXCEPT !.pc = "subscribe", !.left = l, !.started = 0]
          BY <4>1, <4>3
        <5> QED
          BY <4>1, <5>1 DEF Task
      <4> QED
        BY <2>4, <4>2, <4>3 DEF Scale
    <3> QED
      BY <2>4, <3>1, <1>a
  <2>5. CASE Subscribe(a)
    <3>1. task[a] \in Task /\ task \in [Actor -> Task]
      BY DEF GroupsInv, TypeOK
    <3>2. CASE task' = [task EXCEPT ![a].left = @ - 1, ![a].started = @ + 1]
      <4>1. task'[a] = [task[a] EXCEPT !.left = @ - 1, !.started = @ + 1]
        BY <3>1, <3>2
      <4>2. task'[a].pc = "subscribe"
        BY <2>5, <3>1, <4>1 DEF Task, Subscribe
      <4> QED
        BY <4>2, <1>a
    <3>3. CASE Joined(a)
      <4>1. task'[a] = [task[a] EXCEPT !.pc = "patch", !.left = 0, !.started = 0]
        BY <3>1, <3>3 DEF Joined
      <4>2. task'[a].pc = "patch"
        BY <3>1, <4>1 DEF Task
      <4> QED
        BY <4>2, <2>5
    <3> QED
      BY <2>5, <3>2, <3>3 DEF Subscribe
  <2>6. CASE SubscribeFail(a)
    BY <2>6, <1>n DEF SubscribeFail
  <2>7. CASE PatchStatus(a) \/ CountProviders(a)
    BY <2>7, <2>o, <1>a, <1>g DEF PatchStatus, CountProviders, Accepted, host
  <2>8. CASE Stats(a) \/ (\E k \in Key : CountGroup(a, k))
    BY <2>8, <2>o, <1>m DEF Stats, CountGroup, Accepted, host, Moves
  <2>9. CASE task[a].pc \in RemovePcs \cup {"hostPatch"} /\ task[a].cleanup
    <3>1. task'[a].pc # "patch" /\ task'[a].cleanup
      BY <2>9, <2>o, <1>m DEF Moves
    <3> QED
      BY <3>1, <1>a
  <2>10. CASE HostPatch(a)
    <3>1. task'[a].pc # "patch" /\ UNCHANGED <<running, actorKeys>>
      BY <2>10, <1>m DEF HostPatch, host, Moves
    <3> QED
      BY <2>10, <3>1, <2>o, <1>a DEF HostPatch, Accepted
  <2> QED
    BY <1>m, <2>1, <2>2, <2>3, <2>4, <2>5, <2>6, <2>7, <2>8, <2>9, <2>10
       DEF Locking, Step, Start, Moves, Phase, Ignore, StartFinalize, StartApply, StartCleanup, Begin,
           AddFinalizer, Release, RemoveLock, RemoveMember, RemoveGroup, RemoveName
<1>e. CASE Ends(a)
  BY <1>e DEF Ends, Accepted
<1>i. CASE Ignore(a)
  BY <1>i DEF Ignore, Accepted, host, KeyOfTask
<1>b. CASE StartFinalize(a) \/ StartApply(a) \/ StartCleanup(a)
  <2>1. PICK pc \in {"finalize", "fetch", "rmLock"}, c \in BOOLEAN : Begin(a, pc, c)
    BY <1>b DEF StartFinalize, StartApply, StartCleanup
  <2>2. task'[a].pc \in {"finalize", "fetch", "rmLock"}
    BY <2>1, BeginFrame
  <2> QED
    BY <2>2 DEF Accepted
<1> QED
  BY <1>m, <1>e, <1>i, <1>b, TaskMoves

\* When a reconciliation is over and no other is due, the replicas run if it was accepted.
LEMMA StepApplied ==
    ASSUME GroupsInv, NEW a \in Actor, Phase(a), UpToDate(a), Start(a) \/ Locking(a) \/ Step(a),
           Applied(a)'
    PROVE  /\ store'[a] = task[a].obj /\ At(a, "hostPatch") /\ Accepted(a)
           /\ UNCHANGED <<api, running, actorKeys>>
<1> USE DEF At
<1>a. /\ task'[a].pc = "idle" /\ a \notin queue' /\ Mine(store'[a]) /\ K!IsApply(store'[a])
      /\ actorKeys'[a] = KeyOf[store'[a].spec.image]
  BY DEF Applied
<1>1. CASE Ends(a)
  <2>1. store' = store /\ a \notin queue /\ task[a].pc # "idle"
    BY <1>a, <1>1 DEF Ends
  <2>2. store[a] = task[a].obj
    BY <1>a, <2>1 DEF UpToDate, Mine
  <2>3. task[a].pc = "hostPatch" /\ ~task[a].cleanup
    BY <1>1, <1>a, <2>1, <2>2 DEF Ends, Phase, K!NeedsFinalizer, K!IsApply, K!IsCleanup
  <2>4. HostPatch(a)
    BY <2>3 DEF Start, Locking, Step, Ignore, StartFinalize, StartApply, StartCleanup, Begin, AddFinalizer, Fetch,
       CheckKey, TakeGroup, Scale, Subscribe, SubscribeFail, PatchStatus, RemoveLock, RemoveMember,
       RemoveGroup, RemoveName, Stats, CountGroup, CountProviders, Release
  <2>5. UNCHANGED <<api, running, actorKeys>>
    BY <2>4 DEF HostPatch, kube, host
  <2> QED
    BY <1>a, <2>1, <2>2, <2>3, <2>5 DEF Accepted, StatsPcs, KeyOfTask
<1>2. CASE Ignore(a)
  BY <1>a, <1>2 DEF Ignore
<1>3. CASE StartFinalize(a) \/ StartApply(a) \/ StartCleanup(a)
  <2>1. PICK pc \in {"finalize", "fetch", "rmLock"}, c \in BOOLEAN : Begin(a, pc, c)
    BY <1>3 DEF StartFinalize, StartApply, StartCleanup
  <2> QED
    BY <2>1, <1>a, BeginFrame
<1>4. CASE Moves(a)
  BY <1>a, <1>4 DEF Moves, ApplyPcs, RemovePcs, StatsPcs
<1> QED
  BY <1>1, <1>2, <1>3, <1>4, TaskMoves

\* The queue and the objects of other actors stay as they are.
LEMMA StepLeavesOtherObjects ==
    ASSUME GroupsInv, NEW a \in Actor, NEW b \in Actor, b # a, Start(a) \/ Locking(a) \/ Step(a)
    PROVE  store' = store /\ api'[b] = api[b] /\ (b \in queue' <=> b \in queue)
<1>1. store' = store
  BY DEF Start, Locking, Step, Ignore, StartFinalize, StartApply, StartCleanup, Begin, AddFinalizer, Fetch,
     CheckKey, TakeGroup, Scale, Subscribe, SubscribeFail, PatchStatus, RemoveLock, RemoveMember,
     RemoveGroup, RemoveName, Stats, CountGroup, CountProviders, HostPatch, Release, kube
<1>2. b \in queue' <=> b \in queue
  BY DEF Start, Locking, Step, Ignore, StartFinalize, StartApply, StartCleanup, Begin, AddFinalizer, Fetch,
     CheckKey, TakeGroup, Scale, Subscribe, SubscribeFail, PatchStatus, RemoveLock, RemoveMember,
     RemoveGroup, RemoveName, Stats, CountGroup, CountProviders, HostPatch, Release, Requeue, kube
<1>3. api' = api \/ \E o : api' = [api EXCEPT ![a] = o]
  BY DEF Start, Locking, Step, Ignore, StartFinalize, StartApply, StartCleanup, Begin, AddFinalizer, Fetch,
     CheckKey, TakeGroup, Scale, Subscribe, SubscribeFail, PatchStatus, RemoveLock, RemoveMember,
     RemoveGroup, RemoveName, Stats, CountGroup, CountProviders, HostPatch, Release, kube,
     K!AddFinalizer, K!WriteStatus, K!RemoveFinalizer
<1> QED
  BY <1>1, <1>2, <1>3 DEF GroupsInv, TypeOK, K!KubeTypeOK

\* Failures never become fewer.
LEMMA FailuresCount ==
    ASSUME TypeOK, Next, failures' = 0
    PROVE  failures = 0
<1>1. ~Fail
  BY FailType
<1>2. ASSUME NEW a \in Actor, Start(a) \/ Locking(a) PROVE failures = 0
  BY <1>2 DEF Start, Locking, Ignore, StartFinalize, StartApply, StartCleanup, Begin, TakeGroup, Scale,
     RemoveLock, RemoveMember, RemoveGroup, Stats, CountGroup, CountProviders, bounds
<1>3. ASSUME NEW a \in Actor, Step(a) PROVE failures = 0
  BY <1>1, <1>3 DEF Step, AddFinalizer, Fetch, CheckKey, Subscribe, SubscribeFail, PatchStatus, RemoveName,
     HostPatch, Release, bounds
<1>4. CASE World
  BY <1>4 DEF World, Create, Update, Delete, Watch, Resync, LockElsewhere, UnlockElsewhere, Crash, Edit, bounds
<1> QED
  BY <1>2, <1>3, <1>4 DEF Next

\* A reconciliation keeps the replicas of its own and of every other actor serving.
LEMMA TaskStepServes ==
    ASSUME ServesInv, NEW a \in Actor, Start(a) \/ Locking(a) \/ Step(a)
    PROVE  ServesInv'
<1>i. GroupsInv /\ \A b \in Actor : ServeInv(b)
  BY DEF ServesInv
<1>f. failures' = 0 => failures = 0
  BY <1>i, FailuresCount DEF GroupsInv, Next
<1>1. GroupsInv'
  BY <1>i, TaskStepKeepsGroups
<1>2. ASSUME NEW b \in Actor, b # a PROVE ServeInv(b)'
  <2>1. /\ task'[b] = task[b] /\ actorKeys'[b] = actorKeys[b] /\ running'[b] = running[b]
        /\ store' = store /\ (b \in queue' <=> b \in queue)
    BY <1>i, <1>2, StepLeavesOthers, StepLeavesOtherObjects DEF Others
  <2>2. Phase(b)' /\ UpToDate(b)'
    BY <1>i, <2>1 DEF ServeInv, Phase, UpToDate, At
  <2>3. Served(b) => Served(b)'
    BY <2>1 DEF Served, Accepted, Applied, At, KeyOfTask
  <2> QED
    BY <1>i, <1>f, <2>2, <2>3 DEF ServeInv
<1>3. Phase(a)' /\ UpToDate(a)'
  BY <1>i, StepKeepsPhase DEF ServeInv
<1>4. failures' = 0 => Served(a)'
  <2> SUFFICES ASSUME failures' = 0 PROVE Served(a)'
    OBVIOUS
  <2>1. Phase(a) /\ UpToDate(a) /\ Served(a)
    BY <1>i, <1>f DEF ServeInv
  <2>2. Accepted(a)' => running'[a] >= task'[a].obj.spec.replicas
    <3> SUFFICES ASSUME Accepted(a)' PROVE running'[a] >= task'[a].obj.spec.replicas
      OBVIOUS
    <3>1. task'[a].pc \in {"patch"} \cup StatsPcs
      BY DEF Accepted, At
    <3>2. task'[a].obj = task[a].obj /\ task[a].pc # "idle"
      <4>1. CASE Moves(a)
        BY <4>1 DEF Moves, ApplyPcs, RemovePcs, StatsPcs, At
      <4>2. CASE Ends(a)
        BY <3>1, <4>2 DEF Ends, StatsPcs
      <4>3. CASE Ignore(a)
        BY <3>1, <4>3 DEF Ignore, At, StatsPcs
      <4>4. CASE StartFinalize(a) \/ StartApply(a) \/ StartCleanup(a)
        <5>1. PICK pc \in {"finalize", "fetch", "rmLock"}, c \in BOOLEAN : Begin(a, pc, c)
          BY <4>4 DEF StartFinalize, StartApply, StartCleanup
        <5> QED
          BY <1>i, <5>1, <3>1, BeginFrame DEF StatsPcs
      <4> QED
        BY <1>i, <4>1, <4>2, <4>3, <4>4, TaskMoves
    <3>3. CASE Accepted(a) /\ running'[a] = running[a]
      BY <2>1, <3>2, <3>3 DEF Served
    <3>4. CASE (Scale(a) \/ Subscribe(a)) /\ task'[a].pc = "patch"
      <4> DEFINE wanted == task[a].obj.spec.replicas
                 g == task[a].group
      <4>1. running'[a] + Inst(g, a) + Started(a) = running[a] + wanted
        BY <1>i, <3>4, ScaleReaches
      <4>2. Pending(a)
        BY <3>4 DEF Scale, Subscribe, Pending, At
      <4>3. Inst(g, a) + Started(a) <= running[a] /\ Inst(g, a) \in Nat /\ wanted \in Nat
        BY <1>i, <3>2, <4>2, TaskFacts, ActorsAssumption DEF At
      <4>4. Started(a) \in Nat /\ running[a] \in Nat /\ running'[a] \in Nat
        BY <1>i, <1>1, TaskFacts, ActorsAssumption DEF GroupsInv, TypeOK, Started, Task
      <4> QED
        BY <4>1, <4>3, <4>4, <3>2
    <3> QED
      BY <1>i, <2>1, <3>3, <3>4, StepAccepted
  <2>3. Applied(a)' => running'[a] >= store'[a].spec.replicas
    BY <1>i, <2>1, StepApplied DEF Served
  <2> QED
    BY <2>2, <2>3 DEF Served
<1> QED
  BY <1>1, <1>2, <1>3, <1>4 DEF ServesInv, ServeInv

\* What users, the watch and the provider controller do leaves the replicas alone; the watch
\* asks for another reconciliation when it changes the copy.
LEMMA WorldServes ==
    ASSUME ServesInv, World
    PROVE  ServesInv'
<1>i. GroupsInv /\ TypeOK /\ \A b \in Actor : ServeInv(b)
  BY DEF ServesInv, GroupsInv
<1>f. failures' = 0 => failures = 0
  BY <1>i, FailuresCount DEF Next
<1>1. GroupsInv'
  BY <1>i, WorldKeepsGroups
<1>2. CASE UNCHANGED <<store, queue, task, actorKeys, running>>
  BY <1>i, <1>f, <1>1, <1>2 DEF ServesInv, ServeInv, Phase, UpToDate, Served, Accepted, Applied, At, KeyOfTask
<1>3. ASSUME NEW a \in Actor, Watch(a) \/ Resync(a), NEW b \in Actor PROVE ServeInv(b)'
  <2>1. UNCHANGED <<task, actorKeys, running>>
    BY <1>3 DEF Watch, Resync, local, host
  <2>2. \/ store'[b] = store[b] /\ (b \in queue => b \in queue')
        \/ store'[b] = NoObject \/ b \in queue'
    BY <1>i, <1>3 DEF Watch, Resync, K!Watch, K!Resync, TypeOK, K!KubeTypeOK
  <2>3. Phase(b)' /\ UpToDate(b)'
    BY <1>i, <2>1, <2>2 DEF ServeInv, Phase, UpToDate, At
  <2>4. Accepted(b)' = Accepted(b) /\ (Applied(b)' => Applied(b) /\ store'[b] = store[b])
    BY <2>1, <2>2 DEF Accepted, Applied, At, KeyOfTask, Mine
  <2> QED
    BY <1>i, <1>f, <2>1, <2>3, <2>4 DEF ServeInv, Served
<1>4. ASSUME Crash, NEW b \in Actor PROVE ServeInv(b)'
  <2>1. task'[b].pc = "idle" /\ store'[b] = NoObject
    BY <1>4 DEF Crash, NoTasks, Idle
  <2> QED
    BY <2>1 DEF ServeInv, Phase, UpToDate, Served, Accepted, Applied, At, Mine, ApplyPcs, RemovePcs, StatsPcs
<1> QED
  BY <1>1, <1>2, <1>3, <1>4 DEF ServesInv, World, Create, Update, Delete, LockElsewhere, UnlockElsewhere,
     K!Create, K!Update, K!Delete, local, host, kube

\* A host that has just started serves nobody.
LEMMA InitServes == Init => ServesInv
<1> SUFFICES ASSUME Init PROVE ServesInv
  OBVIOUS
<1>1. GroupsInv
  BY InitType, EmptyGroups DEF Init, GroupsInv
<1>2. \A a \in Actor : task[a].pc = "idle" /\ store[a] = NoObject
  BY DEF Init, NoTasks, Idle, K!KubeInit
<1> QED
  BY <1>1, <1>2 DEF ServesInv, ServeInv, Phase, UpToDate, Served, Accepted, Applied, At, Mine,
     ApplyPcs, RemovePcs, StatsPcs

\* The invariant is one.
LEMMA ServesInvariant == Spec => []ServesInv
<1>1. ServesInv /\ [Next]_vars => ServesInv'
  <2> SUFFICES ASSUME ServesInv, [Next]_vars PROVE ServesInv'
    OBVIOUS
  <2>1. CASE Next
    BY <2>1, TaskStepServes, WorldServes DEF Next
  <2>2. CASE UNCHANGED vars
    <3>1. GroupsInv'
      BY <2>2, StutterKeepsGroups DEF ServesInv
    <3> QED
      BY <2>2, <3>1 DEF ServesInv, ServeInv, Phase, UpToDate, Served, Accepted, Applied, At, KeyOfTask,
         vars, kube, host, bounds
  <2> QED
    BY <2>1, <2>2
<1> QED
  BY <1>1, InitServes, PTL DEF Spec

\* While nothing has failed, the replicas of a settled actor are subscribed, whatever actors of
\* the same key come and go while it is reconciled: remove_actor may drop the group that a
\* reconciliation has taken, and takes no other actor's call loops with it.
THEOREM ReplicasAlwaysServe == Spec => []ReplicasServe
<1>1. ServesInv => ReplicasServe
  BY DEF ServesInv, ServeInv, Served, Applied, ReplicasServe, Settled
<1> QED
  BY <1>1, ServesInvariant, PTL

----------------------------------------------------------------------------
(***************************************************************************)
(* The replicas that are reported.                                         *)
(*                                                                         *)
(* Where Actor objects of one host never share a public key, the call      *)
(* loops are exactly those of the tables, and the status in the object     *)
(* repeats their number.  Without this hypothesis it is not so: the run    *)
(* actors_replicas has remove_actor drop a group under a reconciliation.   *)
(***************************************************************************)

\* The specs that put an actor on this host.
HostSpecs(a) == {s \in Specs[a] : s.host = HostName}

\* No two Actor objects bring images of one public key to this host.
OwnKeys ==
    \A a, b \in Actor : a # b =>
        \A s \in HostSpecs(a), t \in HostSpecs(b) : KeyOf[s.image] # KeyOf[t.image]

\* Objects have the specs users gave them; the host knows an actor by the key of one of
\* them.
Owned(a) ==
    /\ api[a] # NoObject => api[a].spec \in Specs[a]
    /\ store[a] # NoObject => store[a].spec \in Specs[a]
    /\ ~At(a, "idle") => task[a].obj.spec \in HostSpecs(a)
    /\ actorKeys[a] # NoKey => \E s \in HostSpecs(a) : actorKeys[a] = KeyOf[s.image]

\* The instances that the tables have for an actor, found the way remove_actor does.
Held(a) == IF actorKeys[a] \in GroupKeys THEN Inst(actors[actorKeys[a]], a) ELSE 0

\* The status of the replicas and claims of a spec.
StatusFor(o) == [publicKey         |-> KeyOf[o.spec.image],
                 image             |-> o.spec.image,
                 availableReplicas |-> o.spec.replicas]

\* A copy has the status of its own spec, or the object at the API server is another one by
\* now, or has this status or none.
Reported(a, o) ==
    \/ o.status = StatusFor(o)
    \/ api[a] = NoObject
    \/ api[a].status \in {StatusFor(o), NoStatus}

\* Every call loop is in the table of a group of host.actors, or about to be.
Tracked(a) ==
    /\ running[a] = Held(a) + Started(a)
    /\ Pending(a) => task[a].group = actors[KeyOfTask(a)]

Observed(a) ==
    /\ Accepted(a) => running[a] = task[a].obj.spec.replicas
    /\ Accepted(a) /\ ~At(a, "patch") => Reported(a, task[a].obj)
    /\ Applied(a) => running[a] = store[a].spec.replicas /\ Reported(a, store[a])

ObservedInv == \A a \in Actor : Owned(a) /\ (failures = 0 => Tracked(a) /\ Observed(a))

\* What a step does to the object of an actor at the API server, apart from its status.
KeepsStatus(a) ==
    \/ api'[a] = NoObject
    \/ api'[a].status = NoStatus
    \/ api[a] # NoObject /\ api'[a].status = api[a].status

\* A step of a reconciliation patches the finalizer or the status of its object.
LEMMA StepPatches ==
    ASSUME GroupsInv, NEW a \in Actor, Start(a) \/ Locking(a) \/ Step(a)
    PROVE  /\ api'[a] # NoObject => api[a] # NoObject /\ api'[a].spec = api[a].spec
           /\ ~PatchStatus(a) => KeepsStatus(a)
<1>t. api \in [Actor -> K!Object \cup {NoObject}]
  BY DEF GroupsInv, TypeOK, K!KubeTypeOK
<1>1. CASE UNCHANGED api
  BY <1>1 DEF KeepsStatus
<1>2. CASE K!CanAddFinalizer(a) /\ K!AddFinalizer(a)
  <2>1. api[a] # NoObject /\ api[a] \in K!Object /\ api'[a] = [api[a] EXCEPT !.finalizer = TRUE]
    BY <1>2, <1>t DEF K!CanAddFinalizer, K!AddFinalizer
  <2>2. api'[a].spec = api[a].spec /\ api'[a].status = api[a].status
    BY <2>1 DEF K!Object
  <2> QED
    BY <2>1, <2>2 DEF KeepsStatus
<1>3. CASE K!CanRemoveFinalizer(a) /\ K!RemoveFinalizer(a)
  <2>1. api[a] # NoObject /\ api[a] \in K!Object
    BY <1>3, <1>t DEF K!CanRemoveFinalizer
  <2>2. api'[a] = IF api[a].deleting THEN NoObject ELSE [api[a] EXCEPT !.finalizer = FALSE]
    BY <1>3, <1>t DEF K!RemoveFinalizer
  <2>3. LET o == [api[a] EXCEPT !.finalizer = FALSE] IN o.spec = api[a].spec /\ o.status = api[a].status
    BY <2>1 DEF K!Object
  <2> QED
    BY <2>1, <2>2, <2>3 DEF KeepsStatus
<1>4. CASE PatchStatus(a) /\ K!CanPatchStatus(a) /\ K!WriteStatus(a, NewStatus(a))
  <2>1. api[a] # NoObject /\ api[a] \in K!Object /\ api'[a] = [api[a] EXCEPT !.status = NewStatus(a)]
    BY <1>4, <1>t DEF K!CanPatchStatus, K!WriteStatus
  <2>2. api'[a].spec = api[a].spec
    BY <2>1 DEF K!Object
  <2> QED
    BY <1>4, <2>1, <2>2
<1> QED
  BY <1>1, <1>2, <1>3, <1>4
     DEF Start, Locking, Step, Ignore, StartFinalize, StartApply, StartCleanup, Begin, AddFinalizer, Fetch,
         CheckKey, TakeGroup, Scale, Subscribe, SubscribeFail, PatchStatus, RemoveLock, RemoveMember,
         RemoveGroup, RemoveName, Stats, CountGroup, CountProviders, HostPatch, Release, kube

\* Only the keys of its own object come into actor_keys, and only its own reconciliation
\* changes the entry.
LEMMA StepOwned ==
    ASSUME GroupsInv, NEW a \in Actor, Owned(a), Start(a) \/ Locking(a) \/ Step(a)
    PROVE  Owned(a)'
<1> USE DEF At
<1>1. api'[a] # NoObject => api'[a].spec \in Specs[a]
  BY StepPatches DEF Owned
<1>2. store' = store
  BY DEF Start, Locking, Step, Ignore, StartFinalize, StartApply, StartCleanup, Begin, AddFinalizer, Fetch,
     CheckKey, TakeGroup, Scale, Subscribe, SubscribeFail, PatchStatus, RemoveLock, RemoveMember,
     RemoveGroup, RemoveName, Stats, CountGroup, CountProviders, HostPatch, Release, kube
<1>3. task'[a].pc # "idle" => task'[a].obj.spec \in HostSpecs(a)
  <2>1. CASE Moves(a)
    BY <2>1 DEF Moves, ApplyPcs, RemovePcs, StatsPcs, Owned
  <2>2. CASE Ends(a)
    BY <2>2 DEF Ends
  <2>3. CASE Ignore(a)
    BY <2>3 DEF Ignore
  <2>4. CASE StartFinalize(a) \/ StartApply(a) \/ StartCleanup(a)
    <3>1. PICK pc \in {"finalize", "fetch", "rmLock"}, c \in BOOLEAN : Begin(a, pc, c)
      BY <2>4 DEF StartFinalize, StartApply, StartCleanup
    <3>2. task'[a].obj = store[a] /\ Mine(store[a])
      BY <3>1, BeginFrame
    <3> QED
      BY <3>2 DEF Owned, HostSpecs, Mine
  <2> QED
    BY <2>1, <2>2, <2>3, <2>4, TaskMoves
<1>4. actorKeys'[a] # NoKey => \E s \in HostSpecs(a) : actorKeys'[a] = KeyOf[s.image]
  <2>1. CASE CheckKey(a) /\ actorKeys' = [actorKeys EXCEPT ![a] = KeyOfTask(a)]
    <3>1. actorKeys'[a] = KeyOf[task[a].obj.spec.image]
      BY <2>1 DEF GroupsInv, TypeOK, KeyOfTask
    <3> QED
      BY <2>1, <3>1 DEF CheckKey, Owned
  <2>2. CASE actorKeys' = [actorKeys EXCEPT ![a] = NoKey]
    BY <2>2 DEF GroupsInv, TypeOK
  <2>3. CASE actorKeys' = actorKeys
    BY <2>3 DEF Owned
  <2> QED
    BY <2>1, <2>2, <2>3
       DEF Start, Locking, Step, Ignore, StartFinalize, StartApply, StartCleanup, Begin, AddFinalizer, Fetch,
         CheckKey, TakeGroup, Scale, Subscribe, SubscribeFail, PatchStatus, RemoveLock, RemoveMember,
         RemoveGroup, RemoveName, Stats, CountGroup, CountProviders, HostPatch, Release, host
<1> QED
  BY <1>1, <1>2, <1>3, <1>4 DEF Owned

\* A reconciliation makes and drops no group but that of its actor's key.
LEMMA StepChangesOwnKey ==
    ASSUME GroupsInv, NEW a \in Actor, Start(a) \/ Locking(a) \/ Step(a), NEW k \in Key, k # actorKeys[a]
    PROVE  actors'[k] = actors[k]
<1>t. actors \in [Key -> GroupId \cup {NoGroup}] /\ ActorInv(a)
  BY DEF GroupsInv, TypeOK
<1>1. CASE TakeGroup(a)
  <2>1. actorKeys[a] = KeyOfTask(a)
    BY <1>1, <1>t DEF TakeGroup, ActorInv, At
  <2>2. UNCHANGED actors \/ \E g : actors' = [actors EXCEPT ![KeyOfTask(a)] = g]
    BY <1>1 DEF TakeGroup
  <2> QED
    BY <1>t, <2>1, <2>2
<1>2. CASE RemoveGroup(a)
  BY <1>2, <1>t DEF RemoveGroup
<1> QED
  BY <1>1, <1>2
     DEF Start, Locking, Step, Ignore, StartFinalize, StartApply, StartCleanup, Begin, AddFinalizer, Fetch,
         CheckKey, Scale, Subscribe, SubscribeFail, PatchStatus, RemoveLock, RemoveMember, RemoveName, Stats,
         CountGroup, CountProviders, HostPatch, Release, host

\* So the call loops of the others stay where they are tracked.
LEMMA OthersTracked ==
    ASSUME OwnKeys, GroupsInv, NEW a \in Actor, NEW b \in Actor, b # a, Owned(a), Owned(b), Tracked(b),
           Start(a) \/ Locking(a) \/ Step(a)
    PROVE  Tracked(b)'
<1>t. TypeOK /\ ActorInv(b)
  BY DEF GroupsInv
<1>1. /\ task'[b] = task[b] /\ actorKeys'[b] = actorKeys[b] /\ running'[b] = running[b]
      /\ \A g \in GroupId : members'[g][b] = members[g][b]
  BY StepLeavesOthers DEF Others
<1>2. actorKeys[b] # NoKey => actorKeys[b] \in Key /\ actors'[actorKeys[b]] = actors[actorKeys[b]]
  <2> SUFFICES ASSUME actorKeys[b] # NoKey
               PROVE  actorKeys[b] \in Key /\ actors'[actorKeys[b]] = actors[actorKeys[b]]
    OBVIOUS
  <2>1. actorKeys[b] \in Key
    BY <1>t DEF TypeOK
  <2>2. actorKeys[b] # actorKeys[a]
    BY DEF OwnKeys, Owned
  <2> QED
    BY <2>1, <2>2, StepChangesOwnKey
<1>3. actorKeys[b] \in GroupKeys' <=> actorKeys[b] \in GroupKeys
  BY <1>2, ActorsAssumption DEF GroupKeys
<1>4. Held(b)' = Held(b)
  <2>1. CASE actorKeys[b] \in GroupKeys
    <3>1. actorKeys[b] # NoKey /\ actors[actorKeys[b]] \in GroupId
      BY <2>1, <1>t, ActorsAssumption DEF GroupKeys, TypeOK
    <3> QED
      BY <2>1, <3>1, <1>1, <1>2, <1>3 DEF Held, Inst
  <2>2. CASE actorKeys[b] \notin GroupKeys
    BY <2>2, <1>1, <1>3 DEF Held
  <2> QED
    BY <2>1, <2>2
<1>5. Started(b)' = Started(b) /\ (Pending(b)' <=> Pending(b)) /\ KeyOfTask(b)' = KeyOfTask(b)
  BY <1>1 DEF Started, At, Pending, KeyOfTask
<1>6. Pending(b) => actorKeys[b] = KeyOfTask(b) /\ KeyOfTask(b) \in Key
  <2>1. Pending(b) => ~At(b, "idle")
    BY DEF Pending, At
  <2> QED
    BY <2>1, <1>t, TaskFacts DEF ActorInv, Pending
<1>7. Pending(b)' => task'[b].group = actors'[KeyOfTask(b)']
  BY <1>1, <1>2, <1>5, <1>6, ActorsAssumption DEF Tracked
<1> QED
  BY <1>1, <1>4, <1>5, <1>7 DEF Tracked

\* The actor whose reconciliation is at work on a group is tracked in it.
LEMMA HeldInGroup ==
    ASSUME GroupsInv, NEW a \in Actor, Tracked(a), Pending(a) \/ Removing(a)
    PROVE  /\ task[a].group \in GroupId /\ task[a].group = actors[actorKeys[a]] /\ actorKeys[a] \in GroupKeys
           /\ Held(a) = Inst(task[a].group, a) /\ Inst(task[a].group, a) \in Nat
<1>1. TypeOK /\ ActorInv(a)
  BY DEF GroupsInv
<1>2. task[a].group \in GroupId /\ Inst(task[a].group, a) \in Nat
  BY TaskFacts, ActorsAssumption
<1>3. task[a].group = actors[actorKeys[a]] /\ actorKeys[a] \in GroupKeys
  <2>1. CASE Removing(a)
    BY <1>1, <2>1 DEF ActorInv
  <2>2. CASE Pending(a)
    <3>1. ~At(a, "idle")
      BY <2>2 DEF Pending, At
    <3> QED
      BY <1>1, <1>2, <2>2, <3>1, TaskFacts, ActorsAssumption DEF ActorInv, Pending, Tracked, GroupKeys
  <2> QED
    BY <2>1, <2>2
<1> QED
  BY <1>2, <1>3 DEF Held

\* The steps of a reconciliation that leave the tables alone.
LEMMA PlainTracked ==
    ASSUME NEW a \in Actor, Tracked(a), UNCHANGED host,
           ~At(a, "subscribe"), ~Pending(a)'
    PROVE  Tracked(a)'
<1>1. Started(a) = 0 /\ Started(a)' = 0
  BY DEF Started, Pending, At
<1>2. Held(a)' = Held(a) /\ running'[a] = running[a]
  BY DEF Held, GroupKeys, Inst, host
<1> QED
  BY <1>1, <1>2 DEF Tracked

\* actor_keys and host.actors in reconcile_actor: an actor new to a group has no entry in it.
LEMMA EnterTracked ==
    ASSUME GroupsInv, NEW a \in Actor, Tracked(a), CheckKey(a) \/ TakeGroup(a)
    PROVE  Tracked(a)'
<1> USE DEF At
<1>t. TypeOK /\ ActorInv(a) /\ task[a] \in Task /\ task \in [Actor -> Task]
  BY DEF GroupsInv, TypeOK
<1>k. KeyOfTask(a) \in Key /\ Started(a) = 0
  BY TaskFacts DEF CheckKey, TakeGroup, Started
<1>1. CASE CheckKey(a) /\ Goto(a, "stats") /\ UNCHANGED actorKeys
  <2>0. task'[a].pc = "stats"
    BY <1>1, GotoFrame
  <2>1. ~Pending(a)' /\ ~At(a, "subscribe") /\ UNCHANGED host
    BY <1>1, <2>0 DEF CheckKey, Pending, host
  <2> QED
    BY <2>1, PlainTracked
<1>2. CASE /\ CheckKey(a) /\ actorKeys[a] \in {NoKey, KeyOfTask(a)}
           /\ actorKeys' = [actorKeys EXCEPT ![a] = KeyOfTask(a)] /\ Goto(a, "group")
  <2>1. /\ actorKeys'[a] = KeyOfTask(a) /\ UNCHANGED <<actors, members, running>> /\ GroupKeys' = GroupKeys
    BY <1>2, <1>t DEF CheckKey, TypeOK, GroupKeys
  <2>0. task'[a].pc = "group"
    BY <1>2, GotoFrame
  <2>2. ~Pending(a)' /\ Started(a)' = 0
    BY <2>0 DEF Pending, Started
  <2>3. Held(a)' = Held(a)
    <3>1. CASE actorKeys[a] = KeyOfTask(a)
      BY <2>1, <3>1 DEF Held, Inst
    <3>2. CASE actorKeys[a] = NoKey
      <4>1. Held(a) = 0
        BY <3>2, ActorsAssumption DEF Held, GroupKeys
      <4>2. \A k \in GroupKeys : members[actors[k]][a] = NoEntry
        BY <3>2, <1>t, ActorsAssumption DEF ActorInv, GroupKeys
      <4> QED
        BY <2>1, <4>1, <4>2 DEF Held, Inst
    <3> QED
      BY <1>2, <3>1, <3>2
  <2> QED
    BY <1>k, <2>1, <2>2, <2>3 DEF Tracked
<1>3. CASE TakeGroup(a)
  <2>0. actorKeys[a] = KeyOfTask(a) /\ UNCHANGED <<actorKeys, members, running>>
    BY <1>3, <1>t DEF TakeGroup, ActorInv
  <2>1. ASSUME NEW g, task' = [task EXCEPT ![a].pc = "scale", ![a].group = g]
        PROVE  task'[a].group = g /\ Started(a)' = 0 /\ KeyOfTask(a)' = KeyOfTask(a)
    <3>1. task'[a] = [task[a] EXCEPT !.pc = "scale", !.group = g]
      BY <1>t, <2>1
    <3>2. task'[a].group = g /\ task'[a].pc = "scale" /\ task'[a].obj = task[a].obj
      BY <1>t, <3>1 DEF Task
    <3> QED
      BY <3>2 DEF Started, KeyOfTask
  <2>2. CASE UNCHANGED actors /\ task' = [task EXCEPT ![a].pc = "scale", ![a].group = actors[KeyOfTask(a)]]
    <3>1. Held(a)' = Held(a)
      BY <2>0, <2>2 DEF Held, GroupKeys, Inst
    <3> QED
      BY <1>k, <2>0, <2>1, <2>2, <3>1 DEF Tracked
  <2>3. CASE /\ actors[KeyOfTask(a)] = NoGroup
             /\ \E g \in GroupId :
                  /\ Fresh(g) /\ actors' = [actors EXCEPT ![KeyOfTask(a)] = g]
                  /\ task' = [task EXCEPT ![a].pc = "scale", ![a].group = g]
    <3>1. PICK g \in GroupId : /\ Fresh(g) /\ actors' = [actors EXCEPT ![KeyOfTask(a)] = g]
                               /\ task' = [task EXCEPT ![a].pc = "scale", ![a].group = g]
      BY <2>3
    <3>2. actors'[KeyOfTask(a)] = g
      BY <3>1, <1>t, <1>k DEF TypeOK
    <3>3. Held(a) = 0
      BY <2>0, <2>3 DEF Held, GroupKeys
    <3>4. Held(a)' = 0
      BY <2>0, <3>1, <3>2 DEF Held, Inst, Fresh
    <3> QED
      BY <1>k, <2>0, <2>1, <3>1, <3>2, <3>3, <3>4 DEF Tracked
  <2>4. ASSUME \E g \in GroupId : Fresh(g)
        PROVE  (CHOOSE x \in GroupId : Fresh(x)) \in GroupId /\ Fresh(CHOOSE x \in GroupId : Fresh(x))
    BY <2>4
  <2> QED
    BY <1>3, <2>2, <2>3, <2>4 DEF TakeGroup
<1> QED
  BY <1>1, <1>2, <1>3 DEF CheckKey

\* group.actors in reconcile_actor: what is started is counted until the table has it.
LEMMA ScaleTracked ==
    ASSUME GroupsInv, GroupsInv', NEW a \in Actor, Tracked(a), Scale(a) \/ Subscribe(a)
    PROVE  Tracked(a)'
<1> DEFINE g == task[a].group
           wanted == task[a].obj.spec.replicas
<1> USE DEF At
<1>t. TypeOK /\ ActorInv(a) /\ task[a] \in Task /\ task \in [Actor -> Task]
  BY DEF GroupsInv, TypeOK
<1>p. Pending(a) /\ task[a].pc # "idle"
  BY DEF Scale, Subscribe, Pending
<1>h. g \in GroupId /\ g = actors[actorKeys[a]] /\ actorKeys[a] \in GroupKeys /\ Held(a) = Inst(g, a)
  BY <1>p, HeldInGroup
<1>r. running[a] = Inst(g, a) + Started(a) /\ actorKeys[a] = KeyOfTask(a)
  BY <1>h, <1>p, <1>t DEF Tracked, ActorInv, Pending
<1>n. /\ Inst(g, a) \in Nat /\ Started(a) \in Nat /\ running[a] \in Nat /\ running'[a] \in Nat
      /\ wanted \in Nat
  BY <1>t, <1>h, <1>p, InstType, TaskFacts, ActorsAssumption DEF GroupsInv, TypeOK, Started, Task
<1>u. UNCHANGED <<actors, actorKeys>> /\ GroupKeys' = GroupKeys
  BY DEF Scale, Subscribe, GroupKeys
<1>1. CASE task'[a].pc = "patch"
  <2>1. /\ members'[g][a] # NoEntry => members'[g][a].instances = wanted
        /\ members'[g][a] = NoEntry => wanted = 0
        /\ running'[a] + Inst(g, a) + Started(a) = running[a] + wanted
    BY <1>1, ScaleReaches
  <2>2. Held(a)' = wanted
    BY <1>h, <1>u, <2>1 DEF Held, Inst
  <2>3. Started(a)' = 0 /\ ~Pending(a)'
    BY <1>1 DEF Started, Pending
  <2> QED
    BY <1>n, <1>r, <2>1, <2>2, <2>3 DEF Tracked
<1>2. CASE /\ Scale(a) /\ UNCHANGED <<members, running>>
           /\ task' = [task EXCEPT ![a].pc = "subscribe", ![a].left = wanted - Instances(a), ![a].started = 0]
  <2>1. task'[a] = [task[a] EXCEPT !.pc = "subscribe", !.left = wanted - Instances(a), !.started = 0]
    BY <1>2, <1>t
  <2>2. task'[a].group = g /\ task'[a].started = 0 /\ task'[a].obj = task[a].obj
    BY <2>1, <1>t DEF Task
  <2>3. Started(a)' = 0 /\ Started(a) = 0 /\ KeyOfTask(a)' = KeyOfTask(a)
    BY <1>2, <2>2 DEF Started, Scale, KeyOfTask
  <2>4. Held(a)' = Held(a)
    BY <1>2, <1>u DEF Held, Inst
  <2> QED
    BY <1>2, <1>h, <1>r, <1>u, <2>2, <2>3, <2>4 DEF Tracked
<1>3. CASE /\ Subscribe(a) /\ UNCHANGED members
           /\ task' = [task EXCEPT ![a].left = @ - 1, ![a].started = @ + 1]
  <2>1. task'[a] = [task[a] EXCEPT !.left = @ - 1, !.started = @ + 1]
    BY <1>3, <1>t
  <2>2. /\ task'[a].group = g /\ task'[a].started = task[a].started + 1 /\ task'[a].obj = task[a].obj
        /\ task'[a].pc = "subscribe"
    BY <1>3, <2>1, <1>t DEF Task, Subscribe
  <2>3. Started(a)' = Started(a) + 1 /\ KeyOfTask(a)' = KeyOfTask(a)
    BY <1>3, <2>2 DEF Started, Subscribe, KeyOfTask
  <2>4. Held(a)' = Held(a)
    BY <1>3, <1>u DEF Held, Inst
  <2>5. running'[a] = running[a] + 1
    BY <1>3, <1>t DEF Subscribe, TypeOK
  <2> QED
    BY <1>h, <1>n, <1>r, <1>u, <2>2, <2>3, <2>4, <2>5 DEF Tracked
<1>4. CASE Scale(a) /\ Goto(a, "patch")
  BY <1>1, <1>4, GotoFrame
<1>5. CASE Subscribe(a) /\ Joined(a)
  <2>1. task'[a] = [task[a] EXCEPT !.pc = "patch", !.left = 0, !.started = 0]
    BY <1>5, <1>t DEF Joined
  <2>2. task'[a].pc = "patch"
    BY <2>1, <1>t DEF Task
  <2> QED
    BY <1>1, <2>2
<1> QED
  BY <1>2, <1>3, <1>4, <1>5 DEF Scale, Subscribe

\* remove_actor aborts all the actor has, and forgets its key only then.
LEMMA RemoveTracked ==
    ASSUME GroupsInv, NEW a \in Actor, Tracked(a), RemoveMember(a) \/ RemoveGroup(a) \/ RemoveName(a)
    PROVE  Tracked(a)'
<1> DEFINE g == task[a].group
<1> USE DEF At
<1>t. TypeOK /\ ActorInv(a)
  BY DEF GroupsInv
<1>s. Started(a) = 0 /\ Started(a)' = 0 /\ ~Pending(a)'
  <2>1. task'[a].pc \in {"rmCheck", "rmName", "stats"}
    BY GotoFrame DEF RemoveMember, RemoveGroup, RemoveName
  <2> QED
    BY <2>1 DEF RemoveMember, RemoveGroup, RemoveName, Started, Pending
<1>n. running[a] \in Nat
  BY <1>t, ActorsAssumption DEF TypeOK
<1>1. CASE RemoveMember(a)
  <2>1. Removing(a)
    BY <1>1 DEF RemoveMember, Removing
  <2>2. g \in GroupId /\ g = actors[actorKeys[a]] /\ actorKeys[a] \in GroupKeys /\ Held(a) = Inst(g, a)
        /\ Inst(g, a) \in Nat /\ Instances(a) = Inst(g, a)
    BY <2>1, HeldInGroup, TaskFacts
  <2>3. members'[g][a] = NoEntry /\ running'[a] = running[a] - Instances(a)
    BY <1>1, <1>t, <2>2 DEF RemoveMember, TypeOK
  <2>4. Held(a)' = 0
    BY <1>1, <2>2, <2>3 DEF RemoveMember, Held, Inst, GroupKeys
  <2> QED
    BY <1>n, <1>s, <2>2, <2>3, <2>4 DEF Tracked
<1>2. CASE RemoveGroup(a)
  <2>1. Removing(a) /\ members[g][a] = NoEntry
    BY <1>2, <1>t DEF RemoveGroup, Removing, ActorInv
  <2>2. g = actors[actorKeys[a]] /\ actorKeys[a] \in GroupKeys /\ Held(a) = Inst(g, a)
    BY <2>1, HeldInGroup
  <2>3. Held(a) = 0
    BY <2>1, <2>2 DEF Inst
  <2>4. UNCHANGED <<actorKeys, members, running>> /\ actors'[actorKeys[a]] \in {g, NoGroup}
    BY <1>2, <1>t, <2>2 DEF RemoveGroup, TypeOK, GroupKeys
  <2>5. Held(a)' = 0
    BY <2>1, <2>4 DEF Held, Inst, GroupKeys
  <2> QED
    BY <1>s, <2>3, <2>4, <2>5 DEF Tracked
<1>3. CASE RemoveName(a)
  <2>1. NoMember(a) /\ UNCHANGED running /\ actorKeys'[a] = NoKey
    BY <1>3, <1>t DEF RemoveName, ActorInv, TypeOK
  <2>2. Held(a) = 0
    BY <2>1 DEF NoMember, Held, Inst
  <2>3. Held(a)' = 0
    BY <2>1, ActorsAssumption DEF Held, GroupKeys
  <2> QED
    BY <1>s, <2>1, <2>2, <2>3 DEF Tracked
<1> QED
  BY <1>1, <1>2, <1>3

\* While nothing fails, every step of a reconciliation keeps track of the call loops of its actor.
LEMMA StepTracked ==
    ASSUME GroupsInv, GroupsInv', NEW a \in Actor, Tracked(a), failures' = 0,
           Start(a) \/ Locking(a) \/ Step(a)
    PROVE  Tracked(a)'
<1> USE DEF At
<1>n. ~Fail
  BY FailType DEF GroupsInv
<1>g. \A pc : Goto(a, pc) => task'[a].pc = pc
  BY GotoFrame
<1>1. CASE CheckKey(a) \/ TakeGroup(a)
  BY <1>1, EnterTracked
<1>2. CASE Scale(a) \/ Subscribe(a)
  BY <1>2, ScaleTracked
<1>3. CASE RemoveMember(a) \/ RemoveGroup(a) \/ RemoveName(a)
  BY <1>3, RemoveTracked
<1>4. CASE SubscribeFail(a)
  BY <1>4, <1>n DEF SubscribeFail
<1>5. CASE Ignore(a)
  BY <1>5 DEF Ignore, host, Tracked, Held, Started, Pending, KeyOfTask, GroupKeys, Inst
<1>6. CASE StartFinalize(a) \/ StartApply(a) \/ StartCleanup(a)
  <2>1. PICK pc \in {"finalize", "fetch", "rmLock"}, c \in BOOLEAN : Begin(a, pc, c)
    BY <1>6 DEF StartFinalize, StartApply, StartCleanup
  <2>2. task'[a].pc = pc /\ task[a].pc = "idle"
    BY <2>1, BeginFrame
  <2>3. ~At(a, "subscribe") /\ ~Pending(a)' /\ UNCHANGED host
    BY <2>1, <2>2 DEF Begin, Pending
  <2> QED
    BY <2>3, PlainTracked
<1>7. CASE \/ AddFinalizer(a) \/ Release(a) \/ Fetch(a) \/ PatchStatus(a) \/ RemoveLock(a)
           \/ Stats(a) \/ (\E k \in Key : CountGroup(a, k)) \/ CountProviders(a) \/ HostPatch(a)
  <2>1. UNCHANGED host
    BY <1>7 DEF AddFinalizer, Release, Fetch, PatchStatus, RemoveLock, Stats, CountGroup, CountProviders, HostPatch
  <2>2. task[a].pc \in {"finalize", "release", "fetch", "patch"} \cup {"rmLock"} \cup StatsPcs
    BY <1>7 DEF AddFinalizer, Release, Fetch, PatchStatus, RemoveLock, Stats, CountGroup, CountProviders, HostPatch,
       StatsPcs
  <2>3. ~Pending(a)'
    <3>1. CASE Fetch(a)
      BY <3>1, <1>g DEF Fetch, Pending
    <3>2. CASE PatchStatus(a)
      BY <3>2, <1>g DEF PatchStatus, Pending
    <3>3. CASE task[a].pc \notin ApplyPcs
      <4>1. task[a].pc \notin {"idle"}
        BY <2>2 DEF StatsPcs
      <4>2. Moves(a) \/ Ends(a)
        BY <4>1, TaskMoves DEF Ignore, StartFinalize, StartApply, StartCleanup, Begin
      <4> QED
        BY <3>3, <4>2 DEF Moves, Ends, Pending, ApplyPcs, RemovePcs, StatsPcs
    <3> QED
      BY <1>7, <3>1, <3>2, <3>3 DEF AddFinalizer, Release, RemoveLock, Stats, CountGroup, CountProviders,
         HostPatch, ApplyPcs
  <2>4. ~At(a, "subscribe")
    BY <2>2 DEF StatsPcs
  <2> QED
    BY <2>1, <2>3, <2>4, PlainTracked
<1> QED
  BY <1>1, <1>2, <1>3, <1>4, <1>5, <1>6, <1>7 DEF Start, Locking, Step

\* A status that is reported stays reported while nobody patches another.
LEMMA ReportedStays ==
    ASSUME NEW a \in Actor, KeepsStatus(a), NEW o, Reported(a, o)
    PROVE  \/ o.status = StatusFor(o)
           \/ api'[a] = NoObject
           \/ api'[a].status \in {StatusFor(o), NoStatus}
BY DEF KeepsStatus, Reported

\* The last step of an accepted reconciliation but the host's status reports the replicas.
LEMMA PatchReports ==
    ASSUME GroupsInv, NEW a \in Actor, failures' = 0, PatchStatus(a)
    PROVE  LET o == task[a].obj IN
           \/ o.status = StatusFor(o)
           \/ api'[a] = NoObject
           \/ api'[a].status \in {StatusFor(o), NoStatus}
<1>n. ~Fail
  BY FailType DEF GroupsInv
<1>t. api \in [Actor -> K!Object \cup {NoObject}]
  BY DEF GroupsInv, TypeOK, K!KubeTypeOK
<1>s. NewStatus(a) = StatusFor(task[a].obj)
  BY DEF NewStatus, StatusFor, KeyOfTask
<1>1. CASE K!CanPatchStatus(a) /\ K!WriteStatus(a, NewStatus(a))
  <2>1. api[a] \in K!Object /\ api'[a] = [api[a] EXCEPT !.status = NewStatus(a)]
    BY <1>1, <1>t DEF K!CanPatchStatus, K!WriteStatus
  <2>2. api'[a].status = NewStatus(a)
    BY <2>1 DEF K!Object
  <2> QED
    BY <1>s, <2>2
<1>2. CASE UNCHANGED api /\ (task[a].obj.status = NewStatus(a) \/ ~K!CanPatchStatus(a))
  BY <1>2, <1>s DEF K!CanPatchStatus
<1> QED
  BY <1>n, <1>1, <1>2 DEF PatchStatus

\* While nothing fails, a reconciliation reports the replicas of its actor.
LEMMA StepObserved ==
    ASSUME GroupsInv, GroupsInv', NEW a \in Actor, Phase(a), UpToDate(a), Tracked(a), Observed(a),
           failures' = 0, Start(a) \/ Locking(a) \/ Step(a)
    PROVE  Observed(a)'
<1>1. ASSUME Accepted(a)'
      PROVE  /\ running'[a] = task'[a].obj.spec.replicas
             /\ task'[a].pc # "patch" => Reported(a, task[a].obj)'
  <2>0. Moves(a)
    <3>1. task'[a].pc \in {"patch"} \cup StatsPcs
      BY <1>1 DEF Accepted, At
    <3>2. ~Ends(a)
      BY <3>1 DEF Ends, StatsPcs
    <3>3. ~Ignore(a)
      BY <3>1 DEF Ignore, At, StatsPcs
    <3>4. ~(StartFinalize(a) \/ StartApply(a) \/ StartCleanup(a))
      <4> SUFFICES ASSUME NEW pc \in {"finalize", "fetch", "rmLock"}, NEW c \in BOOLEAN, Begin(a, pc, c)
                   PROVE  FALSE
        BY DEF StartFinalize, StartApply, StartCleanup
      <4> QED
        BY <3>1, BeginFrame DEF StatsPcs
    <3> QED
      BY <3>2, <3>3, <3>4, TaskMoves
  <2>1. task'[a].obj = task[a].obj
    BY <2>0 DEF Moves
  <2>2. CASE (Scale(a) \/ Subscribe(a)) /\ task'[a].pc = "patch"
    <3> DEFINE wanted == task[a].obj.spec.replicas
               g == task[a].group
    <3>1. running'[a] + Inst(g, a) + Started(a) = running[a] + wanted
      BY <2>2, ScaleReaches
    <3>2. Pending(a) /\ task[a].pc # "idle"
      BY <2>2 DEF Scale, Subscribe, Pending, At
    <3>3. running[a] = Inst(g, a) + Started(a) /\ Inst(g, a) \in Nat
      BY <3>2, HeldInGroup DEF Tracked
    <3>4. wanted \in Nat /\ Started(a) \in Nat /\ running[a] \in Nat /\ running'[a] \in Nat
      BY <3>2, TaskFacts, ActorsAssumption DEF GroupsInv, TypeOK, Started, Task, At
    <3>5. running'[a] = wanted
      BY <3>1, <3>3, <3>4
    <3> QED
      BY <2>1, <2>2, <3>5
  <2>3. CASE Accepted(a) /\ running'[a] = running[a]
    <3>1. running'[a] = task'[a].obj.spec.replicas
      BY <2>1, <2>3 DEF Observed
    <3>2. CASE PatchStatus(a)
      BY <2>1, <3>1, <3>2, PatchReports DEF Reported
    <3>3. CASE ~PatchStatus(a) /\ ~At(a, "patch")
      <4>1. Reported(a, task[a].obj) /\ KeepsStatus(a)
        BY <2>3, <3>3, StepPatches DEF Observed
      <4> QED
        BY <2>1, <3>1, <4>1, ReportedStays DEF Reported
    <3>4. At(a, "patch") => PatchStatus(a)
      BY DEF Start, Locking, Step, Ignore, StartFinalize, StartApply, StartCleanup, Begin, AddFinalizer, Fetch,
         CheckKey, TakeGroup, Scale, Subscribe, SubscribeFail, RemoveLock, RemoveMember, RemoveGroup, RemoveName,
         Stats, CountGroup, CountProviders, HostPatch, Release, At
    <3> QED
      BY <3>2, <3>3, <3>4
  <2> QED
    BY <1>1, <2>2, <2>3, StepAccepted
<1>2. ASSUME Applied(a)'
      PROVE  running'[a] = store'[a].spec.replicas /\ Reported(a, store[a])'
  <2>1. /\ store'[a] = task[a].obj /\ At(a, "hostPatch") /\ Accepted(a)
        /\ UNCHANGED <<api, running, actorKeys>>
    BY <1>2, StepApplied
  <2>2. running[a] = task[a].obj.spec.replicas /\ Reported(a, task[a].obj)
    BY <2>1 DEF Observed, At
  <2> QED
    BY <2>1, <2>2 DEF Reported
<1>3. Accepted(a)' /\ ~At(a, "patch")' => Reported(a, task[a].obj)'
  BY <1>1 DEF At
<1> QED
  BY <1>1, <1>2, <1>3 DEF Observed

\* A reconciliation keeps what every actor reports true.
LEMMA TaskStepObserved ==
    ASSUME OwnKeys, ServesInv, ServesInv', ObservedInv, NEW a \in Actor, Start(a) \/ Locking(a) \/ Step(a)
    PROVE  ObservedInv'
<1>i. GroupsInv /\ GroupsInv' /\ TypeOK /\ \A b \in Actor : Phase(b) /\ UpToDate(b)
  BY DEF ServesInv, ServeInv, GroupsInv
<1>f. failures' = 0 => failures = 0
  BY <1>i, FailuresCount DEF Next
<1>1. Owned(a)' /\ (failures' = 0 => Tracked(a)' /\ Observed(a)')
  BY <1>i, <1>f, StepOwned, StepTracked, StepObserved DEF ObservedInv
<1>2. ASSUME NEW b \in Actor, b # a
      PROVE  Owned(b)' /\ (failures' = 0 => Tracked(b)' /\ Observed(b)')
  <2>1. /\ task'[b] = task[b] /\ actorKeys'[b] = actorKeys[b] /\ running'[b] = running[b]
        /\ store' = store /\ api'[b] = api[b] /\ (b \in queue' <=> b \in queue)
    BY <1>i, <1>2, StepLeavesOthers, StepLeavesOtherObjects DEF Others
  <2>2. Owned(b)'
    BY <2>1 DEF ObservedInv, Owned, At
  <2>3. failures' = 0 => Tracked(b)'
    BY <1>i, <1>f, <1>2, OthersTracked DEF ObservedInv
  <2>4. Observed(b) => Observed(b)'
    BY <2>1 DEF Observed, Accepted, Applied, Reported, At, KeyOfTask
  <2> QED
    BY <1>f, <2>2, <2>3, <2>4 DEF ObservedInv
<1> QED
  BY <1>1, <1>2 DEF ObservedInv

\* Users change specs and delete objects, and never a status; a crash takes all call loops and
\* all copies.
LEMMA WorldObserved ==
    ASSUME ServesInv, ObservedInv, World
    PROVE  ObservedInv'
<1>t. /\ GroupsInv /\ TypeOK /\ api \in [Actor -> K!Object \cup {NoObject}]
      /\ store \in [Actor -> K!Object \cup {NoObject}]
  BY DEF ServesInv, GroupsInv, TypeOK, K!KubeTypeOK
<1>f. failures' = 0 => failures = 0
  BY <1>t, FailuresCount DEF Next
<1>1. CASE /\ UNCHANGED <<store, queue, task, host>>
           /\ \A b \in Actor : KeepsStatus(b) /\ (api'[b] # NoObject => api'[b].spec \in Specs[b])
  <2> SUFFICES ASSUME NEW b \in Actor PROVE Owned(b)' /\ (failures' = 0 => Tracked(b)' /\ Observed(b)')
    BY DEF ObservedInv
  <2>1. Owned(b)'
    BY <1>1 DEF ObservedInv, Owned, At, host
  <2>2. Tracked(b) => Tracked(b)'
    BY <1>1 DEF Tracked, Held, Started, Pending, KeyOfTask, GroupKeys, Inst, At, host
  <2>3. Observed(b) => Observed(b)'
    <3>1. (Accepted(b)' <=> Accepted(b)) /\ (Applied(b)' <=> Applied(b)) /\ (At(b, "patch")' <=> At(b, "patch"))
      BY <1>1 DEF Accepted, Applied, At, KeyOfTask, host
    <3>2. Reported(b, task[b].obj) => Reported(b, task[b].obj)'
      BY <1>1, ReportedStays DEF Reported
    <3>3. Reported(b, store[b]) => Reported(b, store[b])'
      BY <1>1, ReportedStays DEF Reported
    <3> QED
      BY <1>1, <3>1, <3>2, <3>3 DEF Observed, host
  <2> QED
    BY <1>f, <2>1, <2>2, <2>3 DEF ObservedInv
<1>2. ASSUME NEW a \in Actor, NEW s \in Specs[a], Create(a, s) PROVE ObservedInv'
  <2>1. api' = [api EXCEPT ![a] = [spec |-> s, status |-> NoStatus, finalizer |-> FALSE, deleting |-> FALSE]]
    BY <1>2 DEF Create, K!Create
  <2>2. api'[a].spec = s /\ api'[a].status = NoStatus /\ \A b \in Actor : b # a => api'[b] = api[b]
    BY <2>1, <1>t
  <2> QED
    BY <1>1, <1>2, <2>2 DEF Create, K!Create, local, KeepsStatus, ObservedInv, Owned
<1>3. ASSUME NEW a \in Actor, NEW s \in Specs[a], Update(a, s) PROVE ObservedInv'
  <2>1. api[a] # NoObject /\ api[a] \in K!Object /\ api' = [api EXCEPT ![a] = [api[a] EXCEPT !.spec = s]]
    BY <1>3, <1>t DEF Update, K!Update
  <2>2. api'[a] = [api[a] EXCEPT !.spec = s] /\ \A b \in Actor : b # a => api'[b] = api[b]
    BY <2>1, <1>t
  <2>3. api'[a].spec = s /\ api'[a].status = api[a].status
    BY <2>1, <2>2 DEF K!Object
  <2> QED
    BY <1>1, <1>3, <2>1, <2>2, <2>3 DEF Update, K!Update, local, KeepsStatus, ObservedInv, Owned
<1>4. ASSUME NEW a \in Actor, Delete(a) PROVE ObservedInv'
  <2>1. /\ api[a] # NoObject /\ api[a] \in K!Object
        /\ \/ api' = [api EXCEPT ![a] = [api[a] EXCEPT !.deleting = TRUE]]
           \/ api' = [api EXCEPT ![a] = NoObject]
    BY <1>4, <1>t DEF Delete, K!Delete
  <2>2. /\ api'[a] = NoObject \/ api'[a] = [api[a] EXCEPT !.deleting = TRUE]
        /\ \A b \in Actor : b # a => api'[b] = api[b]
    BY <2>1, <1>t
  <2>3. api'[a] # NoObject => api'[a].spec = api[a].spec /\ api'[a].status = api[a].status
    BY <2>1, <2>2 DEF K!Object
  <2> QED
    BY <1>1, <1>4, <2>1, <2>2, <2>3 DEF Delete, K!Delete, local, KeepsStatus, ObservedInv, Owned
<1>5. ASSUME NEW a \in Actor, Watch(a) \/ Resync(a), NEW b \in Actor
      PROVE  Owned(b)' /\ (failures' = 0 => Tracked(b)' /\ Observed(b)')
  <2>1. UNCHANGED <<api, task, host>>
    BY <1>5 DEF Watch, Resync, K!Watch, K!Resync, local
  <2>2. /\ store'[b] \in {store[b], api[b]}
        /\ \/ store'[b] = store[b] /\ (b \in queue => b \in queue')
           \/ store'[b] = NoObject \/ b \in queue'
    BY <1>t, <1>5 DEF Watch, Resync, K!Watch, K!Resync, TypeOK, K!KubeTypeOK
  <2>3. Owned(b)'
    BY <2>1, <2>2 DEF ObservedInv, Owned, At, host
  <2>4. Tracked(b) => Tracked(b)'
    BY <2>1 DEF Tracked, Held, Started, Pending, KeyOfTask, GroupKeys, Inst, At, host
  <2>5. (Accepted(b)' <=> Accepted(b)) /\ (Applied(b)' => Applied(b) /\ store'[b] = store[b])
    BY <2>1, <2>2 DEF Accepted, Applied, At, KeyOfTask, Mine, host
  <2>6. Observed(b) => Observed(b)'
    BY <2>1, <2>5 DEF Observed, Reported, At, host
  <2> QED
    BY <1>f, <2>3, <2>4, <2>6 DEF ObservedInv
<1>6. ASSUME Crash, NEW b \in Actor
      PROVE  Owned(b)' /\ (failures' = 0 => Tracked(b)' /\ Observed(b)')
  <2>1. /\ task'[b].pc = "idle" /\ store'[b] = NoObject /\ actorKeys'[b] = NoKey /\ running'[b] = 0
        /\ UNCHANGED api
    BY <1>6 DEF Crash, NoTasks, Idle, NoKeys, NoneRunning
  <2>2. Owned(b)'
    BY <2>1 DEF ObservedInv, Owned, At
  <2>3. Tracked(b)'
    BY <2>1, ActorsAssumption DEF Tracked, Held, Started, Pending, At, GroupKeys
  <2>4. Observed(b)'
    BY <2>1 DEF Observed, Accepted, Applied, At, Mine, StatsPcs
  <2> QED
    BY <2>2, <2>3, <2>4
<1>7. ASSUME NEW x \in HostLock, LockElsewhere(x) \/ UnlockElsewhere(x) PROVE ObservedInv'
  BY <1>1, <1>7 DEF LockElsewhere, UnlockElsewhere, kube, KeepsStatus, ObservedInv, Owned
<1> QED
  BY <1>2, <1>3, <1>4, <1>5, <1>6, <1>7 DEF World, ObservedInv

\* In the beginning there is nothing to report.
LEMMA InitObserved == Init => ObservedInv
<1> SUFFICES ASSUME Init, NEW a \in Actor PROVE Owned(a) /\ Tracked(a) /\ Observed(a)
  BY DEF ObservedInv
<1>1. task[a].pc = "idle" /\ store[a] = NoObject /\ api[a] = NoObject /\ actorKeys[a] = NoKey /\ running[a] = 0
  BY DEF Init, NoTasks, Idle, K!KubeInit, NoKeys, NoneRunning
<1>2. Owned(a) /\ Observed(a)
  BY <1>1 DEF Owned, Observed, Accepted, Applied, At, Mine, StatsPcs
<1>3. Tracked(a)
  BY <1>1, ActorsAssumption DEF Tracked, Held, Started, Pending, At, GroupKeys
<1> QED
  BY <1>2, <1>3

\* Where no two Actor objects bring images of one public key to the host, and while nothing has
\* failed, a settled actor has exactly as many call loops as its availableReplicas says: through
\* scaling up and down, new images, deletions, stale copies and crashes of the host.
THEOREM ReplicasAreObserved ==
    ASSUME OwnKeys
    PROVE  Spec => []ReplicasObserved
<1>1. ServesInv /\ ServesInv' /\ ObservedInv /\ [Next]_vars => ObservedInv'
  <2> SUFFICES ASSUME ServesInv, ServesInv', ObservedInv, [Next]_vars PROVE ObservedInv'
    OBVIOUS
  <2>1. CASE Next
    BY <2>1, TaskStepObserved, WorldObserved DEF Next
  <2>2. CASE UNCHANGED vars
    BY <2>2 DEF ObservedInv, Owned, Tracked, Observed, Held, Started, Pending, Accepted, Applied, Reported, At,
       KeyOfTask, GroupKeys, Inst, vars, kube, host, bounds
  <2> QED
    BY <2>1, <2>2
<1>2. ObservedInv => ReplicasObserved
  <2> SUFFICES ASSUME ObservedInv, failures = 0, NEW a \in Actor, Settled(a), store[a].status # NoStatus
               PROVE  running[a] = store[a].status.availableReplicas
    BY DEF ReplicasObserved
  <2>1. Applied(a) /\ store[a] = api[a]
    BY DEF Settled, Applied
  <2>2. running[a] = store[a].spec.replicas /\ store[a].status = StatusFor(store[a])
    BY <2>1 DEF ObservedInv, Observed, Reported, Applied, Mine
  <2> QED
    BY <2>2 DEF StatusFor
<1> QED
  BY <1>1, <1>2, InitObserved, ServesInvariant, PTL DEF Spec
=============================================================================
