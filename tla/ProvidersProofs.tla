--------------------------- MODULE ProvidersProofs ---------------------------
(***************************************************************************)
(* Theorems about Providers, for any number of objects, images, keys and   *)
(* link names, and any bounds.                                             *)
(***************************************************************************)
EXTENDS Providers, TLAPS

----------------------------------------------------------------------------
(***************************************************************************)
(* Typing.                                                                 *)
(***************************************************************************)

\* What the program counter of a task says about its object.
LEMMA TaskFacts ==
    ASSUME NEW t \in Task
    PROVE  /\ t.pc \in Pcs
           /\ t.pc = "idle" => t = Idle
           /\ t.pc # "idle" => t.obj \in K!Object
           /\ t.pc \in {"stop", "shutdown"} => t.obj.status \in ProviderStatus
BY DEF Task, Idle, Pcs

\* A patched object is an object.
LEMMA PatchType ==
    ASSUME NEW o \in K!Object
    PROVE  /\ \A b \in BOOLEAN : /\ [o EXCEPT !.finalizer = b] \in K!Object
                                 /\ [o EXCEPT !.deleting = b] \in K!Object
           /\ \A st \in ProviderStatus : [o EXCEPT !.status = st] \in K!Object
           /\ \A s \in ProviderSpec : [o EXCEPT !.spec = s] \in K!Object
BY DEF K!Object

\* The child of an object, and the status that reports it.
LEMMA ChildType ==
    ASSUME NEW o \in K!Object
    PROVE  /\ o.spec.image \in Image /\ o.spec.link \in LinkName
           /\ KeyOf[o.spec.image] \in Key
           /\ [publicKey |-> KeyOf[o.spec.image], image |-> o.spec.image] \in ProviderStatus
           /\ o.status \in ProviderStatus => o.status.publicKey \in Key
BY ProvidersAssumption DEF K!Object, ProviderSpec, ProviderStatus

\* Replacing one task by a well-typed one keeps the tasks well-typed.
LEMMA TaskUpdate ==
    ASSUME task \in [Provider -> Task], NEW p \in Provider, NEW t \in Task,
           task' = [task EXCEPT ![p] = t]
    PROVE  task' \in [Provider -> Task]
OBVIOUS

\* A reconciliation that ends keeps the tasks well-typed.
LEMMA DoneType ==
    ASSUME TypeOK, NEW p \in Provider, Done(p)
    PROVE  task' \in [Provider -> Task]
BY TaskUpdate DEF Done, TypeOK, Task

\* A task that goes on keeps the tasks well-typed.
LEMMA GotoType ==
    ASSUME TypeOK, NEW p \in Provider, NEW pc \in Pcs \ {"idle"}, Goto(p, pc),
           task[p].pc # "idle",
           pc \in {"stop", "shutdown"} => task[p].obj.status \in ProviderStatus
    PROVE  task' \in [Provider -> Task]
<1>1. task[p].obj \in K!Object
  BY TaskFacts DEF TypeOK
<1>2. [pc |-> pc, obj |-> task[p].obj] \in Task
  BY <1>1 DEF Task
<1> QED
  BY <1>2, TaskUpdate DEF Goto, TypeOK

\* A reconciliation that begins keeps the types.
LEMMA BeginType ==
    ASSUME TypeOK, NEW p \in Provider, NEW pc \in Pcs \ {"idle"}, Begin(p, pc),
           pc \in {"stop", "shutdown"} => store[p].status \in ProviderStatus
    PROVE  TypeOK'
<1>1. store[p] \in K!Object
  BY DEF Begin, Mine, TypeOK, K!KubeTypeOK
<1>2. [pc |-> pc, obj |-> store[p]] \in Task
  BY <1>1 DEF Task
<1>3. task' \in [Provider -> Task]
  BY <1>2, TaskUpdate DEF Begin, TypeOK
<1> QED
  BY <1>3 DEF TypeOK, K!KubeTypeOK, Begin, host, bounds

\* One more failure stays within its bound.
LEMMA FailType ==
    ASSUME TypeOK, Fail
    PROVE  failures' \in 0..MaxFailures /\ failures' # 0 /\ edits' = edits /\ crashes' = crashes
BY ProvidersAssumption DEF TypeOK, Fail

\* The host starts with tables of their types.
LEMMA InitType == Init => TypeOK
BY ProvidersAssumption DEF Init, TypeOK, K!KubeInit, K!KubeTypeOK, NoTasks, NoEntries, Task

\* Every step of a reconciliation keeps the types.
LEMMA TaskStepType ==
    ASSUME TypeOK, NEW p \in Provider, Start(p) \/ Locking(p) \/ Step(p)
    PROVE  TypeOK'
<1> DEFINE t == task[p]
<1>f. /\ t.pc # "idle" => t.obj \in K!Object
      /\ t.pc \in {"stop", "shutdown"} => t.obj.status \in ProviderStatus
  BY TaskFacts DEF TypeOK
<1>c. /\ t.pc # "idle" => /\ Child(p) \in Key \X LinkName /\ Child(p)[1] \in Key
                          /\ NewStatus(p) \in ProviderStatus /\ t.obj.spec.image \in Image
      /\ t.pc \in {"stop", "shutdown"} => Stopped(p) \in Key \X LinkName /\ Stopped(p)[1] \in Key
  BY <1>f, ChildType DEF Child, NewStatus, Stopped
<1>o. store[p] # NoObject => store[p] \in K!Object
  BY DEF TypeOK, K!KubeTypeOK
<1>a. api[p] # NoObject => api[p] \in K!Object
  BY DEF TypeOK, K!KubeTypeOK
<1> USE DEF At
<1>0. CASE Ignore(p)
  BY <1>0 DEF Ignore, TypeOK, K!KubeTypeOK, host, bounds
<1>1. CASE StartFinalize(p)
  BY <1>1, BeginType DEF StartFinalize, Pcs
<1>2. CASE StartApply(p)
  BY <1>2, BeginType DEF StartApply, Pcs
<1>3. CASE StartCleanup(p)
  <2>1. store[p].status # NoStatus => store[p].status \in ProviderStatus
    BY <1>3, <1>o DEF StartCleanup, K!IsCleanup, K!Object
  <2> QED
    BY <1>3, <2>1, BeginType DEF StartCleanup, Pcs
<1>4. CASE AddFinalizer(p)
  <2>1. task' \in [Provider -> Task]
    BY <1>4, DoneType DEF AddFinalizer, Requeue
  <2>2. api' \in [Provider -> K!Object \cup {NoObject}]
    BY <1>4, <1>a, PatchType DEF AddFinalizer, K!CanAddFinalizer, K!AddFinalizer, TypeOK, K!KubeTypeOK
  <2> QED
    BY <1>4, <2>1, <2>2 DEF AddFinalizer, Requeue, TypeOK, K!KubeTypeOK, host, bounds
<1>5. CASE Fetch(p)
  <2>1. task' \in [Provider -> Task]
    BY <1>5, DoneType, GotoType DEF Fetch, Pcs
  <2> QED
    BY <1>5, <2>1, FailType DEF Fetch, TypeOK, K!KubeTypeOK, kube, host, bounds
<1>6. CASE StartProvider(p)
  <2>1. task' \in [Provider -> Task]
    BY <1>6, GotoType DEF StartProvider, Pcs
  <2> QED
    BY <1>6, <2>1, <1>c DEF StartProvider, TypeOK, K!KubeTypeOK, kube, bounds
<1>7. CASE Spawn(p)
  <2>1. task' \in [Provider -> Task]
    BY <1>7, DoneType, GotoType DEF Spawn, Pcs
  <2> QED
    BY <1>7, <2>1, <1>c, FailType DEF Spawn, TypeOK, K!KubeTypeOK, kube, bounds
<1>8. CASE Feed(p)
  <2>1. task' \in [Provider -> Task]
    BY <1>8, DoneType, GotoType DEF Feed, Pcs
  <2> QED
    BY <1>8, <2>1, <1>c, FailType DEF Feed, TypeOK, K!KubeTypeOK, kube, bounds
<1>9. CASE PatchStatus(p)
  <2>1. task' \in [Provider -> Task]
    BY <1>9, DoneType DEF PatchStatus
  <2>2. api' \in [Provider -> K!Object \cup {NoObject}]
    BY <1>9, <1>a, <1>c, PatchType DEF PatchStatus, K!CanPatchStatus, K!WriteStatus, TypeOK, K!KubeTypeOK
  <2> QED
    BY <1>9, <2>1, <2>2, FailType DEF PatchStatus, TypeOK, K!KubeTypeOK, host, bounds
<1>10. CASE StopProvider(p)
  <2>1. task' \in [Provider -> Task]
    BY <1>10, <1>f, GotoType DEF StopProvider, Pcs
  <2> QED
    BY <1>10, <2>1, <1>c DEF StopProvider, DropEntry, TypeOK, K!KubeTypeOK, kube, bounds
<1>11. CASE Shutdown(p)
  <2>1. task' \in [Provider -> Task]
    BY <1>11, GotoType DEF Shutdown, Pcs
  <2> QED
    BY <1>11, <2>1, <1>c DEF Shutdown, DropEntry, TypeOK, K!KubeTypeOK, kube, bounds
<1>12. CASE Release(p)
  <2>1. task' \in [Provider -> Task]
    BY <1>12, DoneType DEF Release, Requeue
  <2>2. api' \in [Provider -> K!Object \cup {NoObject}]
    BY <1>12, <1>a, PatchType DEF Release, K!CanRemoveFinalizer, K!RemoveFinalizer, TypeOK, K!KubeTypeOK
  <2> QED
    BY <1>12, <2>1, <2>2 DEF Release, Requeue, TypeOK, K!KubeTypeOK, host, bounds
<1> QED
  BY <1>0, <1>1, <1>2, <1>3, <1>4, <1>5, <1>6, <1>7, <1>8, <1>9, <1>10, <1>11, <1>12
     DEF Start, Locking, Step

\* What users, the watch, a dying child or a crash do: every step of no reconciliation.
World ==
    \/ \E p \in Provider : \/ \E s \in Specs[p] : Create(p, s) \/ Update(p, s)
                           \/ Delete(p) \/ Watch(p) \/ Resync(p)
    \/ \E c \in Key \X LinkName : ChildExit(c)
    \/ Crash

\* A step is a reconciliation's or the world's.
LEMMA NextSplits == Next <=> (\E p \in Provider : Start(p) \/ Locking(p) \/ Step(p)) \/ World
BY DEF Next, World

\* The world keeps the types.
LEMMA WorldType ==
    ASSUME TypeOK, World
    PROVE  TypeOK'
<1> USE DEF TypeOK, K!KubeTypeOK, local, host, bounds
<1>s. \A p \in Provider : Specs[p] \subseteq ProviderSpec
  BY ProvidersAssumption
<1>e. Edit => edits' \in 0..MaxEdits /\ failures' = failures /\ crashes' = crashes
  BY ProvidersAssumption DEF Edit
<1>1. ASSUME NEW p \in Provider, NEW s \in Specs[p], Create(p, s) PROVE TypeOK'
  BY <1>1, <1>s, <1>e DEF Create, K!Create, K!Object
<1>2. ASSUME NEW p \in Provider, NEW s \in Specs[p], Update(p, s) PROVE TypeOK'
  <2>1. api' \in [Provider -> K!Object \cup {NoObject}]
    BY <1>2, <1>s, PatchType DEF Update, K!Update
  <2> QED
    BY <1>2, <2>1, <1>e DEF Update, K!Update
<1>3. ASSUME NEW p \in Provider, Delete(p) PROVE TypeOK'
  BY <1>3, <1>e, PatchType DEF Delete, K!Delete
<1>4. ASSUME NEW p \in Provider, Watch(p) PROVE TypeOK'
  BY <1>4 DEF Watch, K!Watch
<1>5. ASSUME NEW p \in Provider, Resync(p) PROVE TypeOK'
  BY <1>5 DEF Resync, K!Resync
<1>6. ASSUME NEW c \in Key \X LinkName, ChildExit(c) PROVE TypeOK'
  BY <1>6, FailType DEF ChildExit, kube
<1>7. CASE Crash
  BY <1>7, ProvidersAssumption DEF Crash, NoTasks, NoEntries, Task
<1> QED
  BY <1>1, <1>2, <1>3, <1>4, <1>5, <1>6, <1>7 DEF World

\* The types hold throughout; in particular a task that stops a provider always
\* has a status to take the public key from.
THEOREM ProvidersTypeCorrect == Spec => []TypeOK
<1>1. Init => TypeOK
  BY InitType
<1>2. TypeOK /\ [Next]_vars => TypeOK'
  <2> SUFFICES ASSUME TypeOK, [Next]_vars PROVE TypeOK'
    OBVIOUS
  <2>1. CASE Next
    BY <2>1, NextSplits, TaskStepType, WorldType
  <2>2. CASE UNCHANGED vars
    BY <2>2 DEF vars, kube, host, bounds, TypeOK, K!KubeTypeOK
  <2> QED
    BY <2>1, <2>2
<1> QED
  BY <1>1, <1>2, PTL DEF Spec

----------------------------------------------------------------------------
(***************************************************************************)
(* The children and the table.                                             *)
(***************************************************************************)

\* The tasks that talk to a child hold the table's lock.
LockHeld == \A p \in Provider : task[p].pc \in {"spawn", "feed", "shutdown"} => lock = p

\* What the theorem about the children is proved with.
ChildrenInv == TypeOK /\ LockHeld /\ ChildrenTracked

\* Only the task of the reconciliation changes, and it keeps its object.
LEMMA GotoFrame ==
    ASSUME TypeOK, NEW p \in Provider, NEW pc, Goto(p, pc)
    PROVE  /\ task'[p].pc = pc /\ task'[p].obj = task[p].obj
           /\ \A q \in Provider : q # p => task'[q] = task[q]
           /\ Child(p)' = Child(p)
           /\ \A q \in Provider : q # p => Child(q)' = Child(q)
BY DEF TypeOK, Goto, Child

\* A reconciliation that ends is idle, and the others are as they were.
LEMMA DoneFrame ==
    ASSUME TypeOK, NEW p \in Provider, Done(p)
    PROVE  /\ task'[p].pc = "idle"
           /\ \A q \in Provider : q # p => task'[q] = task[q]
           /\ \A q \in Provider : q # p => Child(q)' = Child(q)
BY DEF TypeOK, Done, Idle, Child

\* A reconciliation that begins has the reflector's copy.
LEMMA BeginFrame ==
    ASSUME TypeOK, NEW p \in Provider, NEW pc, Begin(p, pc)
    PROVE  /\ task'[p].pc = pc /\ task'[p].obj = store[p]
           /\ \A q \in Provider : q # p => task'[q] = task[q]
           /\ \A q \in Provider : q # p => Child(q)' = Child(q)
           /\ task[p].pc = "idle" /\ queue' = queue \ {p} /\ p \in queue /\ Mine(store[p])
           /\ UNCHANGED <<api, store, lock, providers, instances, alive, edits, failures, crashes>>
BY DEF TypeOK, Begin, Child, At, K!Due, host, bounds

\* A step that leaves the table, the children and the tasks that hold them alone
\* keeps the children tracked.
LEMMA QuietKeepsChildren ==
    ASSUME ChildrenInv, NEW p \in Provider,
           \A q \in Provider : q # p => task'[q] = task[q] /\ Child(q)' = Child(q),
           task[p].pc \notin {"spawn", "feed", "shutdown"},
           task'[p].pc \notin {"spawn", "feed", "shutdown"},
           UNCHANGED <<lock, instances, alive>>
    PROVE  (LockHeld /\ ChildrenTracked)'
BY DEF ChildrenInv, LockHeld, ChildrenTracked, At

\* Every step of a reconciliation keeps the children tracked.
LEMMA TaskStepKeepsChildren ==
    ASSUME ChildrenInv, NEW p \in Provider, Start(p) \/ Locking(p) \/ Step(p)
    PROVE  (LockHeld /\ ChildrenTracked)'
<1> USE DEF At
<1>t. TypeOK /\ LockHeld /\ ChildrenTracked /\ Free \notin Provider
  BY ProvidersAssumption DEF ChildrenInv
<1>h. lock = Free => \A q \in Provider : task[q].pc \notin {"spawn", "feed", "shutdown"}
  BY <1>t DEF LockHeld
<1>x. task[p].pc \in {"spawn", "feed", "shutdown"} =>
        /\ lock = p
        /\ \A q \in Provider : q # p => task[q].pc \notin {"spawn", "feed", "shutdown"}
  BY <1>t DEF LockHeld
<1>0. CASE Ignore(p)
  BY <1>0, <1>t DEF Ignore, LockHeld, ChildrenTracked, Child, host
<1>1. CASE StartFinalize(p) \/ StartApply(p) \/ StartCleanup(p)
  <2>1. PICK pc \in {"finalize", "fetch", "stop", "release"} : Begin(p, pc)
    BY <1>1 DEF StartFinalize, StartApply, StartCleanup
  <2> QED
    BY <2>1, <1>t, BeginFrame, QuietKeepsChildren
<1>2. CASE AddFinalizer(p) \/ PatchStatus(p) \/ Release(p)
  BY <1>2, <1>t, DoneFrame, QuietKeepsChildren DEF AddFinalizer, PatchStatus, Release, Requeue, host
<1>3. CASE Fetch(p)
  BY <1>3, <1>t, GotoFrame, DoneFrame, QuietKeepsChildren DEF Fetch, host
<1>4. CASE StartProvider(p)
  <2>1. CASE Goto(p, "patch") /\ UNCHANGED lock
    BY <1>4, <2>1, <1>t, GotoFrame, QuietKeepsChildren DEF StartProvider
  <2>2. CASE Goto(p, "spawn") /\ lock' = p
    BY <1>4, <2>2, <1>t, <1>h, GotoFrame DEF StartProvider, LockHeld, ChildrenTracked
  <2> QED
    BY <1>4, <2>1, <2>2 DEF StartProvider
<1>5. CASE Spawn(p)
  <2>1. CASE Goto(p, "feed") /\ alive' = alive \cup {Child(p)} /\ UNCHANGED lock
    BY <1>5, <2>1, <1>t, <1>x, GotoFrame DEF Spawn, LockHeld, ChildrenTracked
  <2>2. CASE Done(p) /\ lock' = Free /\ UNCHANGED alive
    BY <1>5, <2>2, <1>t, <1>x, DoneFrame DEF Spawn, LockHeld, ChildrenTracked
  <2> QED
    BY <1>5, <2>1, <2>2 DEF Spawn
<1>6. CASE Feed(p)
  <2>1. CASE Goto(p, "patch") /\ instances' = instances \cup {Child(p)} /\ UNCHANGED alive
    BY <1>6, <2>1, <1>t, <1>x, GotoFrame DEF Feed, LockHeld, ChildrenTracked
  <2>2. CASE Done(p) /\ alive' = alive \ {Child(p)} /\ UNCHANGED instances
    BY <1>6, <2>2, <1>t, <1>x, DoneFrame DEF Feed, LockHeld, ChildrenTracked
  <2> QED
    BY <1>6, <2>1, <2>2 DEF Feed
<1>7. CASE StopProvider(p)
  <2>1. CASE /\ instances' = instances \ {Stopped(p)} /\ alive' = alive \ {Stopped(p)}
             /\ lock' = p /\ Goto(p, "shutdown")
    BY <1>7, <2>1, <1>t, <1>h, GotoFrame DEF StopProvider, LockHeld, ChildrenTracked
  <2>2. CASE Goto(p, "release") /\ UNCHANGED <<instances, alive, lock>>
    BY <1>7, <2>2, <1>t, GotoFrame, QuietKeepsChildren DEF StopProvider
  <2> QED
    BY <1>7, <2>1, <2>2 DEF StopProvider
<1>8. CASE Shutdown(p)
  BY <1>8, <1>t, <1>x, GotoFrame DEF Shutdown, LockHeld, ChildrenTracked
<1> QED
  BY <1>0, <1>1, <1>2, <1>3, <1>4, <1>5, <1>6, <1>7, <1>8 DEF Start, Locking, Step

\* The world keeps the children tracked: a child that dies only leaves the table
\* with an instance too many, and a crash takes the table and the children.
LEMMA WorldKeepsChildren ==
    ASSUME ChildrenInv, World
    PROVE  (LockHeld /\ ChildrenTracked)'
<1> USE DEF ChildrenInv, LockHeld, ChildrenTracked, At, Child
<1>1. CASE UNCHANGED local
  BY <1>1 DEF local, host
<1>2. ASSUME NEW c \in Key \X LinkName, ChildExit(c) PROVE (LockHeld /\ ChildrenTracked)'
  BY <1>2 DEF ChildExit
<1>3. CASE Crash
  BY <1>3 DEF Crash, NoTasks, Idle
<1> QED
  BY <1>1, <1>2, <1>3 DEF World, Create, Update, Delete, Watch, Resync

\* No child of this host process runs without being in the table or in the hands of
\* the task that spawned it, whatever fails and whenever: stop_provider finds
\* every child that start_provider left.
THEOREM ChildrenStayTracked == Spec => []ChildrenTracked
<1>1. Init => ChildrenInv
  BY InitType DEF Init, ChildrenInv, LockHeld, ChildrenTracked, NoTasks, Idle
<1>2. ChildrenInv /\ [Next]_vars => ChildrenInv'
  <2> SUFFICES ASSUME ChildrenInv, [Next]_vars PROVE ChildrenInv'
    OBVIOUS
  <2>1. CASE Next
    BY <2>1, NextSplits, TaskStepType, WorldType, TaskStepKeepsChildren, WorldKeepsChildren
       DEF ChildrenInv
  <2>2. CASE UNCHANGED vars
    BY <2>2 DEF vars, kube, host, bounds, ChildrenInv, TypeOK, K!KubeTypeOK, LockHeld,
       ChildrenTracked, At, Child
  <2> QED
    BY <2>1, <2>2
<1>3. ChildrenInv => ChildrenTracked
  BY DEF ChildrenInv
<1> QED
  BY <1>1, <1>2, <1>3, PTL DEF Spec

----------------------------------------------------------------------------
(***************************************************************************)
(* What a settled status says.                                             *)
(***************************************************************************)

(***************************************************************************)
(* No two Provider objects ask this host for the same child: a public key  *)
(* of the one never meets a link name of the other.  Without this the      *)
(* objects share a child, and deleting one of them stops it for both.      *)
(***************************************************************************)
HostSpecs(p) == {s \in Specs[p] : s.host = HostName}

OwnChildren ==
    \A p, q \in Provider : p # q =>
        \A s, t \in HostSpecs(p), u \in HostSpecs(q) :
            <<KeyOf[s.image], t.link>> # <<KeyOf[u.image], u.link>>

ApplyPcs == {"fetch", "start", "spawn", "feed", "patch"}
CleanupPcs == {"stop", "shutdown", "release"}

\* The child that a copy of an object asks for, and the status that reports it.
ChildOf(o) == <<KeyOf[o.spec.image], o.spec.link>>
StatusFor(o) == [publicKey |-> KeyOf[o.spec.image], image |-> o.spec.image]

\* The object has a spec of p, and the public key of one for this host in its status.
OwnObject(p, o) ==
    /\ o.spec \in Specs[p]
    /\ o.status # NoStatus => \E s \in HostSpecs(p) : o.status.publicKey = KeyOf[s.image]

\* Every copy of an object is its Provider's own.
Owned ==
    \A p \in Provider :
        /\ api[p] # NoObject => OwnObject(p, api[p])
        /\ store[p] # NoObject => OwnObject(p, store[p])
        /\ ~At(p, "idle") => OwnObject(p, task[p].obj) /\ Mine(task[p].obj)

\* A reconciliation does what the copy it was given asks for.
Phases ==
    \A p \in Provider :
        /\ At(p, "finalize") => K!NeedsFinalizer(task[p].obj)
        /\ task[p].pc \in ApplyPcs => K!IsApply(task[p].obj)
        /\ task[p].pc \in CleanupPcs => K!IsCleanup(task[p].obj)

\* A reconciliation works on the reflector's copy, unless another one is due.
Fresh ==
    \A p \in Provider :
        p \notin queue /\ store[p] # NoObject /\ ~At(p, "idle") => store[p] = task[p].obj

\* While nothing fails, the children in the table run, and so does the child that
\* a task has spawned or found.
Running ==
    /\ instances \subseteq alive
    /\ \A p \in Provider : /\ At(p, "feed") => Child(p) \in alive
                           /\ At(p, "patch") => Child(p) \in instances

\* While nothing fails, the child of a copy that was applied is in the table; and if
\* the copy does not report it, the object at the API server is another by now.
Applied ==
    \A p \in Provider :
        At(p, "idle") /\ p \notin queue /\ Mine(store[p]) /\ K!IsApply(store[p]) =>
            /\ ChildOf(store[p]) \in instances
            /\ \/ store[p].status = StatusFor(store[p])
               \/ api[p] = NoObject
               \/ api[p].status \in {StatusFor(store[p]), NoStatus}

\* What the theorem about the status is proved with.
ObservedInv ==
    /\ ChildrenInv /\ Owned /\ Phases /\ Fresh
    /\ failures = 0 => Running /\ Applied

\* The invariant is enough: a settled object is one that was applied and reports it.
LEMMA ObservedInvSuffices == ObservedInv => ProvidersObserved
<1> SUFFICES ASSUME ObservedInv, failures = 0, NEW p \in Provider, Settled(p)
             PROVE  <<store[p].status.publicKey, store[p].spec.link>> \in alive
  BY DEF ProvidersObserved
<1>1. ChildOf(store[p]) \in alive /\ store[p].status = StatusFor(store[p])
  BY DEF ObservedInv, Running, Applied, Settled, K!IsApply
<1> QED
  BY <1>1 DEF ChildOf, StatusFor

\* Which objects there are, for each step of a reconciliation.
LEMMA TaskStepOwned ==
    ASSUME TypeOK, Owned, NEW p \in Provider, Start(p) \/ Locking(p) \/ Step(p)
    PROVE  Owned'
<1> USE DEF At
<1>n. ~At(p, "idle") => /\ OwnObject(p, task[p].obj) /\ Mine(task[p].obj)
                        /\ task[p].obj \in K!Object
                        /\ NewStatus(p).publicKey = KeyOf[task[p].obj.spec.image]
  BY TaskFacts DEF TypeOK, Owned, NewStatus, Child
<1>a. api[p] # NoObject => OwnObject(p, api[p]) /\ api[p] \in K!Object
  BY DEF TypeOK, K!KubeTypeOK, Owned
<1>1. CASE UNCHANGED <<api, store>>
  <2>1. UNCHANGED <<api, store>>
    BY <1>1
  <2>2. CASE Ignore(p)
    BY <2>1, <2>2 DEF Ignore, Owned, OwnObject
  <2>3. CASE \E pc \in Pcs : Begin(p, pc)
    BY <2>1, <2>3, BeginFrame DEF Owned, OwnObject, Mine
  <2>4. CASE Done(p)
    BY <2>1, <2>4, DoneFrame DEF Owned, OwnObject
  <2>5. CASE ~At(p, "idle") /\ \E pc \in Pcs : Goto(p, pc)
    BY <2>1, <2>5, GotoFrame DEF Owned, OwnObject
  <2> QED
    BY <2>2, <2>3, <2>4, <2>5
       DEF Start, Locking, Step, StartFinalize, StartApply, StartCleanup, AddFinalizer, Fetch,
           StartProvider, Spawn, Feed, PatchStatus, StopProvider, Shutdown, Release, Requeue, Pcs
<1>2. CASE Done(p) /\ UNCHANGED store /\ \E o \in K!Object \cup {NoObject} :
             api' = [api EXCEPT ![p] = o] /\ (o # NoObject => OwnObject(p, o))
  BY <1>2, DoneFrame DEF Owned, OwnObject, TypeOK, K!KubeTypeOK
<1>3. CASE AddFinalizer(p) /\ K!CanAddFinalizer(p) /\ K!AddFinalizer(p)
  <2>1. [api[p] EXCEPT !.finalizer = TRUE] \in K!Object
    BY <1>3, <1>a, PatchType DEF K!CanAddFinalizer
  <2>2. OwnObject(p, [api[p] EXCEPT !.finalizer = TRUE])
    BY <1>3, <1>a DEF OwnObject, K!CanAddFinalizer, K!Object
  <2> QED
    BY <1>2, <1>3, <2>1, <2>2 DEF AddFinalizer, K!AddFinalizer, K!CanAddFinalizer
<1>4. CASE PatchStatus(p) /\ K!CanPatchStatus(p) /\ K!WriteStatus(p, NewStatus(p))
  <2> DEFINE o == [api[p] EXCEPT !.status = NewStatus(p)]
  <2>0. ~At(p, "idle")
    BY <1>4 DEF PatchStatus
  <2>1. NewStatus(p) \in ProviderStatus
    BY <1>n, <2>0, ChildType DEF NewStatus, Child
  <2>2. o \in K!Object /\ o.spec = api[p].spec /\ o.status = NewStatus(p)
    BY <1>4, <1>a, <2>1, PatchType DEF K!CanPatchStatus, K!Object
  <2>3. task[p].obj.spec \in HostSpecs(p)
    BY <1>n, <2>0 DEF OwnObject, Mine, HostSpecs
  <2>4. OwnObject(p, o)
    BY <1>4, <1>a, <1>n, <2>0, <2>2, <2>3 DEF OwnObject, K!CanPatchStatus
  <2> QED
    BY <1>2, <1>4, <2>2, <2>4 DEF PatchStatus, K!WriteStatus
<1>5. CASE Release(p) /\ K!CanRemoveFinalizer(p) /\ K!RemoveFinalizer(p)
  <2>1. [api[p] EXCEPT !.finalizer = FALSE] \in K!Object
    BY <1>5, <1>a, PatchType DEF K!CanRemoveFinalizer
  <2>2. OwnObject(p, [api[p] EXCEPT !.finalizer = FALSE])
    BY <1>5, <1>a DEF OwnObject, K!CanRemoveFinalizer, K!Object
  <2>3. api' = [api EXCEPT ![p] = IF api[p].deleting THEN NoObject
                                  ELSE [api[p] EXCEPT !.finalizer = FALSE]]
    BY <1>5 DEF K!RemoveFinalizer
  <2> QED
    BY <1>2, <1>5, <2>1, <2>2, <2>3 DEF Release, K!CanRemoveFinalizer
<1> QED
  BY <1>1, <1>3, <1>4, <1>5
     DEF Start, Locking, Step, Ignore, StartFinalize, StartApply, StartCleanup, Begin, AddFinalizer,
         Fetch, StartProvider, Spawn, Feed, PatchStatus, StopProvider, Shutdown, Release, kube

\* Which objects there are, after a step of the world.
LEMMA WorldOwned ==
    ASSUME TypeOK, Owned, World
    PROVE  Owned'
<1> USE DEF At, Owned, OwnObject
<1>1. ASSUME NEW p \in Provider, NEW s \in Specs[p], Create(p, s) PROVE Owned'
  BY <1>1 DEF Create, K!Create, local, TypeOK, K!KubeTypeOK
<1>2. ASSUME NEW p \in Provider, NEW s \in Specs[p], Update(p, s) PROVE Owned'
  <2>1. api[p] # NoObject /\ api[p] \in K!Object /\ api' = [api EXCEPT ![p] = [@ EXCEPT !.spec = s]]
    BY <1>2 DEF Update, K!Update, TypeOK, K!KubeTypeOK
  <2>2. [api[p] EXCEPT !.spec = s].spec = s /\ [api[p] EXCEPT !.spec = s].status = api[p].status
    BY <2>1 DEF K!Object
  <2> QED
    BY <1>2, <2>1, <2>2 DEF Update, K!Update, local, TypeOK, K!KubeTypeOK
<1>3. ASSUME NEW p \in Provider, Delete(p) PROVE Owned'
  <2>1. api[p] # NoObject /\ api[p] \in K!Object
    BY <1>3 DEF Delete, K!Delete, TypeOK, K!KubeTypeOK
  <2>2. LET o == [api[p] EXCEPT !.deleting = TRUE] IN o.spec = api[p].spec /\ o.status = api[p].status
    BY <2>1 DEF K!Object
  <2> QED
    BY <1>3, <2>1, <2>2 DEF Delete, K!Delete, local, TypeOK, K!KubeTypeOK
<1>4. ASSUME NEW p \in Provider, Watch(p) \/ Resync(p) PROVE Owned'
  BY <1>4 DEF Watch, Resync, K!Watch, K!Resync, local, TypeOK, K!KubeTypeOK
<1>5. ASSUME NEW c \in Key \X LinkName, ChildExit(c) PROVE Owned'
  BY <1>5 DEF ChildExit, kube
<1>6. CASE Crash
  BY <1>6 DEF Crash, NoTasks, Idle
<1> QED
  BY <1>1, <1>2, <1>3, <1>4, <1>5, <1>6 DEF World

\* A task keeps to the phase it began in and to the copy it began with.
LEMMA TaskStepPhases ==
    ASSUME TypeOK, Phases, Fresh, NEW p \in Provider, Start(p) \/ Locking(p) \/ Step(p)
    PROVE  Phases' /\ Fresh'
<1> USE DEF At, Phases, Fresh, ApplyPcs, CleanupPcs
<1>0. CASE Ignore(p)
  BY <1>0 DEF Ignore
<1>1. CASE StartFinalize(p)
  BY <1>1, BeginFrame DEF StartFinalize
<1>2. CASE StartApply(p)
  BY <1>2, BeginFrame DEF StartApply
<1>3. CASE StartCleanup(p)
  BY <1>3, BeginFrame DEF StartCleanup
<1>4. CASE Done(p) /\ UNCHANGED store /\ queue \subseteq queue'
  BY <1>4, DoneFrame
<1>5. CASE /\ \/ At(p, "fetch") /\ Goto(p, "start")
              \/ At(p, "start") /\ (Goto(p, "patch") \/ Goto(p, "spawn"))
              \/ At(p, "spawn") /\ Goto(p, "feed")
              \/ At(p, "feed") /\ Goto(p, "patch")
              \/ At(p, "stop") /\ (Goto(p, "shutdown") \/ Goto(p, "release"))
              \/ At(p, "shutdown") /\ Goto(p, "release")
           /\ UNCHANGED <<store, queue>>
  BY <1>5, GotoFrame
<1> QED
  BY <1>0, <1>1, <1>2, <1>3, <1>4, <1>5
     DEF Start, Locking, Step, AddFinalizer, Fetch, StartProvider, Spawn, Feed, PatchStatus,
         StopProvider, Shutdown, Release, Requeue, kube

\* The watch asks for another reconciliation when it changes the copy.
LEMMA WorldPhases ==
    ASSUME TypeOK, Phases, Fresh, World
    PROVE  Phases' /\ Fresh'
<1> USE DEF At, Phases, Fresh
<1>1. CASE UNCHANGED <<task, store, queue>>
  BY <1>1
<1>2. ASSUME NEW p \in Provider, Watch(p) \/ Resync(p) PROVE Phases' /\ Fresh'
  BY <1>2 DEF Watch, Resync, K!Watch, K!Resync, local, TypeOK, K!KubeTypeOK
<1>3. CASE Crash
  BY <1>3 DEF Crash, NoTasks, Idle, ApplyPcs, CleanupPcs
<1> QED
  BY <1>1, <1>2, <1>3
     DEF World, Create, Update, Delete, ChildExit, K!Create, K!Update, K!Delete, local, kube

\* A child that one Provider stops is not the child of another's copy.
LEMMA StoppedIsOwn ==
    ASSUME OwnChildren, TypeOK, NEW p \in Provider, NEW q \in Provider, p # q,
           task[p].pc \in {"stop", "shutdown"}, OwnObject(p, task[p].obj), Mine(task[p].obj),
           NEW o \in K!Object, OwnObject(q, o), Mine(o)
    PROVE  ChildOf(o) # Stopped(p)
<1>1. task[p].obj.status \in ProviderStatus
  BY TaskFacts DEF TypeOK
<1>2. PICK s \in HostSpecs(p) : task[p].obj.status.publicKey = KeyOf[s.image]
  BY <1>1, ProvidersAssumption DEF OwnObject
<1>3. task[p].obj.spec \in HostSpecs(p) /\ o.spec \in HostSpecs(q)
  BY DEF OwnObject, HostSpecs, Mine
<1> QED
  BY <1>2, <1>3 DEF OwnChildren, ChildOf, Stopped

\* What the steps of a reconciliation do to the children in the table: only its own
\* Stopped(p) goes, and only when nobody talks to a child.
LEMMA TaskStepRunning ==
    ASSUME OwnChildren, TypeOK, LockHeld, Owned, Running, failures' = 0,
           NEW p \in Provider, Start(p) \/ Locking(p) \/ Step(p)
    PROVE  Running'
<1> USE DEF At, Running
<1>n. ~Fail
  BY FailType
<1>x. task[p].pc \in {"spawn", "feed", "shutdown"} =>
        \A q \in Provider : q # p => task[q].pc \notin {"spawn", "feed", "shutdown"}
  BY DEF LockHeld
<1>h. lock = Free => \A q \in Provider : task[q].pc \notin {"spawn", "feed", "shutdown"}
  BY ProvidersAssumption DEF LockHeld
<1>0. CASE Ignore(p)
  BY <1>0 DEF Ignore, host, Child
<1>1. CASE StartFinalize(p) \/ StartApply(p) \/ StartCleanup(p)
  <2>1. PICK pc \in {"finalize", "fetch", "stop", "release"} : Begin(p, pc)
    BY <1>1 DEF StartFinalize, StartApply, StartCleanup
  <2> QED
    BY <2>1, BeginFrame
<1>2. CASE AddFinalizer(p) \/ PatchStatus(p) \/ Release(p)
  BY <1>2, DoneFrame DEF AddFinalizer, PatchStatus, Release, Requeue, host
<1>3. CASE Fetch(p)
  BY <1>3, <1>n, GotoFrame DEF Fetch, host
<1>4. CASE StartProvider(p)
  BY <1>4, GotoFrame DEF StartProvider
<1>5. CASE Spawn(p)
  BY <1>5, <1>n, GotoFrame DEF Spawn
<1>6. CASE Feed(p)
  BY <1>6, <1>n, <1>x, GotoFrame DEF Feed
<1>7. CASE StopProvider(p)
  <2>1. \A q \in Provider : q # p /\ At(q, "patch") => Child(q) # Stopped(p)
    <3> SUFFICES ASSUME NEW q \in Provider, q # p, At(q, "patch") PROVE Child(q) # Stopped(p)
      OBVIOUS
    <3>1. task[q].obj \in K!Object
      BY TaskFacts DEF TypeOK
    <3>2. /\ OwnObject(q, task[q].obj) /\ Mine(task[q].obj)
          /\ OwnObject(p, task[p].obj) /\ Mine(task[p].obj)
      BY <1>7 DEF Owned, StopProvider
    <3>3. ChildOf(task[q].obj) # Stopped(p)
      BY <1>7, <3>1, <3>2, StoppedIsOwn DEF StopProvider
    <3> QED
      BY <3>3 DEF ChildOf, Child
  <2> QED
    BY <1>7, <1>h, <2>1, GotoFrame DEF StopProvider
<1>8. CASE Shutdown(p)
  BY <1>8, GotoFrame DEF Shutdown
<1> QED
  BY <1>0, <1>1, <1>2, <1>3, <1>4, <1>5, <1>6, <1>7, <1>8 DEF Start, Locking, Step

\* What the world does to the children while nothing fails: a crash takes them all.
LEMMA WorldRunning ==
    ASSUME TypeOK, Running, failures' = 0, World
    PROVE  Running'
<1> USE DEF At, Running, Child
<1>1. CASE UNCHANGED local
  BY <1>1 DEF local, host
<1>2. CASE Crash
  BY <1>2 DEF Crash, NoTasks, Idle
<1>3. ~Fail
  BY FailType
<1> QED
  BY <1>1, <1>2, <1>3 DEF World, Create, Update, Delete, Watch, Resync, ChildExit

\* A copy that was applied has its child: a step of the same reconciliation.
LEMMA TaskStepApplied ==
    ASSUME OwnChildren, ObservedInv, failures' = 0,
           NEW p \in Provider, Start(p) \/ Locking(p) \/ Step(p)
    PROVE  Applied'
<1> USE DEF At
<1>n. ~Fail
  BY FailType DEF ObservedInv, ChildrenInv
<1>i. TypeOK /\ Owned /\ Phases /\ Fresh
  BY DEF ObservedInv, ChildrenInv
<1>z. Running /\ Applied
  <2>1. failures = 0
    BY <1>i, <1>n DEF Start, Locking, Step, Ignore, StartFinalize, StartApply, StartCleanup, Begin,
       AddFinalizer, Fetch, StartProvider, Spawn, Feed, PatchStatus, StopProvider, Shutdown, Release,
       bounds
  <2> QED
    BY <2>1 DEF ObservedInv
<1> DEFINE A(q) ==
      At(q, "idle") /\ q \notin queue /\ Mine(store[q]) /\ K!IsApply(store[q]) =>
          /\ ChildOf(store[q]) \in instances
          /\ \/ store[q].status = StatusFor(store[q])
             \/ api[q] = NoObject
             \/ api[q].status \in {StatusFor(store[q]), NoStatus}
<1>s. store' = store
  BY DEF Start, Locking, Step, Ignore, StartFinalize, StartApply, StartCleanup, Begin, AddFinalizer,
     Fetch, StartProvider, Spawn, Feed, PatchStatus, StopProvider, Shutdown, Release, kube
<1>1. ASSUME NEW q \in Provider, q # p PROVE A(q)'
  <2>0. A(q)
    BY <1>z DEF Applied
  <2>1. (q \in queue' <=> q \in queue) /\ api'[q] = api[q] /\ task'[q] = task[q]
    BY <1>i, <1>1 DEF Start, Locking, Step, Ignore, StartFinalize, StartApply, StartCleanup, Begin,
       AddFinalizer, Fetch, StartProvider, Spawn, Feed, PatchStatus, StopProvider, Shutdown, Release,
       Requeue, Done, Goto, kube, K!AddFinalizer, K!WriteStatus, K!RemoveFinalizer, TypeOK, K!KubeTypeOK
  <2>2. CASE instances \subseteq instances'
    BY <2>0, <2>1, <2>2, <1>s
  <2>3. CASE ~(instances \subseteq instances')
    <3>1. StopProvider(p) /\ instances' = instances \ {Stopped(p)}
      BY <2>3 DEF Start, Locking, Step, Ignore, StartFinalize, StartApply, StartCleanup, Begin,
         AddFinalizer, Fetch, StartProvider, Spawn, Feed, PatchStatus, StopProvider, Shutdown, Release,
         host
    <3>2. Mine(store[q]) => ChildOf(store[q]) # Stopped(p)
      <4>1. Mine(store[q]) => store[q] \in K!Object /\ OwnObject(q, store[q])
        BY <1>i DEF Mine, Owned, TypeOK, K!KubeTypeOK
      <4>2. OwnObject(p, task[p].obj) /\ Mine(task[p].obj) /\ At(p, "stop")
        BY <1>i, <3>1 DEF Owned, StopProvider
      <4> QED
        BY <4>1, <4>2, <1>1, <1>i, StoppedIsOwn
    <3> QED
      BY <2>0, <2>1, <3>1, <3>2, <1>s
  <2> QED
    BY <2>2, <2>3
<1>2. A(p)'
  <2> SUFFICES ASSUME task'[p].pc = "idle", p \notin queue', Mine(store[p]), K!IsApply(store[p])
               PROVE  /\ ChildOf(store[p]) \in instances'
                      /\ \/ store[p].status = StatusFor(store[p])
                         \/ api'[p] = NoObject
                         \/ api'[p].status \in {StatusFor(store[p]), NoStatus}
    BY <1>s
  <2>1. p \in queue /\ task[p].pc = "idle" => Ignore(p)
    BY <1>i, BeginFrame DEF Start, Locking, Step, StartFinalize, StartApply, StartCleanup, AddFinalizer,
       Fetch, StartProvider, Spawn, Feed, PatchStatus, StopProvider, Shutdown, Release
  <2>2. ~Ignore(p)
    BY DEF Ignore
  <2>3. task[p].pc # "idle"
    BY <2>1, <2>2 DEF Start, Locking, Step, StartFinalize, StartApply, StartCleanup, Begin, AddFinalizer,
       Fetch, StartProvider, Spawn, Feed, PatchStatus, StopProvider, Shutdown, Release, K!Due
  <2>4. CASE PatchStatus(p)
    <3>1. store[p] = task[p].obj /\ instances' = instances
      BY <2>4, <1>i DEF Fresh, PatchStatus, Mine, host
    <3>2. ChildOf(store[p]) \in instances' /\ NewStatus(p) = StatusFor(store[p])
      BY <2>4, <3>1, <1>z DEF Running, PatchStatus, ChildOf, Child, NewStatus, StatusFor
    <3>3. CASE K!CanPatchStatus(p) /\ K!WriteStatus(p, NewStatus(p))
      <4>1. api[p] \in K!Object
        BY <3>3, <1>i DEF K!CanPatchStatus, TypeOK, K!KubeTypeOK
      <4>2. api'[p].status = NewStatus(p)
        BY <3>3, <4>1, <1>i DEF K!WriteStatus, K!Object, TypeOK, K!KubeTypeOK
      <4> QED
        BY <3>2, <4>2
    <3>4. CASE UNCHANGED api /\ (task[p].obj.status = NewStatus(p) \/ ~K!CanPatchStatus(p))
      BY <3>1, <3>2, <3>4 DEF K!CanPatchStatus
    <3> QED
      BY <2>4, <3>3, <3>4, <1>n DEF PatchStatus
  <2>5. CASE AddFinalizer(p) \/ Release(p)
    <3>1. store[p] = task[p].obj
      BY <2>5, <2>3, <1>i, DoneFrame DEF Fresh, AddFinalizer, Release, Requeue, Mine
    <3> QED
      BY <2>5, <3>1, <1>i DEF Phases, AddFinalizer, Release, CleanupPcs,
         K!NeedsFinalizer, K!IsApply, K!IsCleanup
  <2>6. CASE \E pc \in Pcs \ {"idle"} : Goto(p, pc)
    BY <2>6, <1>i, GotoFrame
  <2> QED
    BY <1>n, <2>2, <2>3, <2>4, <2>5, <2>6
       DEF Start, Locking, Step, StartFinalize, StartApply, StartCleanup, Begin, Fetch, StartProvider,
           Spawn, Feed, StopProvider, Shutdown, Pcs
<1> QED
  BY <1>1, <1>2 DEF Applied

\* A copy that was applied has its child: a step of the world.
LEMMA WorldApplied ==
    ASSUME TypeOK, Applied, failures' = 0, World
    PROVE  Applied'
<1> USE DEF At, Applied
<1>1. ASSUME NEW p \in Provider, NEW s \in Specs[p], Create(p, s) PROVE Applied'
  BY <1>1 DEF Create, K!Create, local, host, TypeOK, K!KubeTypeOK
<1>2. ASSUME NEW p \in Provider, NEW s \in Specs[p], Update(p, s) PROVE Applied'
  <2>1. api[p] # NoObject /\ api[p] \in K!Object /\ api' = [api EXCEPT ![p] = [@ EXCEPT !.spec = s]]
    BY <1>2 DEF Update, K!Update, TypeOK, K!KubeTypeOK
  <2>2. [api[p] EXCEPT !.spec = s].status = api[p].status
    BY <2>1 DEF K!Object
  <2> QED
    BY <1>2, <2>1, <2>2 DEF Update, K!Update, local, host, TypeOK, K!KubeTypeOK
<1>3. ASSUME NEW p \in Provider, Delete(p) PROVE Applied'
  <2>1. api[p] # NoObject /\ api[p] \in K!Object
    BY <1>3 DEF Delete, K!Delete, TypeOK, K!KubeTypeOK
  <2>2. [api[p] EXCEPT !.deleting = TRUE].status = api[p].status
    BY <2>1 DEF K!Object
  <2> QED
    BY <1>3, <2>1, <2>2 DEF Delete, K!Delete, local, host, TypeOK, K!KubeTypeOK
<1>4. ASSUME NEW p \in Provider, Watch(p) \/ Resync(p) PROVE Applied'
  BY <1>4 DEF Watch, Resync, K!Watch, K!Resync, K!IsApply, local, host, TypeOK, K!KubeTypeOK
<1>5. ~Fail
  BY FailType
<1>6. CASE Crash
  BY <1>6 DEF Crash, K!IsApply
<1> QED
  BY <1>1, <1>2, <1>3, <1>4, <1>5, <1>6 DEF World, ChildExit

\* Failures never become fewer.
LEMMA FailuresCount ==
    ASSUME TypeOK, Next, failures' = 0
    PROVE  failures = 0
<1>1. ~Fail
  BY FailType
<1> QED
  BY <1>1 DEF Next, Start, Locking, Step, Ignore, StartFinalize, StartApply, StartCleanup, Begin,
     AddFinalizer, Fetch, StartProvider, Spawn, Feed, PatchStatus, StopProvider, Shutdown, Release,
     Create, Update, Delete, Watch, Resync, ChildExit, Crash, Edit, bounds

\* Where no two Providers ask for one child, and while nothing fails, a settled
\* Provider that reports a public key has a child running under that key and its
\* link name: through updates of the image, deletions, stale copies and crashes
\* of the host.
THEOREM ProvidersAreObserved ==
    ASSUME OwnChildren
    PROVE  Spec => []ProvidersObserved
<1>1. Init => ObservedInv
  BY InitType DEF Init, ObservedInv, ChildrenInv, ChildrenTracked, LockHeld, Owned, Phases, Fresh, Running, Applied, At, NoTasks, Idle,
     K!KubeInit, K!IsApply, ApplyPcs, CleanupPcs
<1>2. ObservedInv /\ [Next]_vars => ObservedInv'
  <2> SUFFICES ASSUME ObservedInv, [Next]_vars PROVE ObservedInv'
    OBVIOUS
  <2>1. CASE Next
    <3>0. TypeOK /\ LockHeld /\ Owned /\ Phases /\ Fresh /\ (failures' = 0 => Running /\ Applied)
      BY <2>1, FailuresCount DEF ObservedInv, ChildrenInv
    <3>1. ChildrenInv'
      BY <2>1, NextSplits, TaskStepType, WorldType, TaskStepKeepsChildren, WorldKeepsChildren
         DEF ObservedInv, ChildrenInv
    <3>2. Owned'
      BY <2>1, <3>0, NextSplits, TaskStepOwned, WorldOwned
    <3>3. Phases' /\ Fresh'
      BY <2>1, <3>0, NextSplits, TaskStepPhases, WorldPhases
    <3>4. failures' = 0 => Running'
      BY <2>1, <3>0, NextSplits, TaskStepRunning, WorldRunning
    <3>5. failures' = 0 => Applied'
      BY <2>1, <3>0, NextSplits, TaskStepApplied, WorldApplied
    <3> QED
      BY <3>1, <3>2, <3>3, <3>4, <3>5 DEF ObservedInv
  <2>2. CASE UNCHANGED vars
    BY <2>2 DEF vars, kube, host, bounds, ObservedInv, ChildrenInv, ChildrenTracked, TypeOK, K!KubeTypeOK,
       LockHeld, Owned, OwnObject,
       Phases, Fresh, Running, Applied, At, Child
  <2> QED
    BY <2>1, <2>2
<1> QED
  BY <1>1, <1>2, ObservedInvSuffices, PTL DEF Spec
=============================================================================
