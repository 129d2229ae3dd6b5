------------------------------ MODULE Providers ------------------------------
(***************************************************************************)
(* The provider controller of one kasmcloud host: reconcile_provider and   *)
(* delete_provider of src/main.rs, start_provider and stop_provider of     *)
(* crates/host/src/lib.rs, and the child processes they run.               *)
(*                                                                         *)
(* A child is identified by its provider's public key and link name: the   *)
(* table holds at most one child for such a pair, and both operations hold *)
(* the lock of the table from beginning to end.                            *)
(***************************************************************************)
EXTENDS Naturals, FiniteSets

CONSTANTS
    Provider,     \* names of the Provider objects
    Image,        \* image references
    Key,          \* public keys of providers
    KeyOf,        \* the public key in the claims of each image
    LinkName,     \* link names
    Hosts, HostName,
    Specs,        \* the specs users give each object
    NoObject, NoStatus, NoImage, Free,
    MaxEdits,     \* how often users create, update or delete objects
    MaxFailures,  \* how many fetches, spawns, writes, patches fail and children die
    MaxCrashes,   \* how often this host may crash
    MaxFaults     \* how many failures and crashes there are together

ProviderSpec == [host : Hosts, image : Image, link : LinkName]

\* The image stands for what a status repeats of its claims, such as the version.
ProviderStatus == [publicKey : Key, image : Image]

ASSUME ProvidersAssumption ==
    /\ KeyOf \in [Image -> Key]
    /\ Specs \in [Provider -> SUBSET ProviderSpec]
    /\ Free \notin Provider /\ NoImage \notin Image
    /\ NoStatus \notin ProviderStatus
    /\ NoObject \notin [spec      : ProviderSpec,
                        status    : ProviderStatus \cup {NoStatus},
                        finalizer : BOOLEAN,
                        deleting  : BOOLEAN]
    /\ MaxEdits \in Nat /\ MaxFailures \in Nat /\ MaxCrashes \in Nat /\ MaxFaults \in Nat

VARIABLES
    api, store, queue,  \* the Provider objects and their controller's queue: see Kube
    task,        \* the reconciliation of each provider
    lock,        \* who holds host.providers for writing across an await
    providers,   \* host.providers: public key -> image_ref of the entry
    instances,   \* the instances in these entries: pairs of key and link name
    alive,       \* the children of this host process that run
    edits, failures, crashes

kube == <<api, store, queue>>
host == <<providers, instances, alive>>
bounds == <<edits, failures, crashes>>
vars == <<kube, task, lock, host, bounds>>

K == INSTANCE Kube WITH Name <- Provider, SpecVal <- ProviderSpec, StatusVal <- ProviderStatus

Pcs == {"idle", "finalize", "fetch", "start", "spawn", "feed", "patch", "stop", "shutdown", "release"}

Idle == [pc |-> "idle", obj |-> NoObject]

Task == {Idle}
        \cup [pc : Pcs \ {"idle", "stop", "shutdown"}, obj : K!Object]
        \cup [pc : {"stop", "shutdown"}, obj : {o \in K!Object : o.status \in ProviderStatus}]

\* Types.  A task that stops a provider has an object with a status: delete_provider
\* takes the key from it.
TypeOK ==
    /\ K!KubeTypeOK
    /\ task \in [Provider -> Task]
    /\ lock \in Provider \cup {Free}
    /\ providers \in [Key -> Image \cup {NoImage}]
    /\ instances \in SUBSET (Key \X LinkName)
    /\ alive \in SUBSET (Key \X LinkName)
    /\ edits \in 0..MaxEdits
    /\ failures \in 0..MaxFailures
    /\ crashes \in 0..MaxCrashes

\* What a host process starts with: no reconciliation, and an empty table.
NoTasks == [p \in Provider |-> Idle]
NoEntries == [k \in Key |-> NoImage]

Init ==
    /\ K!KubeInit
    /\ task = NoTasks
    /\ lock = Free
    /\ providers = NoEntries
    /\ instances = {}
    /\ alive = {}
    /\ edits = 0
    /\ failures = 0
    /\ crashes = 0

----------------------------------------------------------------------------
At(p, pc) == task[p].pc = pc
Goto(p, pc) == task' = [task EXCEPT ![p] = [pc |-> pc, obj |-> @.obj]]
Done(p) == task' = [task EXCEPT ![p] = Idle]
Requeue(p) == Done(p) /\ queue' = queue \cup {p}
Fail ==
    /\ failures < MaxFailures /\ failures + crashes < MaxFaults
    /\ failures' = failures + 1
    /\ UNCHANGED <<edits, crashes>>

Mine(o) == o # NoObject /\ o.spec.host = HostName

Begin(p, pc) ==
    /\ At(p, "idle") /\ K!Due(p) /\ Mine(store[p])
    /\ task' = [task EXCEPT ![p] = [pc |-> pc, obj |-> store[p]]]
    /\ queue' = queue \ {p}
    /\ UNCHANGED <<api, store, lock, host, bounds>>

Ignore(p) ==
    /\ At(p, "idle") /\ K!Due(p) /\ ~Mine(store[p])
    /\ queue' = queue \ {p}
    /\ UNCHANGED <<api, store, task, lock, host, bounds>>

StartFinalize(p) == K!NeedsFinalizer(store[p]) /\ Begin(p, "finalize")
StartApply(p) == K!IsApply(store[p]) /\ Begin(p, "fetch")

\* Mutant: the status is used whether there is one or not.
StartCleanupUnchecked(p) == K!IsCleanup(store[p]) /\ Begin(p, "stop")

\* Mutant: without a status there is nothing to do, the finalizer included.
StartCleanupKeepingFinalizer(p) ==
    /\ K!IsCleanup(store[p])
    /\ \/ store[p].status # NoStatus /\ Begin(p, "stop")
       \/ /\ store[p].status = NoStatus
          /\ At(p, "idle") /\ K!Due(p) /\ Mine(store[p])
          /\ queue' = queue \ {p}
          /\ UNCHANGED <<api, store, task, lock, host, bounds>>

\* delete_provider stops nothing for an object whose copy has no status.
StartCleanup(p) ==
    /\ K!IsCleanup(store[p])
    /\ Begin(p, IF store[p].status = NoStatus THEN "release" ELSE "stop")

AddFinalizer(p) ==
    /\ At(p, "finalize")
    /\ \/ K!CanAddFinalizer(p) /\ K!AddFinalizer(p) /\ Done(p) /\ UNCHANGED queue
       \/ ~K!CanAddFinalizer(p) /\ Requeue(p) /\ UNCHANGED api
    /\ UNCHANGED <<store, lock, host, bounds>>

----------------------------------------------------------------------------
(***************************************************************************)
(* start_provider                                                          *)
(***************************************************************************)
Child(p) == <<KeyOf[task[p].obj.spec.image], task[p].obj.spec.link>>

\* An error is logged, and nothing is tried again.
Fetch(p) ==
    /\ At(p, "fetch")
    /\ \/ Goto(p, "start") /\ UNCHANGED bounds
       \/ Fail /\ Done(p)
    /\ UNCHANGED <<kube, lock, host>>

\* Mutant: an entry of the key is enough, whatever the link name.
StartProviderByKey(p) ==
    LET k == Child(p)[1] IN
    /\ At(p, "start") /\ lock = Free
    /\ providers' = [providers EXCEPT ![k] = IF @ = NoImage THEN task[p].obj.spec.image ELSE @]
    /\ \/ providers[k] # NoImage /\ Goto(p, "patch") /\ UNCHANGED lock
       \/ providers[k] = NoImage /\ Goto(p, "spawn") /\ lock' = p
    /\ UNCHANGED <<kube, instances, alive, bounds>>

\* providers.write(): the entry is made if there is none; without an instance
\* of this link name in it, the lock is held until the child has its input.
StartProvider(p) ==
    LET k == Child(p)[1] IN
    /\ At(p, "start") /\ lock = Free
    /\ providers' = [providers EXCEPT ![k] = IF @ = NoImage THEN task[p].obj.spec.image ELSE @]
    /\ \/ Child(p) \in instances /\ Goto(p, "patch") /\ UNCHANGED lock
       \/ Child(p) \notin instances /\ Goto(p, "spawn") /\ lock' = p
    /\ UNCHANGED <<kube, instances, alive, bounds>>

Spawn(p) ==
    /\ At(p, "spawn")
    /\ \/ Goto(p, "feed") /\ alive' = alive \cup {Child(p)} /\ UNCHANGED <<lock, bounds>>
       \/ Fail /\ Done(p) /\ lock' = Free /\ UNCHANGED alive
    /\ UNCHANGED <<kube, providers, instances>>

\* Mutant: without kill_on_drop the dropped child goes on.
FeedWithoutKill(p) ==
    /\ At(p, "feed")
    /\ lock' = Free
    /\ \/ Goto(p, "patch") /\ instances' = instances \cup {Child(p)} /\ UNCHANGED bounds
       \/ Fail /\ Done(p) /\ UNCHANGED instances
    /\ UNCHANGED <<kube, providers, alive>>

\* The host data is written to the child; if that fails the child is dropped,
\* which kills it.
Feed(p) ==
    /\ At(p, "feed")
    /\ lock' = Free
    /\ \/ Goto(p, "patch") /\ instances' = instances \cup {Child(p)} /\ UNCHANGED <<alive, bounds>>
       \/ Fail /\ Done(p) /\ alive' = alive \ {Child(p)} /\ UNCHANGED instances
    /\ UNCHANGED <<kube, providers>>

NewStatus(p) == [publicKey |-> Child(p)[1], image |-> task[p].obj.spec.image]

PatchStatus(p) ==
    /\ At(p, "patch")
    /\ \/ /\ task[p].obj.status # NewStatus(p) /\ K!CanPatchStatus(p)
          /\ K!WriteStatus(p, NewStatus(p))
          /\ UNCHANGED bounds
       \/ /\ task[p].obj.status = NewStatus(p) \/ ~K!CanPatchStatus(p)
          /\ UNCHANGED <<api, bounds>>
       \/ /\ task[p].obj.status # NewStatus(p)
          /\ Fail
          /\ UNCHANGED api
    /\ Done(p)
    /\ UNCHANGED <<store, queue, lock, host>>

----------------------------------------------------------------------------
(***************************************************************************)
(* stop_provider, for the key in the status of the object's copy           *)
(***************************************************************************)
Stopped(p) == <<task[p].obj.status.publicKey, task[p].obj.spec.link>>

\* The entry goes when no instance is left in it.
DropEntry(k, left) ==
    providers' = IF \E n \in LinkName : <<k, n>> \in left THEN providers
                 ELSE [providers EXCEPT ![k] = NoImage]

(***************************************************************************)
(* providers.write(): the instance is taken out of the table and dropped,  *)
(* and the child with it (kill_on_drop).  The shutdown request comes next, *)
(* with the lock held.                                                     *)
(***************************************************************************)
StopProvider(p) ==
    /\ At(p, "stop") /\ lock = Free
    /\ \/ /\ Stopped(p) \in instances
          /\ instances' = instances \ {Stopped(p)}
          /\ alive' = alive \ {Stopped(p)}
          /\ lock' = p
          /\ Goto(p, "shutdown")
          /\ UNCHANGED providers
       \/ /\ Stopped(p) \notin instances
          /\ DropEntry(Stopped(p)[1], instances)
          /\ Goto(p, "release")
          /\ UNCHANGED <<instances, alive, lock>>
    /\ UNCHANGED <<kube, bounds>>

\* Mutant: host.providers stays locked.
ShutdownLocked(p) ==
    /\ At(p, "shutdown")
    /\ DropEntry(Stopped(p)[1], instances)
    /\ Goto(p, "release")
    /\ UNCHANGED <<kube, lock, instances, alive, bounds>>

\* The request is answered, or times out after five seconds.
Shutdown(p) ==
    /\ At(p, "shutdown")
    /\ DropEntry(Stopped(p)[1], instances)
    /\ lock' = Free
    /\ Goto(p, "release")
    /\ UNCHANGED <<kube, instances, alive, bounds>>

Release(p) ==
    /\ At(p, "release")
    /\ \/ K!CanRemoveFinalizer(p) /\ K!RemoveFinalizer(p) /\ Done(p) /\ UNCHANGED queue
       \/ ~K!CanRemoveFinalizer(p) /\ Requeue(p) /\ UNCHANGED api
    /\ UNCHANGED <<store, lock, host, bounds>>

----------------------------------------------------------------------------
\* A child dies by itself: nobody waits for it, and the table keeps it.
ChildExit(c) ==
    /\ c \in alive
    /\ Fail
    /\ alive' = alive \ {c}
    /\ UNCHANGED <<kube, task, lock, providers, instances>>

Edit == edits < MaxEdits /\ edits' = edits + 1 /\ UNCHANGED <<failures, crashes>>

(***************************************************************************)
(* The process dies and starts again.  A child that outlives it is nobody's *)
(* from now on: no table has it, and kill_on_drop does not reach it.       *)
(***************************************************************************)
Crash ==
    /\ crashes < MaxCrashes /\ failures + crashes < MaxFaults
    /\ crashes' = crashes + 1
    /\ task' = NoTasks
    /\ lock' = Free
    /\ providers' = NoEntries
    /\ instances' = {}
    /\ alive' = {}
    /\ store' = [p \in Provider |-> NoObject]
    /\ queue' = {}
    /\ UNCHANGED <<api, edits, failures>>

local == <<task, lock, host>>

\* The webhook refuses changes of spec.host and spec.link.
Create(p, s) == Edit /\ K!Create(p, s) /\ UNCHANGED local
Update(p, s) == /\ Edit /\ K!Update(p, s)
                /\ s.host = api[p].spec.host /\ s.link = api[p].spec.link
                /\ UNCHANGED local
Delete(p) == Edit /\ K!Delete(p) /\ UNCHANGED local
Watch(p) == K!Watch(p) /\ UNCHANGED <<local, bounds>>
Resync(p) == K!Resync(p) /\ UNCHANGED <<local, bounds>>

Start(p) == Ignore(p) \/ StartFinalize(p) \/ StartApply(p) \/ StartCleanup(p)
Locking(p) == StartProvider(p) \/ StopProvider(p)
Step(p) == \/ AddFinalizer(p) \/ Fetch(p) \/ Spawn(p) \/ Feed(p)
           \/ PatchStatus(p) \/ Shutdown(p) \/ Release(p)

Next == \/ \E p \in Provider : \/ Start(p) \/ Locking(p) \/ Step(p)
                               \/ \E s \in Specs[p] : Create(p, s) \/ Update(p, s)
                               \/ Delete(p) \/ Watch(p) \/ Resync(p)
        \/ \E c \in Key \X LinkName : ChildExit(c)
        \/ Crash

Spec == Init /\ [][Next]_vars

(***************************************************************************)
(* Tasks are polled, the watch delivers, and tokio's lock serves those who *)
(* wait for it in turn.                                                    *)
(***************************************************************************)
Fairness == \A p \in Provider : /\ WF_vars(Watch(p)) /\ WF_vars(Start(p)) /\ WF_vars(Step(p))
                                /\ SF_vars(Locking(p))

FairSpec == Spec /\ Fairness

----------------------------------------------------------------------------
(***************************************************************************)
(* Properties.                                                             *)
(***************************************************************************)

(***************************************************************************)
(* No child outlives its entry: a child that runs is in the table, where   *)
(* stop_provider finds it, or still held by the task that spawned it.      *)
(***************************************************************************)
ChildrenTracked ==
    \A c \in alive : c \in instances \/ \E p \in Provider : At(p, "feed") /\ Child(p) = c

Settled(p) ==
    /\ At(p, "idle")
    /\ store[p] = api[p]
    /\ p \notin queue
    /\ Mine(store[p]) /\ K!IsApply(store[p])
    /\ store[p].status # NoStatus

(***************************************************************************)
(* "ProviderStatus defines the observed state of Provider": while nothing  *)
(* fails, a settled Provider that reports a public key has a child running *)
(* under that key and its link name, also when the status is of an earlier *)
(* run of the host.                                                        *)
(***************************************************************************)
ProvidersObserved ==
    failures = 0 =>
        \A p \in Provider :
            Settled(p) => <<store[p].status.publicKey, store[p].spec.link>> \in alive

\* p is there to stay.
Kept(p) == api[p] # NoObject /\ ~api[p].deleting /\ Mine(api[p])

(***************************************************************************)
(* While nothing fails, a Provider that stays gets a child of its image's  *)
(* key, although every other start and stop holds the table's lock while   *)
(* it talks to a child, and gets one again when the host has crashed.      *)
(***************************************************************************)
ProvidersGetStarted ==
    [](failures = 0) =>
        \A p \in Provider :
            <>[]Kept(p) => <>[](Kept(p) /\ <<KeyOf[api[p].spec.image], api[p].spec.link>> \in alive)

(***************************************************************************)
(* A Provider that is deleted goes away, also when its child died, was     *)
(* never started or is another's: stop_provider fails on none of these.    *)
(***************************************************************************)
ProviderDeletionsComplete ==
    \A p \in Provider : (api[p] # NoObject /\ api[p].deleting) ~> (api[p] = NoObject)
=============================================================================
