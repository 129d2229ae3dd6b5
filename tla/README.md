# A TLA+ model of kasmcloud

kasmcloud runs wasmCloud actors and capability providers on a host that takes
its orders from Kubernetes: users create `Actor`, `Provider` and `Link` objects,
a host reconciles them. This directory holds TLA+ modules that model the parts
of the host that keep state, TLC configurations that check them on small
instances, and theorems that TLAPS checks for every instance. Paths below are
relative to the repository, without the leading `src/` that `PROJECT.json` has
(so `src/main.rs` is the host binary, `crates/host/src/lib.rs` the host library).

Run `tlc -config X.cfg M` for a row of the table of runs, `tlapm M.tla` for a
module of proofs.

## 1. Inventory

### Parts, their state, their operations

| Part | State | Operations | Modelled in |
|---|---|---|---|
| link controller (`add_link`, `delete_link` in `src/main.rs`; `add_linkdef`, `delete_linkdef`, `get_actor_links` in `crates/host/src/lib.rs`) | `ctx.links`: id -> definition and the names of the Link objects that want it; `host.links`: hash -> definition; the `links` of every actor group | apply and clean up a Link; put and delete a link definition; fill a new group | `Links`, which implements `LinkRegistry`; with the providers `ProviderLinks` |
| Link resource and its webhook (`api/v1alpha1/link_webhook.go`, `link_types.go`, `crates/apis/.../link.rs`) | spec, status | `validate`, refusal of updates | `LinkSpecs` |
| actor controller (`reconcile_actor`, `delete_actor` in `src/main.rs`; `reconcile_actor`, `remove_actor`, `start_actor`, `instantiate_actor` in `lib.rs`) | `host.actor_keys`: name -> key; `host.actors`: key -> group; the `actors` of every group; the call loops that run | scale an actor, stop an actor | `Actors` |
| host status (`update_host_status`, `Host::stats`) | status of the `KasmCloudHost` | counts, lock by lock, then a patch | `Actors` (actor groups and instances only) |
| provider controller (`reconcile_provider`, `delete_provider`; `start_provider`, `stop_provider`) | `host.providers`: key -> entry with its instances; the child processes | start a child, stop a child | `Providers`; what a child knows of links in `ProviderLinks` |
| invocation path (`crates/host/src/actor.rs`, `handler.rs`) | invocations, `targets` of an actor, `links` of its group | receive, validate and answer an invocation; calls to providers and actors; `set_target` | `Invocations` |
| Kubernetes and kube-rs | objects, reflector, work queue, finalizers | create, update, delete, watch, the patches | `Kube` (external) |
| actor and provider webhooks | none | refuse changes of `spec.host` and `spec.link` | guards of `Update` in `Actors` and `Providers` |
| host startup (`main` in `src/main.rs`) | none that changes later | the first report of the host's status, the start of the controllers | `Init` and `Crash` of the controllers' modules |
| webhook server, generated code | none | | not modelled |

### How they interact

- Each controller is a kube-rs `Controller`. It reconciles different objects of
  its kind at the same time and one object never twice at a time. The three
  controllers run in one process and share `Host`.
- The link and the actor controller meet in the group's `links` table:
  `add_linkdef` writes `host.links` and then the group, a new group copies
  `host.links`.
- The link controller and the invocation path meet in the same table: a call
  keeps it read-locked until it is answered, a change waits for all calls.
- The link and the provider controller meet in three places: a Link that names a
  Provider object waits for the key the provider controller writes into its
  status; `start_provider` reads `host.links` for a new child and keeps it
  read-locked until the child has been fed; later changes are published to the
  child.
- Every actor reconciliation ends in a patch of the host's status. Provider and
  link reconciliations do not touch it.
- All hosts of a namespace run the link controller on the same Link objects with
  the same finalizer; actors and providers are filtered by `spec.host`. They
  publish link definitions on one lattice (`lattice_prefix` is the namespace), but
  each counts for itself who wants a definition.
- `add_linkdef` and `delete_linkdef` keep `host.actors` read-locked while they wait
  for the calls of one actor: the link and the actor controller wait for the
  invocation path there.
- Link definitions are announced to providers over NATS without acknowledgement.

### What is hard

1. State is read under one lock and used under another: the group of an actor,
   the two halves of `add_linkdef`, the counts of the host status.
2. Several objects share one thing: Links a definition, Actors a group,
   Providers a child.
3. The status of an object outlives the process that wrote it and may be
   another host's.
4. Locks are held across NATS requests, subscriptions and child processes.
5. Most failures are logged and answered with `await_change`: nothing tries
   again until the object changes.

`PROJECT.json` lists these hazards one by one, each at its line.

### What makes each part correct

- Links: the three tables agree; a link that is reported is there, and on a host
  that is alone its provider was told; a link that is wanted gets there; no deletion
  is forgotten, and one goes through when the calls it may wait for are answered.
- Actors: whoever is in a group can be found by its name; the replicas reported
  run; a deleted actor stops; nobody waits for `host.actors` for ever unless the link
  controller keeps it for ever.
- Providers: no child escapes the table; a reported provider runs; starts and
  deletions finish.
- Links and providers together: a child knows the links the host has for it; a
  Link that names a Provider is served by its child; a deleted Link leaves.
- Invocations: a call's link stays until the call is over; the provider is not
  told to drop it before; invocations and link changes end.

## 2. Modules

```
Kube  <-INSTANCE-  Links, Actors, Providers
LinkSpecs  <-EXTENDS-  Links  <-EXTENDS-  LinksProofs, LinksRefinement
LinkRegistry  <-INSTANCE-  LinksRefinement  <-EXTENDS-  MCLinks
LinksProofs, LinksRefinement  <-EXTENDS-  RegistryProofs  <-EXTENDS-  RefinementProofs
Links, Providers  <-INSTANCE-  ProviderLinks  <-EXTENDS-  MCProviderLinks, ProviderLinksProofs
LinksProofs, ProvidersProofs  <-INSTANCE-  ProviderLinksProofs
Actors  <-EXTENDS-  MCActors, ActorsProofs  <-EXTENDS-  ReplicasProofs
Providers  <-EXTENDS-  MCProviders, ProvidersProofs
Invocations  <-EXTENDS-  MCInvocations, InvocationsProofs
```

A step of a model ends where the code awaits something that another task can
use: a lock, a NATS message, a request to the API server. A lock held across
such a step is a variable; one that is taken and released within a step is not.
Every action is mapped to its lines in `PROJECT.json`.

**Kube** (external) is what the three controllers see of Kubernetes. `api` are
the objects, `store` the reflector's copies, `queue` the pending requests.
`finalizer()` of kube-rs is the split into `NeedsFinalizer`, `IsApply` and
`IsCleanup`. Two facts of it matter: a reconciliation works on a copy
that may be old, and after a cleanup that returned `Ok` the finalizer goes,
whichever `Action` is in the `Ok`. The watch may skip intermediate states.

**LinkSpecs** keeps strings as sequences of characters because `linkdef_hash`
(`lib.rs:747`) concatenates them without a separator and `add_link` compares
them with the empty string. SHA-256 itself is taken to be injective.

**Links**. `task[l]` is the reconciliation of Link `l`: `addLock` ...
`addPublish` is `add_link` from `ctx.links.write()` to the end of `add_linkdef`,
`delLock` ... `delPublish` the same for `delete_link`. `lock` is the write lock
of `ctx.links`, held across both. `told` is what the providers were told;
`failed` the ids of which an announcement failed. The actor controller appears as
`NewGroup` and `DropGroup`, the Actor and Provider resources a Link names as
`SetActor` and `SetProvider`, and `Crash` empties everything the process keeps in
memory. `Peers` are the other hosts. Each goes by copies of its own (`seen`,
`PeerWatch`), patches finalizers and statuses (`PeerPatch`), and puts and deletes
definitions on the same subjects, so that `told` changes too (`PeerPublish`). What
its tables have is left open, so it may publish whenever the code could. `AddGroup`
and `DelGroup` are the ends of waits without a time limit: for `host.actors` and for
the links of the group, which every call of its actors keeps read-locked.

**LinkRegistry** is what `Links` promises: a register in which a definition is in
force, and announced, exactly from the first claim of a Link object to the last
one's leaving, all in one step. **LinksRefinement** maps `Links` to it. The step
of the register is taken when the announcement is published (`addPublish`,
`delPublish`): until then an addition does not count yet (`Adding`), and a
deletion leaves its last claimant and its definition in place (`Deleting`).
`failed` is the register's `lost`: of an id whose announcement failed the
register promises nothing but that it comes back with a restart.

**Actors**. A group has an identity of its own (`GroupId`), because
a reconciliation may hold a group that is no longer in `host.actors`. `running`
counts call loops that were spawned and not aborted, whether a table knows them
or not: that is the ground truth the status is compared with. `actorsLock` and
`groupLock` are the two locks that are held across awaits. `Stats`, `CountGroup`
and `CountProviders` are `stats()` lock by lock: it keeps `host.actors`
read-locked to the end, and the last lock it waits for is `host.providers`.
`elsewhere` are the locks that the other two controllers hold (`LockElsewhere`,
`UnlockElsewhere`): the provider controller has `host.providers` for writing, the
link controller has `host.actors` for reading, which keeps `TakeGroup` and
`RemoveLock` out (`HostActorsFree`) until the calls it waits for are over. `Crash`
loses the tables, the call loops and every task; the new process reports empty
counts and is told of all objects again.

**Providers**. A child is a pair of public key and link name. `instances` is
what the table has, `alive` what runs. Taking an instance out of the table drops
it, and `kill_on_drop` kills the child before the shutdown request is sent
(`lib.rs:602`), which is the order of `StopProvider` and `Shutdown`. `Crash`
loses the table and kills the children. A child that survives its host is not
modelled: the code keeps no record of it and has no operation for it.

**ProviderLinks** composes `Links` and `Providers` on one host. Its own state is
what the children know: `known` is filled from `host.links` when a child is
spawned and changed by what is published to it once it has `subscribed`; `missed`
are the definitions of which a change was published in between. The Provider
resource that `Links` reads (`provPub`) is the Provider object of `Providers`.
`LinkHost` waits for a child that is being fed, which is the read lock of
`host.links` in `start_provider`. The two crash together.

**Invocations**. An actor makes one call at a time, so that the invocations a
request from outside causes form a chain; `<<r, d>>` is the invocation at depth
`d` of request `r`. `holds` are the read guards of a call. Tokio's `RwLock` is
fair: a reader that comes after a waiting writer waits for it. That is the guard
of `ReadTargets` and `ReadLinks`, and it is what makes `invocations_back`
deadlock. `linker` is the one `add_linkdef` or `delete_linkdef` that `ctx.links`
admits; it keeps `host.actors` read-locked while it waits for the group, so that
`RemoveActor` waits for it. A removed actor's invocations go on with the tables
of the dropped group (`groups` are those still in `host.actors`), and a message
that no call loop had taken yet is lost.

In every model the definitions commented as "Mutant" are wrong versions of the
definition that follows them, one plausible bug each. They are used by nothing;
`PROJECT.json` says which property notices which of them.

## 3. Runs

`CHECK_DEADLOCK FALSE` is set where the number of user edits (`MaxEdits`) or
of operations is used up and everything is done, and in the runs of
`Invocations`, where the system really can stop after a lost answer. The runs
of `Links` and `ProviderLinks` have users who never stop, and check deadlock.

| Run | Instance | States | What it shows |
|---|---|---|---|
| `links_shared` | two Links of one definition, created, deleted and re-created without bound; groups come and go; one crash, one failure; no other host | 213,071 | `LinkTablesAgree`, `EstablishedLinks`, `AnnouncedLinks`, `DeletionsStayDue`, and the refinement `LinksImplementRegistry` |
| `links_peers` | one Link by name; another host with stale copies; one failure, one crash, one change of a resource | 724,104 | `TypeOK`, `EstablishedLinks`: the status may be another host's |
| `links_live` | two Links of one definition by name, two changes of the resources (one link name), groups come and go, users never stop; no failure | 54,572 | `WantedLinksGetLinked`, `DeletionsComplete`: contention for `ctx.links` starves nobody |
| `provider_links` | one Link and the Provider it names, of the same or another link name; created and deleted in any order, the Link without bound; one crash | 50,721 | `ChildrenKnowTheirLinks`, `NamedLinksGetServed`, `DeletedLinksLeave` |
| `actors_shared` | two Actors of one key, 0 to 2 replicas, one image of another key, one spec of another host, one failure | 1,232,378 | `TypeOK`, `MembersHaveKeys`, `ReplicasServe` |
| `actors_live` | two Actors of two keys; one crash; a provider controller that locks `host.providers`, a link controller that locks `host.actors` | 138,905 | `ReplicasObserved`, `ActorsGetScaled`, `DeletedActorsStop` |
| `actors_replicas` | as `actors_shared`, no failure | | **violation** of `ReplicasObserved` |
| `host_status` | two Actors of two keys, no crash | | **violation** of `HostStatusObserved` |
| `providers` | two Providers of one key and two link names, one moved to an image of another key; one failure or one crash | 136,358 | `TypeOK`, `ChildrenTracked`, `ProvidersObserved`, `ProvidersGetStarted`, `ProviderDeletionsComplete` |
| `providers_shared` | two Providers of one key and one link name | | **violation** of `ProvidersObserved` |
| `invocations` | two requests at a time, one of them with a chain of two and perhaps chunked; one link made and deleted without bound; an actor that is removed; one loss | 145,152 | `TypeOK`, `CallsKeepTheirLink`, `NoDropUnderCall`, `InvocationsEnd`, `LinkChangesEnd` |
| `invocations_back` | one request, chain of three, the second actor calls the first back | | **violation** of `CallsReturn` |

A run takes up to four minutes with two workers. `links_shared` uses symmetry
of the Links; the runs with liveness use none.

Why the bounds are enough for what is asked: the hazards are between two tasks
that share something, so two objects that share it (a definition, a group, a
child) are the smallest instance that has them, and a third object adds no new
kind of step. One failure or crash can happen at any point of any reconciliation;
two would only be needed for a bug that recovers from the first. In `Providers`
the two are drawn from one budget (`MaxFaults`). `MaxEdits = 3`
lets one object be created, changed and deleted, or both be created and one
deleted while the other is being reconciled. In `provider_links`
`MaxEdits = 2` lets the Provider be created and deleted; a crash restarts its
child, so a child started before, during and after `add_linkdef` all happen.
`GroupId` has four members so that
a dropped group, a new one and two that tasks still hold can differ; `MaxRunning`
is above what the edits can start, so it never blocks a subscription. `Resyncs`
lets a reconciliation of an unchanged object start at any time; it is off in
`links_live`, `provider_links` and `actors_live`, whose properties must not owe
anything to it, and in `links_shared` to save states (requeues after a failure repeat
reconciliations there). The depth of three
in `invocations_back` is the shortest chain that comes back to its first actor.
`Removable` has the one actor that makes calls, and `Chunks` gives the timeout of
chunked requests to the request with a chain, so that a call that is given up
while its callee is at work happens.

Two guards only save states: `LockElsewhere` takes a lock when a task of the actor
controller has come to it, and `Resync` of `Actors` waits for the end of a
reconciliation. Nobody can tell an earlier lock or request from one taken then.
The actors of `actors_live` share no key, because finding 1 makes both its liveness
properties false where they do; so the wait for a table into which another actor of
the group subscribes happens in `actors_shared` only, where safety is checked.

### Fairness

- `WF` on `Watch`, `Start`, `Step`: the tokio runtime polls every task that can
  go on, the kube-rs `Controller` starts what is in its queue, and the watch
  delivers. A step that models a call which can fail counts as a step either way.
- `SF` on the steps that take a lock: tokio's `Mutex` and `RwLock` are fair
  queues, so a waiter is served although others take the lock in between.
- `WF` on `UnlockElsewhere("providers")`: `stop_provider` gives its child five
  seconds and `start_provider` writes to a pipe.
- Nothing on `AddGroup` and `DelGroup` of `Links`, nor on `UnlockElsewhere("actors")`:
  they wait for calls of actors, which have no timeout (`handler.rs:99`).
- `ProviderLinks` takes over the fairness of its two parts; `SF` on `LinkHost` is
  the queue of `host.links`. A child need not subscribe for any of its properties.
- Nothing is assumed of users, of other hosts, of crashes or of the Actor and
  Provider resources.
- In `Invocations` guest code ends, and a provider that has a request
  answers it or the answer is lost. The two liveness properties are stated for
  behaviours without a loss, because the code has no timeout for plain requests.

### Premises that matter

- `WantedLinksGetLinked` and `DeletionsComplete` have the premise `GroupsYield`, no
  task waits for a group's table for ever; `ActorsGetScaled` and `DeletedActorsStop`
  have `HostActorsYields`, the link controller comes to release `host.actors`. Finding
  4 shows behaviours in which neither holds, and without the premises TLC refutes the
  properties. The unbounded wait itself is therefore not caught by them but by
  `CallsReturn`; `LinkChangesEnd` shows when it ends. `ProviderLinks` has no groups,
  so `NamedLinksGetServed` takes the same for granted.
- `WantedLinksGetLinked` also leaves out behaviours with a failure: `add_link` does
  not try again when it could not publish or patch.
- `AnnouncedLinks` and `LinksImplementRegistry` are about a host that is alone, see
  the end of section 4.
- `DeletionsStayDue` needs that too: another host could remove an object that this one
  has seen being deleted and a user create one just like it, between two events of
  the watch. It is about failures and crashes, where `DeletionsComplete` is not.
- `WantedLinksGetLinked` leaves out a Link that ever met a Provider with
  another link name: `add_link` gives up on it with `await_change`
  (`src/main.rs:497`) and looks again only when the Link itself changes. Without
  that premise the property fails; with the one link name of `links_live` it always holds.
- `EstablishedLinks` leaves out the ids of which an announcement failed. After a
  failed put `host.links` has the definition, so that the next `add_linkdef` is
  "skip linkdef" and the provider is never told.
- `LinksImplementRegistry` treats such ids as lost, and is silent about them.
- `ChildrenKnowTheirLinks` and `NamedLinksGetServed` except a definition of which
  a change was published after the child was spawned and before it subscribed
  (`lib.rs:566`, `lib.rs:692`): it is not sent again. They show that this window is
  the only one; a link added before the spawn is in the host data, one added while
  the data is written waits for `host.links`.
- `DeletedLinksLeave` is about a Link that has a status while it is not being
  deleted. One whose status is patched after the deletion may leave its name in
  `ctx.links`, because `delete_link` goes by the reflector's copy
  (`src/main.rs:578`).
- `CallsKeepTheirLink` and `NoDropUnderCall` are about actors that have a group;
  a removed actor's calls keep a table that nobody changes, while `delete_linkdef`
  no longer waits for them.
- The properties of actors and providers that compare a status with what runs
  are stated for behaviours without failure, because a failure is not retried.

## 4. Findings

1. `actors_replicas`: `reconcile_actor` takes a group out of `host.actors`,
   releases the lock, and fills the group afterwards. `remove_actor` of another
   Actor of the same key may find the group empty in between and drop it. The
   instances then run in a group nobody can reach; the next reconciliation
   starts them again.
2. `host_status`: two reconciliations may patch the host's status in the
   opposite order of their `stats()`.
3. `providers_shared`: two Provider objects of one key and link name share a
   child, and the deletion of the first stops it for both.
4. `invocations_back`: an actor that is called back while one of its links is
   being changed waits for ever, and so do the change and, through `ctx.links`
   and `host.actors`, later ones. `NatsConfig.timeout` ("Timeout period for all
   RPC calls") does not apply: the request is sent with `timeout(None)`.

Met while modelling, without a run of its own:

A Link that is settled and reported on a host may not be announced when the namespace
has other hosts. A host publishes `linkdefs.del` when its own count of a definition
is down to nobody (`src/main.rs:591`, `lib.rs:733`). Another host that still has the
definition, because it joined its own entry of `ctx.links` (`src/main.rs:539-546`) and
published nothing, goes on reporting the link, while the provider was told to drop
it. `links_peers` has the steps (`PeerPublish`), and TLC refutes `AnnouncedLinks` there.

The webhook admits a Link with
both a provider name and a provider key and no link name ("must set
spec.linkName, if only set spec.provider.key", `link_webhook.go:98-102`), while
`add_link` gives up on every Link with a key and no link name
(`src/main.rs:440-442`). `MissingLinkName` keeps such Links out of
`WantedLinksGetLinked`.

## 5. Proofs

Eight modules. What they prove holds for any number of objects, keys, requests,
crashes and failures. Every invariant that a run checks is proved.

| Theorem | States | Inductive invariant | Hypothesis |
|---|---|---|---|
| `LinksTypeCorrect`, `LinkTablesStayInStep` (`LinksProofs`) | `TypeOK`, `LinkTablesAgree` | `TablesInv` | |
| `DeletionsAlwaysDue` (`LinksProofs`) | `DeletionsStayDue` | `DueInv` | `Peers = {}` |
| `SettledLinksEstablished` (`RegistryProofs`) | `EstablishedLinks` | `EstablishedInv` | `KeysDistinct` |
| `SettledLinksAnnounced` (`RegistryProofs`) | `AnnouncedLinks` | `EstablishedInv` | `KeysDistinct`, `Peers = {}` |
| `LinksImplementTheRegistry` (`RefinementProofs`) | `LinksImplementRegistry` | `RegistryInv` | `KeysDistinct`, `Peers = {}` |
| `ActorsTypeCorrect`, `MembersKeepTheirKeys` (`ActorsProofs`) | `TypeOK`, `MembersHaveKeys` | `GroupsInv` | |
| `ReplicasAlwaysServe` (`ReplicasProofs`) | `ReplicasServe` | `ServesInv` | |
| `ReplicasAreObserved` (`ReplicasProofs`) | `ReplicasObserved` | `ServesInv`, `ObservedInv` | `OwnKeys` |
| `ProvidersTypeCorrect`, `ChildrenStayTracked` (`ProvidersProofs`) | `TypeOK`, `ChildrenTracked` | `ChildrenInv` | |
| `ProvidersAreObserved` (`ProvidersProofs`) | `ProvidersObserved` | `ObservedInv` | `OwnChildren` |
| `ChildrenAlwaysKnow` (`ProviderLinksProofs`) | `ChildrenKnowTheirLinks` | `KnowInv` | |
| `InvocationsTypeCorrect`, `CallsAlwaysKeepTheirLink`, `NoDropWhileCalled` (`InvocationsProofs`) | `TypeOK`, `CallsKeepTheirLink`, `NoDropUnderCall` | `CallInv` | |

The hypotheses are about the constants alone, and the instances of the passing runs
that check the property satisfy them:

- `KeysDistinct` (`LinkSpecs`): two definitions with one hash or one id are of one
  link. The hash concatenates actor key, contract and link name without a
  separator and the id joins contract, actor key and link name with dots, so the
  code does not guarantee it: `a` + `bc` and `ab` + `c` as contract and link name
  have one hash. Public keys have one length; it holds, for instance, when the
  contracts in use do too.
  `LinkTablesStayInStep` does without it.
- `Peers = {}` (`Alone`): no other host works on the same Links. See *Premises that
  matter* for why these three need it.
- `OwnKeys`, `OwnChildren`: no two Actors that this host is given have images of one
  key, no two Providers of this host one key and link name. Without them the
  properties are false, as `actors_replicas` and `providers_shared` show: the
  theorems say that sharing is the only thing that breaks them.

**LinksProofs.** Assumptions: `LinksAssumption` (the markers are not values, the
bounds are naturals).

- `LinksTypeCorrect`: `Spec => []TypeOK`. The type of a task says at each place
  of the code what the task has: both keys from `addLock` on, an object with a
  status from `delLock` on. So the theorem says more than that fields have types:
  no definition with an empty key reaches a table.
- `LinkTablesStayInStep`: `Spec => []LinkTablesAgree`. Not inductive as it
  stands: between `host.links` and the group's table the two differ, and what
  one task changes another could undo. The invariant `TablesInv` adds
  `HostKeyed` (an entry of `host.links` is filed under its own hash), `LockHeld`
  (only the holder of `ctx.links` is between the tables) and `BetweenTables`
  (what `host.links` has for such a task). With it, each of `AddHost`,
  `AddGroup`, `DelHost`, `DelGroup`, `NewGroup` and `DropGroup` has a lemma, and
  every other step is covered by `FrameStep`. No assumption is made about the
  strings: the theorem also holds where two definitions share a hash.
- `DeletionsAlwaysDue`: `DueInv` adds what becomes of the request: a deletion goes by a
  copy that is marked (`Cleaning`), and after one it is due again or the object
  at the API server has no finalizer (`NoFinalizer`), which no step changes back before the
  watch has brought what is there now.

**InvocationsProofs.** Assumptions: `InvocationsAssumption`.

- `InvocationsTypeCorrect`, `CallsAlwaysKeepTheirLink` and `NoDropWhileCalled`,
  all from the invariant `CallInv`: every call on its way has its actor's
  links read-locked and its link among them (`SoundCall`), and a `delete_linkdef`
  that is about to publish has taken its link out of the table of the actor, if
  that still has a group (`DropPending`).
  The first part is needed because a write is only kept out by the guard, the
  second because the drop is announced a step after the table was changed.

**RegistryProofs.** On top of `TablesInv`, under `KeysDistinct`.

- `RegistryInv` says that `ctx.links` and `host.links` hold the same links except
  for the one the holder of the lock is adding or deleting, and for the ids that
  failed: an entry is filed under its id (`CtxKeyed`), what is counted is in
  `host.links` (`CtxHosted`), what is in `host.links` is counted, and announced if the
  host is alone (`Alone`, `HostCounted`), an entry is wanted by somebody until its deletion is over
  (`CtxWanted`). `AddPart` and `DelPart` are what a task in the middle of its
  change knows.
- `SettledLinksEstablished`: `Spec => []EstablishedLinks`. A status may be of an
  earlier run or of another host, so the invariant has to say how a reconciliation
  makes it true here: a task follows the copy of the object it began with
  (`RightEvent`), which is the reflector's unless another one is due (`UpToDate`);
  past the lock it counts its Link (`Claimed`), and between two reconciliations
  nobody else takes the Link out (`Kept`).
- `SettledLinksAnnounced`: with `Peers = {}`, `Spec => []AnnouncedLinks`, from the same
  invariant. The other theorem of this module holds with any number of other hosts.

**RefinementProofs.** `LinksImplementTheRegistry`: `Spec => LinksImplementRegistry`.
`ClaimsVal` and `TableVal` state the mapping by way of the one holder of the lock.
For each action a lemma says how it moves them. A Link joins or leaves a definition
that stays in force when it takes the lock; the first claim and the last one's
leaving are the register's step when `AddPublish` or `DelPublish` announces them;
a failed announcement loses the id, and `Crash` restarts the register. All other
steps leave it alone: `RegistryInv` is what makes those between the lock and the
announcement invisible.

**ActorsProofs.** Assumptions: `ActorsAssumption`; the sets of actors and keys are
finite, because `stats()` counts them.

- `ActorsTypeCorrect`, `MembersKeepTheirKeys` from `GroupsInv`. Even the types are
  not inductive alone: `remove_actor` and scaling down subtract from `running`,
  which stays a natural number only because the entries an actor can still reach
  never promise more call loops than it has. That rests on its being in one
  reachable group at most, of the key `actor_keys` has. `Took` is the hard case: the group a
  reconciliation has taken is still its key's, or `remove_actor` of another Actor
  dropped it meanwhile, and then no group of `host.actors` has the actor.

**ReplicasProofs.** On top of `GroupsInv`: a reconciliation goes the way its copy of the
object decides (`Phase`) and has the current one unless another is due (`UpToDate`).

- `ReplicasAlwaysServe`: `Served` says when the call loops of the spec are there, from
  the end of `Subscribe` on. A group dropped in between leaves its loops running, so
  that there may be more than the spec asks for, never fewer.
- `ReplicasAreObserved`: with `OwnKeys` nobody drops another's group, so that all call
  loops are in the group the host knows (`Tracked`) and the status reports them
  (`Observed`).

**ProvidersProofs.** Assumptions: `ProvidersAssumption`.

- `ProvidersTypeCorrect`, and `ChildrenStayTracked` from `ChildrenInv`, which adds that
  whoever spawns, feeds or shuts down a child holds `host.providers`: otherwise two
  tasks could start one child, and the table have only one of them.
- `ProvidersAreObserved` from `ObservedInv`: the objects have specs of their own
  (`Owned`), tasks follow their copy (`Phases`, `Fresh`), the children of the table run
  (`Running`), and the child of an object that was applied is in the table and
  reported (`Applied`).

**ProviderLinksProofs.** Assumptions: `ProviderLinksAssumption`, which has those of the
two parts. The theorems of the parts are used as they are: `LP` and `PP` instantiate
`LinksProofs` and `ProvidersProofs` the way `ProviderLinks` instantiates `Links` and
`Providers`, and `LinkSteps` and `ProviderSteps` say that the actions are the same.
The composition is not a behaviour of `Links` as it stands, because the Provider
resources change with the other part; so it is the lemmas about steps that are used,
and `ResourceType` shows that these resources always have their type.

- `ChildrenAlwaysKnow`: `Spec => []ChildrenKnowTheirLinks`. The property says nothing
  of a definition whose change is not published yet, so the invariant has to say what
  is true when it is: `host.links` still has the change (`Published`, which rests on
  the lock of `ctx.links` held across it), and what a child knows is its own
  (`OwnLinks`), whether it came with the host data or over the topic.

Model-checked only:

- every liveness property (`WantedLinksGetLinked`, `NamedLinksGetServed`,
  `DeletionsComplete`, `DeletedLinksLeave`, `ActorsGetScaled`,
  `DeletedActorsStop`, `ProvidersGetStarted`, `ProviderDeletionsComplete`,
  `InvocationsEnd`, `LinkChangesEnd`): the prover does not reason about fairness or
  `ENABLED`;
- the four violations, which are counterexamples.

## 6. Not modelled

- Values of links, claims' times, issuers and signatures, message encoding and
  the contents of chunks; logging and tracing.
- Aliases of actors: the table is never filled, so every look-up fails.
  `identify_wasmbus_target` only reads.
- The limit of the instance pool, which is in a library.
- Startup: options, key pairs, connections. It is sequential and fails as a whole;
  of it `Init` and `Crash` have the tables a process starts with and the first
  report of its status.
- Labels that the webhooks set, the webhook server, generated code.
- The count of providers in the host's status. No provider reconciliation reports
  it, so it is as old as the last report of an actor's; of `host.providers`
  `Actors` has the lock that `stats()` waits for.
- Actors in `ProviderLinks`: their groups play no part in what a child knows.
- The return of a removed actor in `Invocations`: the new group has nothing of the
  old one, and `NewGroup` of `Links` shows what it starts with.
- Negative or huge `spec.replicas`: the webhook's type keeps them out.

## 7. Plan

Done: 1. `Kube`, `LinkSpecs`, `Links` and their first proofs; 2. `Actors`; 3.
`Providers`; 4. `Invocations` and its proofs; 5. crashes in `Actors` and
`Providers`, and `stats()` lock by lock; 6. `ProviderLinks`; 7. `LinkRegistry` and
the refinement; 8. the removal of actors in `Invocations`.

Theorems done: 9. types, `ChildrenTracked` and `ProvidersObserved` of `Providers`; 10.
types, `MembersHaveKeys`, `ReplicasServe` and `ReplicasObserved` of `Actors`; 11.
`EstablishedLinks`; 12. the refinement of step 7; 13. `ChildrenKnowTheirLinks`.

Next: action properties of the code that the invariants above already imply, each with
a run that checks it first: that a step which stops a child is its own Provider's
(under `OwnChildren`), and that no step takes a link from `ctx.links` which another Link
still wants.

Not planned: a register of children as an abstraction of `Providers`, which would
say little more than `ChildrenTracked`, and a module for the count of providers.
