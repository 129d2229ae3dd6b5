-------------------------------- MODULE Kube --------------------------------
(***************************************************************************)
(* What one kasmcloud controller sees of Kubernetes, for one kind of       *)
(* resource: the objects at the API server, the reflector's cached copies  *)
(* of them, and the work queue of the kube-rs `Controller` that the binary *)
(* runs for that kind (src/main.rs:207-275).  Nothing here is code of the  *)
(* repository: it is the contract of kube-rs 0.85 and of the API server as *)
(* that code uses them.                                                    *)
(*                                                                         *)
(*  - `Controller::run` reconciles different objects concurrently, and one *)
(*    object at a time; a request for an object that is being reconciled   *)
(*    waits, and requests for the same object merge.                       *)
(*  - A reconciliation is given the reflector's copy of the object, which  *)
(*    may be older than the object at the API server.                      *)
(*  - `finalizer::finalizer` adds the finalizer first, then runs Apply, and*)
(*    for an object being deleted runs Cleanup and removes the finalizer   *)
(*    whenever Cleanup returned Ok, whatever Action is in the Ok.          *)
(***************************************************************************)
CONSTANTS
    Name,       \* names of the objects of this kind
    SpecVal,    \* the specs an object of this kind may be given
    StatusVal,  \* the statuses a controller may write
    NoObject,   \* there is no object of that name
    NoStatus    \* the object's status subresource was never written

VARIABLES
    api,        \* the objects at the API server
    store,      \* the reflector's copy of each
    queue       \* the objects with a reconciliation request pending

Object == [spec      : SpecVal,
           status    : StatusVal \cup {NoStatus},
           finalizer : BOOLEAN,
           deleting  : BOOLEAN]

KubeTypeOK ==
    /\ api \in [Name -> Object \cup {NoObject}]
    /\ store \in [Name -> Object \cup {NoObject}]
    /\ queue \in SUBSET Name

KubeInit ==
    /\ api = [n \in Name |-> NoObject]
    /\ store = [n \in Name |-> NoObject]
    /\ queue = {}

(***************************************************************************)
(* What users do to the objects.                                           *)
(***************************************************************************)
Create(n, s) ==
    /\ api[n] = NoObject
    /\ api' = [api EXCEPT ![n] = [spec |-> s, status |-> NoStatus,
                                  finalizer |-> FALSE, deleting |-> FALSE]]
    /\ UNCHANGED <<store, queue>>

Update(n, s) ==
    /\ api[n] # NoObject
    /\ api[n].spec # s
    /\ api' = [api EXCEPT ![n].spec = s]
    /\ UNCHANGED <<store, queue>>

\* Deletion only marks an object that still has a finalizer.
Delete(n) ==
    /\ api[n] # NoObject
    /\ ~api[n].deleting
    /\ api' = [api EXCEPT ![n] = IF @.finalizer
                                 THEN [@ EXCEPT !.deleting = TRUE]
                                 ELSE NoObject]
    /\ UNCHANGED <<store, queue>>

(***************************************************************************)
(* The watch: the newest state of an object reaches the reflector, and a   *)
(* reconciliation is requested.  Resync is an event that changes nothing   *)
(* the models look at: an edit of labels, or a re-list after a broken      *)
(* watch.                                                                  *)
(***************************************************************************)
Watch(n) ==
    /\ store[n] # api[n]
    /\ store' = [store EXCEPT ![n] = api[n]]
    /\ queue' = IF api[n] = NoObject THEN queue \ {n} ELSE queue \cup {n}
    /\ UNCHANGED api

Resync(n) ==
    /\ store[n] = api[n]
    /\ api[n] # NoObject
    /\ n \notin queue
    /\ queue' = queue \cup {n}
    /\ UNCHANGED <<api, store>>

(***************************************************************************)
(* FinalizerState::for_object: which event a reconciliation of o delivers. *)
(***************************************************************************)
NeedsFinalizer(o) == o # NoObject /\ ~o.finalizer /\ ~o.deleting
IsApply(o) == o # NoObject /\ o.finalizer /\ ~o.deleting
IsCleanup(o) == o # NoObject /\ o.finalizer /\ o.deleting

\* A reconciliation of n is due.
Due(n) == n \in queue /\ store[n] # NoObject

(***************************************************************************)
(* The patches a reconciliation sends.  Each names its object by name only *)
(* and carries no resource version or uid.                                 *)
(***************************************************************************)
CanAddFinalizer(n) == api[n] # NoObject /\ ~api[n].finalizer
AddFinalizer(n) == api' = [api EXCEPT ![n].finalizer = TRUE]

CanRemoveFinalizer(n) == api[n] # NoObject /\ api[n].finalizer
RemoveFinalizer(n) ==
    api' = [api EXCEPT ![n] = IF @.deleting
                              THEN NoObject
                              ELSE [@ EXCEPT !.finalizer = FALSE]]

CanPatchStatus(n) == api[n] # NoObject
WriteStatus(n, s) == api' = [api EXCEPT ![n].status = s]
=============================================================================
