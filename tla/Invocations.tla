----------------------------- MODULE Invocations -----------------------------
(***************************************************************************)
(* Invocations of actors and the calls actors make while they handle them: *)
(* handle_message, handle_call and handle_invocation of                    *)
(* crates/host/src/actor.rs, the Handler of crates/host/src/handler.rs,    *)
(* and the two tables its calls read-lock until they are answered: the     *)
(* links of the actor's group, which add_linkdef and delete_linkdef        *)
(* write, and the targets of the actor, which the actor itself writes.     *)
(*                                                                         *)
(* An actor makes one call at a time, so the invocations that one outside  *)
(* request causes form a chain, and an invocation is known by the request  *)
(* and its depth in the chain.  An actor may be removed from the host      *)
(* while it is at work, and does not come back.                            *)
(***************************************************************************)
EXTENDS Naturals

CONSTANTS
    Request,      \* requests from outside that are handled at the same time
    MaxDepth,     \* the longest chain of calls each may cause
    Actor,        \* public keys of actors
    Running,      \* the actors that have a group on this host at first
    Removable,    \* the actors that users may remove
    Contract,     \* contract ids: the package of an operation
    Caps,         \* the capability claims of each actor
    CanCall,      \* pairs of actors of which the first calls the second
    Wires,        \* the links users make and delete: pairs of actor and entity
    LinkName,     \* link names
    Default,      \* DEFAULT_LINK_NAME
    Provider,     \* public keys of providers
    NoContract,   \* the contract id of a call that comes from an actor
    NoTarget,     \* no target is set
    NoEntity,     \* a target that cannot be resolved, or nothing to resolve
    Chunks,       \* whether the calls a request causes may be sent in chunks, or not
    MaxOps,       \* operations an invocation of each actor performs
    MaxFailures   \* how many messages fail or are lost

ASSUME InvocationsAssumption ==
    /\ MaxDepth \in [Request -> Nat \ {0}]
    /\ Actor # {} /\ Contract # {} /\ Provider # {}
    /\ Running \subseteq Actor /\ Removable \subseteq Actor
    /\ MaxOps \in [Actor -> Nat] /\ MaxFailures \in Nat
    /\ Chunks \in [Request -> SUBSET BOOLEAN]
    /\ Caps \in [Actor -> SUBSET Contract]
    /\ CanCall \subseteq Actor \X Actor
    /\ Default \in LinkName
    /\ Wires \subseteq Running \X [contract : Contract, name : LinkName, provider : Provider]
    /\ NoContract \notin Contract

VARIABLES
    inv,        \* the invocations
    targets,    \* the target each actor has set, of the one interface modelled
    groups,     \* host.actors: the actors that have a group
    hostLinks,  \* host.links: the links there are of each actor
    links,      \* the links table of each actor's group, or of the one it had
    told,       \* the links the providers were told to put and not to delete
    linker,     \* the add_linkdef or delete_linkdef under way: ctx.links admits one
    failures

tables == <<hostLinks, links, told>>
vars == <<inv, targets, groups, tables, linker, failures>>

Inv == UNION {{r} \X (1..MaxDepth[r]) : r \in Request}

LinkTarget == [kind : {"link"}, name : LinkName]
ActorTarget == [kind : {"actor"}, key : Actor]
Target == LinkTarget \cup ActorTarget

\* A WasmCloudEntity: a link's provider, or an actor.
LinkEntity == [contract : Contract, name : LinkName, provider : Provider]
ActorEntity == [key : Actor]
Entity == LinkEntity \cup ActorEntity

\* An invocation: the contract it was sent under; of the call it makes, the
\* contract, the target asked for, what it resolved to and whether the request
\* is sent in chunks; the tables it has read-locked; the operations it has left.
Invocation == [pc      : {"free", "received", "running", "readTargets", "readLinks", "send",
                          "waiting", "lost", "setTarget"},
               actor   : Actor,
               origin  : Contract \cup {NoContract},
               package : Contract,
               want    : Target \cup {NoTarget},
               entity  : Entity \cup {NoEntity},
               chunked : BOOLEAN,
               holds   : SUBSET {"targets", "links"},
               ops     : UNION {0..MaxOps[a] : a \in Actor}]

Change == [pc    : {"idle", "wait", "publish"},
           add   : BOOLEAN,
           actor : Actor,
           link  : LinkEntity]

\* Types.  A request that the handler sends has an entity its target resolved to.
TypeOK ==
    /\ inv \in [Inv -> Invocation]
    /\ \A i \in Inv : inv[i].pc \in {"send", "waiting", "lost"} => inv[i].entity \in Entity
    /\ targets \in [Actor -> Target \cup {NoTarget}]
    /\ groups \in SUBSET Actor
    /\ hostLinks \in [Actor -> SUBSET LinkEntity]
    /\ links \in [Actor -> SUBSET LinkEntity]
    /\ told \in [Actor -> SUBSET LinkEntity]
    /\ linker \in Change
    /\ failures \in 0..MaxFailures

Nothing == [pc |-> "free", actor |-> CHOOSE a \in Actor : TRUE, origin |-> NoContract,
            package |-> CHOOSE c \in Contract : TRUE, want |-> NoTarget, entity |-> NoEntity,
            chunked |-> FALSE, holds |-> {}, ops |-> 0]

NoChange == [pc |-> "idle", add |-> FALSE, actor |-> CHOOSE a \in Actor : TRUE,
             link |-> CHOOSE e \in LinkEntity : TRUE]

\* The actors run, and no link has been made yet.
Init ==
    /\ inv = [i \in Inv |-> Nothing]
    /\ targets = [a \in Actor |-> NoTarget]
    /\ groups = Running
    /\ hostLinks = [a \in Actor |-> {}]
    /\ links = [a \in Actor |-> {}]
    /\ told = [a \in Actor |-> {}]
    /\ linker = NoChange
    /\ failures = 0

----------------------------------------------------------------------------
At(i, pc) == inv[i].pc = pc
Goto(i, pc) == inv' = [inv EXCEPT ![i].pc = pc]

Fail == failures < MaxFailures /\ failures' = failures + 1

\* What an invocation is when a message for actor a is taken from its queue.
Received(a, origin) == [Nothing EXCEPT !.pc = "received", !.actor = a, !.origin = origin,
                                       !.ops = MaxOps[a]]

\* A call is over, with an answer or with an error: both guards are dropped.
Over(v) == [v EXCEPT !.pc = "running", !.want = NoTarget, !.entity = NoEntity,
                     !.chunked = FALSE, !.holds = {}]

\* ensure_actor_capability
ensure_actor_capability(a, contract) == contract = NoContract \/ contract \in Caps[a]

(***************************************************************************)
(* handle_message: from outside (a provider, under its contract) ...       *)
(***************************************************************************)
Arrive(r, a, c) ==
    /\ At(<<r, 1>>, "free") /\ a \in groups
    /\ inv' = [inv EXCEPT ![<<r, 1>>] = Received(a, c)]
    /\ UNCHANGED <<targets, groups, tables, linker, failures>>

\* ... it is validated and an instance made for it.  When any of this fails, the
\* error is logged, and the caller gets no answer.
Accept(i) ==
    /\ At(i, "received")
    /\ \/ /\ ensure_actor_capability(inv[i].actor, inv[i].origin)
          /\ inv' = [inv EXCEPT ![i].pc = "running", ![i].origin = NoContract]
          /\ UNCHANGED failures
       \/ /\ ~ensure_actor_capability(inv[i].actor, inv[i].origin)
          /\ inv' = [inv EXCEPT ![i] = Nothing]
          /\ UNCHANGED failures
       \/ Fail /\ inv' = [inv EXCEPT ![i] = Nothing]
    /\ UNCHANGED <<targets, groups, tables, linker>>

\* The invocation that waits for i's answer.
Awaits(p, i) ==
    /\ p[1] = i[1] /\ i[2] = p[2] + 1
    /\ At(p, "waiting") /\ inv[p].entity \in ActorEntity

\* Mutant: the response goes to nobody.
ReplyToNobody(i) ==
    /\ At(i, "running")
    /\ inv' = [inv EXCEPT ![i] = Nothing]
    /\ UNCHANGED <<targets, groups, tables, linker, failures>>

\* The actor is done, and the response published, be it a result or an error.
Reply(i) ==
    /\ At(i, "running")
    /\ \/ /\ inv' = [p \in Inv |-> IF p = i THEN Nothing
                                   ELSE IF Awaits(p, i) THEN Over(inv[p])
                                   ELSE inv[p]]
          /\ UNCHANGED failures
       \/ Fail /\ inv' = [inv EXCEPT ![i] = Nothing]
    /\ UNCHANGED <<targets, groups, tables, linker>>

----------------------------------------------------------------------------
(***************************************************************************)
(* What an actor does through its Handler.                                 *)
(***************************************************************************)
May(a, t) == t \in ActorTarget => <<a, t.key>> \in CanCall

Begin(i, pc, c, want, chunked) ==
    /\ At(i, "running") /\ inv[i].ops > 0
    /\ inv' = [inv EXCEPT ![i] = [inv[i] EXCEPT !.pc = pc, !.package = c, !.want = want,
                                                !.chunked = chunked, !.ops = @ - 1]]
    /\ UNCHANGED <<targets, groups, tables, linker, failures>>

\* Bus::call and Bus::call_sync
Call(i, c, t, chunked) == May(inv[i].actor, t) /\ Begin(i, "readLinks", c, t, chunked)

\* Blobstore, KeyValueAtomic, KeyValueReadWrite and Messaging
UseInterface(i, c, chunked) == Begin(i, "readTargets", c, NoTarget, chunked)

\* Bus::set_target
AskTarget(i, c, t) ==
    /\ May(inv[i].actor, t)
    /\ Begin(i, "setTarget", c, t, FALSE)

Readers(a, table) == {i \in Inv : inv[i].actor = a /\ table \in inv[i].holds}

\* targets.write()
SetTarget(i) ==
    /\ At(i, "setTarget") /\ Readers(inv[i].actor, "targets") = {}
    /\ targets' = [targets EXCEPT ![inv[i].actor] = inv[i].want]
    /\ inv' = [inv EXCEPT ![i] = Over(@)]
    /\ UNCHANGED <<groups, tables, linker, failures>>

\* targets.read(): a writer in the queue goes first.
ReadTargets(i) ==
    LET a == inv[i].actor IN
    /\ At(i, "readTargets")
    /\ \A j \in Inv : ~(At(j, "setTarget") /\ inv[j].actor = a)
    /\ inv' = [inv EXCEPT ![i] = [inv[i] EXCEPT !.pc = "readLinks", !.want = targets[a],
                                                !.holds = @ \cup {"targets"}]]
    /\ UNCHANGED <<targets, groups, tables, linker, failures>>

LinkNameOf(t) == IF t = NoTarget THEN Default ELSE t.name

\* The entities a target may stand for: none, or one.
resolve_target(a, c, t) ==
    IF t \in ActorTarget
    THEN {[key |-> t.key]}
    ELSE {e \in links[a] : e.contract = c /\ e.name = LinkNameOf(t)}

MayCall(a, e) == ensure_actor_capability(a, IF e \in LinkEntity THEN e.contract ELSE NoContract)

Found(i) ==
    LET a == inv[i].actor
    IN {e \in resolve_target(a, inv[i].package, inv[i].want) : MayCall(a, e)}

Sends(i, e, held) ==
    inv' = [inv EXCEPT ![i] = [inv[i] EXCEPT !.pc = "send", !.entity = e, !.want = NoTarget,
                                             !.holds = @ \cup held]]

\* Mutant: the call is made although its target was not found.
ReadLinksUnresolved(i) ==
    /\ At(i, "readLinks")
    /\ ~(linker.pc = "wait" /\ linker.actor = inv[i].actor)
    /\ \/ Found(i) = {} /\ Sends(i, NoEntity, {"links"})
       \/ \E e \in Found(i) : Sends(i, e, {"links"})
    /\ UNCHANGED <<targets, groups, tables, linker, failures>>

\* Mutant: the guard is dropped once the target is resolved.
ReadLinksBriefly(i) ==
    /\ At(i, "readLinks")
    /\ ~(linker.pc = "wait" /\ linker.actor = inv[i].actor)
    /\ \/ Found(i) = {} /\ inv' = [inv EXCEPT ![i] = Over(@)]
       \/ \E e \in Found(i) : Sends(i, e, {})
    /\ UNCHANGED <<targets, groups, tables, linker, failures>>

\* Mutant: readers overtake a writer in the queue.
ReadLinksFirst(i) ==
    /\ At(i, "readLinks")
    /\ \/ Found(i) = {} /\ inv' = [inv EXCEPT ![i] = Over(@)]
       \/ \E e \in Found(i) : Sends(i, e, {"links"})
    /\ UNCHANGED <<targets, groups, tables, linker, failures>>

\* links.read(), again behind a writer; the guard is kept, or dropped with the error.
ReadLinks(i) ==
    /\ At(i, "readLinks")
    /\ ~(linker.pc = "wait" /\ linker.actor = inv[i].actor)
    /\ \/ Found(i) = {} /\ inv' = [inv EXCEPT ![i] = Over(@)]
       \/ \E e \in Found(i) : Sends(i, e, {"links"})
    /\ UNCHANGED <<targets, groups, tables, linker, failures>>

Callee(i) == <<i[1], i[2] + 1>>

(***************************************************************************)
(* send_request: to a provider; to an actor, one of whose instances takes  *)
(* it; or to nobody, which NATS answers at once.  Chunking it, publishing  *)
(* it, or finding a responder may fail.                                    *)
(***************************************************************************)
Send(i) ==
    /\ At(i, "send")
    /\ \/ inv[i].entity \in LinkEntity /\ Goto(i, "waiting") /\ UNCHANGED failures
       \/ /\ inv[i].entity \in ActorEntity
          /\ inv[i].entity.key \in groups
          /\ Callee(i) \in Inv /\ At(Callee(i), "free")
          /\ inv' = [inv EXCEPT ![i].pc = "waiting",
                                ![Callee(i)] = Received(inv[i].entity.key, NoContract)]
          /\ UNCHANGED failures
       \/ /\ inv[i].entity \in ActorEntity
          /\ inv[i].entity.key \notin groups \/ Callee(i) \notin Inv
          /\ inv' = [inv EXCEPT ![i] = Over(@)]
          /\ UNCHANGED failures
       \/ Fail /\ inv' = [inv EXCEPT ![i] = Over(@)]
    /\ UNCHANGED <<targets, groups, tables, linker>>

\* The provider answers, or never does.
Answer(i) ==
    /\ At(i, "waiting") /\ inv[i].entity \in LinkEntity
    /\ \/ inv' = [inv EXCEPT ![i] = Over(@)] /\ UNCHANGED failures
       \/ Fail /\ Goto(i, "lost")
    /\ UNCHANGED <<targets, groups, tables, linker>>

\* Only a chunked request has a timeout.
Timeout(i) ==
    /\ inv[i].pc \in {"waiting", "lost"}
    /\ inv[i].chunked
    /\ inv' = [inv EXCEPT ![i] = Over(@)]
    /\ UNCHANGED <<targets, groups, tables, linker, failures>>

----------------------------------------------------------------------------
(***************************************************************************)
(* add_linkdef and delete_linkdef: they change host.links and look for the *)
(* actor's group in host.actors, which stays read-locked while they wait   *)
(* for the group's links.  Nothing here reads host.links in between.       *)
(***************************************************************************)
Changed(table, add, a, e) == [table EXCEPT ![a] = IF add THEN @ \cup {e} ELSE @ \ {e}]

StartChange(a, e) ==
    LET add == e \notin hostLinks[a] IN
    /\ linker.pc = "idle"
    /\ hostLinks' = Changed(hostLinks, add, a, e)
    /\ linker' = [pc |-> IF a \in groups THEN "wait" ELSE "publish",
                  add |-> add, actor |-> a, link |-> e]
    /\ UNCHANGED <<inv, targets, groups, links, told, failures>>

\* Mutant: the table is changed under the calls that read it.
ChangeGroupAtOnce ==
    /\ linker.pc = "wait"
    /\ links' = Changed(links, linker.add, linker.actor, linker.link)
    /\ linker' = [linker EXCEPT !.pc = "publish"]
    /\ UNCHANGED <<inv, targets, groups, hostLinks, told, failures>>

\* group.links.write()
ChangeGroup ==
    /\ linker.pc = "wait" /\ Readers(linker.actor, "links") = {}
    /\ links' = Changed(links, linker.add, linker.actor, linker.link)
    /\ linker' = [linker EXCEPT !.pc = "publish"]
    /\ UNCHANGED <<inv, targets, groups, hostLinks, told, failures>>

Publish ==
    /\ linker.pc = "publish"
    /\ \/ told' = Changed(told, linker.add, linker.actor, linker.link) /\ UNCHANGED failures
       \/ Fail /\ UNCHANGED told
    /\ linker' = NoChange
    /\ UNCHANGED <<inv, targets, groups, hostLinks, links>>

(***************************************************************************)
(* remove_actor of the last Actor of a public key: once it has host.actors *)
(* for writing it aborts the call loops and drops the group.  Invocations  *)
(* under way go on, with the tables they have; a message no loop has taken *)
(* yet is never answered.                                                  *)
(***************************************************************************)
RemoveActor(a) ==
    /\ a \in groups /\ linker.pc # "wait"
    /\ groups' = groups \ {a}
    /\ \/ UNCHANGED <<inv, failures>>
       \/ /\ Fail
          /\ inv' = [i \in Inv |-> IF At(i, "received") /\ inv[i].actor = a THEN Nothing
                                   ELSE inv[i]]
    /\ UNCHANGED <<targets, tables, linker>>

----------------------------------------------------------------------------
\* What the actor's code may do before it ends.
Operate(i) ==
    \/ \E c \in Contract, chunked \in Chunks[i[1]] :
          UseInterface(i, c, chunked) \/ \E t \in Target : Call(i, c, t, chunked)
    \/ \E c \in Contract, t \in Target \cup {NoTarget} : AskTarget(i, c, t)

Step(i) == Accept(i) \/ Reply(i) \/ SetTarget(i) \/ Send(i) \/ Answer(i) \/ Timeout(i)

Lock(i) == ReadTargets(i) \/ ReadLinks(i)

Linker == ChangeGroup \/ Publish

Next ==
    \/ \E r \in Request, a \in Actor, c \in Contract : Arrive(r, a, c)
    \/ \E i \in Inv : Operate(i) \/ Step(i) \/ Lock(i)
    \/ \E w \in Wires : StartChange(w[1], w[2])
    \/ Linker
    \/ \E a \in Removable : RemoveActor(a)

Spec == Init /\ [][Next]_vars

(***************************************************************************)
(* Tasks are polled; actors' code ends; a provider that got a request      *)
(* answers it unless that fails; tokio's locks serve readers that wait,    *)
(* although writers come and go.                                           *)
(***************************************************************************)
Fairness ==
    /\ \A i \in Inv : WF_vars(Step(i)) /\ SF_vars(Lock(i))
    /\ WF_vars(Linker)

FairSpec == Spec /\ Fairness

----------------------------------------------------------------------------
(***************************************************************************)
(* Properties.                                                             *)
(***************************************************************************)

\* A call of actor a over link e is on its way.
CallOut(a, e) == \E i \in Inv : inv[i].pc \in {"send", "waiting", "lost"} /\ inv[i].actor = a
                                /\ inv[i].entity = e

(***************************************************************************)
(* A call that is on its way is over a link its actor still has, as long   *)
(* as the actor has a group: call_operation_with_payload keeps links       *)
(* read-locked until the answer is there.                                  *)
(***************************************************************************)
CallsKeepTheirLink ==
    \A a \in groups, e \in LinkEntity : CallOut(a, e) => e \in links[a]

(***************************************************************************)
(* A provider is never told to drop a link while a call over it is on its  *)
(* way, as long as the actor that makes it has a group: delete_linkdef     *)
(* publishes only after it has had the group's links.                      *)
(***************************************************************************)
NoDropUnderCall ==
    [][\A a \in groups, e \in LinkEntity :
          e \in told[a] /\ e \notin told'[a] => ~CallOut(a, e)]_vars

(***************************************************************************)
(* Where no chain of calls comes back to an actor that is in it, and every *)
(* message is answered, every invocation ends: no call waits for a table   *)
(* for ever, although every call keeps the tables locked until the answer. *)
(***************************************************************************)
InvocationsEnd ==
    [](failures = 0) => \A i \in Inv : ~At(i, "free") ~> At(i, "free")

(***************************************************************************)
(* Then a change of links gets through, too, although it waits for every   *)
(* call of its actor that is under way, and gives host.actors back, which  *)
(* it keeps read-locked until then, to those who start and remove actors.  *)
(***************************************************************************)
LinkChangesEnd == [](failures = 0) => (linker.pc # "idle" ~> linker.pc = "idle")

(***************************************************************************)
(* "Timeout period for all RPC calls": every request that was sent is over *)
(* some time, with an answer or without.                                   *)
(***************************************************************************)
CallsReturn == \A i \in Inv : At(i, "waiting") ~> ~At(i, "waiting")
=============================================================================
