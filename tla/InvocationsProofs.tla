-------------------------- MODULE InvocationsProofs --------------------------
(***************************************************************************)
(* Theorems about Invocations, for any number of requests, actors, links   *)
(* and failures, and for chains of calls of any length.                    *)
(***************************************************************************)
EXTENDS Invocations, TLAPS

----------------------------------------------------------------------------
(***************************************************************************)
(* Typing.                                                                 *)
(***************************************************************************)

\* The values a free invocation and an idle linker are filled up with exist.
LEMMA Fillers ==
    /\ Nothing \in Invocation
    /\ NoChange \in Change
<1>1. (CHOOSE a \in Actor : TRUE) \in Actor
  BY InvocationsAssumption
<1>2. (CHOOSE c \in Contract : TRUE) \in Contract
  BY InvocationsAssumption
<1>3. LinkEntity # {}
  <2>1. PICK c \in Contract, n \in LinkName, p \in Provider : TRUE
    BY InvocationsAssumption
  <2>2. [contract |-> c, name |-> n, provider |-> p] \in LinkEntity
    BY <2>1 DEF LinkEntity
  <2> QED
    BY <2>2
<1>4. (CHOOSE e \in LinkEntity : TRUE) \in LinkEntity
  BY <1>3
<1>5. 0 \in UNION {0..MaxOps[a] : a \in Actor}
  <2>1. PICK a \in Actor : TRUE
    BY InvocationsAssumption
  <2>2. 0 \in 0..MaxOps[a]
    BY InvocationsAssumption
  <2> QED
    BY <2>2
<1>6. Nothing \in Invocation
  BY <1>1, <1>2, <1>5 DEF Nothing, Invocation
<1>7. NoChange \in Change
  BY <1>1, <1>4 DEF NoChange, Change
<1> QED
  BY <1>6, <1>7

\* An invocation just received is well-typed.
LEMMA ReceivedType ==
    ASSUME NEW a \in Actor, NEW origin \in Contract \cup {NoContract}
    PROVE  Received(a, origin) \in Invocation /\ Received(a, origin).pc = "received"
<1>1. MaxOps[a] \in UNION {0..MaxOps[b] : b \in Actor}
  BY InvocationsAssumption
<1> QED
  BY <1>1, Fillers DEF Received, Invocation, Nothing

\* One whose call is over is well-typed, and has nothing under way.
LEMMA OverType ==
    ASSUME NEW v \in Invocation
    PROVE  Over(v) \in Invocation /\ Over(v).pc = "running"
BY DEF Over, Invocation

----------------------------------------------------------------------------
(***************************************************************************)
(* The inductive invariant.  CallsKeepTheirLink alone is not inductive: a  *)
(* link could be deleted under a call that has let its guard go.  So every *)
(* call on its way still has the links of its actor read-locked, its       *)
(* entity, when it is a link, is among them, and a delete_linkdef that is  *)
(* about to publish has taken its link out of the group's table, if there  *)
(* is a group.                                                             *)
(***************************************************************************)
Out == {"send", "waiting", "lost"}

SoundCall(v) ==
    v.pc \in Out => /\ v.entity \in Entity
                    /\ "links" \in v.holds
                    /\ v.entity \in LinkEntity => v.entity \in links[v.actor]

SoundCalls == inv \in [Inv -> Invocation] /\ \A i \in Inv : SoundCall(inv[i])

DropPending ==
    linker.pc = "publish" /\ ~linker.add /\ linker.actor \in groups =>
        linker.link \notin links[linker.actor]

TablesType ==
    /\ targets \in [Actor -> Target \cup {NoTarget}]
    /\ groups \in SUBSET Actor
    /\ hostLinks \in [Actor -> SUBSET LinkEntity]
    /\ links \in [Actor -> SUBSET LinkEntity]
    /\ told \in [Actor -> SUBSET LinkEntity]
    /\ linker \in Change
    /\ failures \in 0..MaxFailures

CallInv == SoundCalls /\ TablesType /\ DropPending

\* The invariant implies the properties.
LEMMA CallInvImplies ==
    ASSUME CallInv
    PROVE  TypeOK /\ CallsKeepTheirLink
<1>1. TypeOK
  BY DEF CallInv, SoundCalls, SoundCall, TablesType, TypeOK, Out
<1>2. CallsKeepTheirLink
  BY DEF CallInv, SoundCalls, SoundCall, CallsKeepTheirLink, CallOut, Out
<1> QED
  BY <1>1, <1>2

\* One invocation becomes another sound one, and its actor's links stay.
LEMMA OneSound ==
    ASSUME SoundCalls, NEW i \in Inv, NEW v \in Invocation, SoundCall(v),
           inv' = [inv EXCEPT ![i] = v], links' = links
    PROVE  SoundCalls'
<1>1. inv' \in [Inv -> Invocation]
  BY DEF SoundCalls
<1>2. ASSUME NEW j \in Inv PROVE SoundCall(inv[j])'
  <2>1. inv'[j] = IF j = i THEN v ELSE inv[j]
    BY DEF SoundCalls
  <2> QED
    BY <2>1 DEF SoundCalls, SoundCall
<1> QED
  BY <1>1, <1>2 DEF SoundCalls

\* An invocation that has no request out is sound.
LEMMA InsideSound ==
    ASSUME NEW v, v.pc \notin Out
    PROVE  SoundCall(v)
BY DEF SoundCall

\* Steps of the handler change nothing but invocations, targets and failures.
LEMMA HandlerFrame ==
    ASSUME CallInv, SoundCalls', UNCHANGED <<groups, tables, linker>>,
           targets' \in [Actor -> Target \cup {NoTarget}], failures' \in 0..MaxFailures
    PROVE  CallInv'
BY DEF CallInv, TablesType, DropPending, tables

\* The bound on failures is kept.
LEMMA FailType ==
    ASSUME failures \in 0..MaxFailures, Fail
    PROVE  failures' \in 0..MaxFailures
BY InvocationsAssumption DEF Fail

\* Whatever an actor begins, it has no request out yet.
LEMMA BeginSound ==
    ASSUME CallInv, NEW i \in Inv, NEW pc \in {"readLinks", "readTargets", "setTarget"},
           NEW c \in Contract, NEW want \in Target \cup {NoTarget}, NEW chunked \in BOOLEAN,
           Begin(i, pc, c, want, chunked)
    PROVE  CallInv'
<1> DEFINE v == [inv[i] EXCEPT !.pc = pc, !.package = c, !.want = want,
                               !.chunked = chunked, !.ops = @ - 1]
<1>1. inv[i] \in Invocation
  BY DEF CallInv, SoundCalls
<1>2. inv[i].ops - 1 \in UNION {0..MaxOps[a] : a \in Actor}
  <2>1. PICK a \in Actor : inv[i].ops \in 0..MaxOps[a]
    BY <1>1 DEF Invocation
  <2>2. inv[i].ops - 1 \in 0..MaxOps[a]
    BY <2>1, InvocationsAssumption DEF Begin
  <2> QED
    BY <2>2
<1>3. v \in Invocation /\ v.pc = pc
  BY <1>1, <1>2 DEF Invocation
<1>4. SoundCall(v)
  BY <1>3, InsideSound DEF Out
<1>5. inv' = [inv EXCEPT ![i] = v]
  BY DEF Begin
<1>6. SoundCalls'
  BY <1>3, <1>4, <1>5, OneSound DEF CallInv, Begin, tables
<1> QED
  BY <1>6, HandlerFrame DEF Begin, CallInv, TablesType

\* An invocation that ends, or whose call is over, has no request out.
LEMMA EndSound ==
    ASSUME CallInv, NEW i \in Inv, links' = links,
           \/ inv' = [inv EXCEPT ![i] = Nothing]
           \/ inv' = [inv EXCEPT ![i] = Over(inv[i])]
    PROVE  SoundCalls'
<1>1. Nothing \in Invocation /\ SoundCall(Nothing)
  BY Fillers, InsideSound DEF Nothing, Out
<1>2. Over(inv[i]) \in Invocation /\ SoundCall(Over(inv[i]))
  BY OverType, InsideSound DEF CallInv, SoundCalls, Out
<1> QED
  BY <1>1, <1>2, OneSound DEF CallInv

\* An invocation of which only the place in the code changes.
LEMMA GotoSound ==
    ASSUME CallInv, NEW i \in Inv, links' = links,
           inv[i].pc \in Out, NEW pc \in {"waiting", "lost"}, Goto(i, pc)
    PROVE  SoundCalls'
<1> DEFINE v == [inv[i] EXCEPT !.pc = pc]
<1>1. inv[i] \in Invocation /\ SoundCall(inv[i])
  BY DEF CallInv, SoundCalls
<1>2. /\ v \in Invocation
      /\ v.entity = inv[i].entity /\ v.holds = inv[i].holds /\ v.actor = inv[i].actor
  BY <1>1 DEF Invocation
<1>3. SoundCall(v)
  BY <1>1, <1>2 DEF SoundCall
<1>4. inv' = [inv EXCEPT ![i] = v]
  BY DEF Goto
<1> QED
  BY <1>2, <1>3, <1>4, OneSound DEF CallInv

\* What an actor does through its handler.
LEMMA OperateSound ==
    ASSUME CallInv, NEW i \in Inv, Operate(i)
    PROVE  CallInv'
<1>0. Chunks[i[1]] \subseteq BOOLEAN
  <2>1. i[1] \in Request
    BY DEF Inv
  <2> QED
    BY <2>1, InvocationsAssumption
<1>1. CASE \E c \in Contract, chunked \in BOOLEAN : UseInterface(i, c, chunked)
  BY <1>1, BeginSound DEF UseInterface
<1>2. CASE \E c \in Contract, chunked \in BOOLEAN, t \in Target : Call(i, c, t, chunked)
  BY <1>2, BeginSound DEF Call
<1>3. CASE \E c \in Contract, t \in Target \cup {NoTarget} : AskTarget(i, c, t)
  BY <1>3, BeginSound DEF AskTarget
<1> QED
  BY <1>0, <1>1, <1>2, <1>3 DEF Operate

\* Receiving an invocation.
LEMMA ArriveSound ==
    ASSUME CallInv, NEW r \in Request, NEW a \in Actor, NEW c \in Contract, Arrive(r, a, c)
    PROVE  CallInv'
<1>1. <<r, 1>> \in Inv
  <2>1. 1 \in 1..MaxDepth[r]
    BY InvocationsAssumption
  <2> QED
    BY <2>1 DEF Inv
<1>2. Received(a, c) \in Invocation /\ SoundCall(Received(a, c))
  BY ReceivedType, InsideSound DEF Out
<1>3. SoundCalls'
  BY <1>1, <1>2, OneSound DEF Arrive, CallInv, tables
<1> QED
  BY <1>3, HandlerFrame DEF Arrive, CallInv, TablesType

\* Validating an invocation.
LEMMA AcceptSound ==
    ASSUME CallInv, NEW i \in Inv, Accept(i)
    PROVE  CallInv'
<1> DEFINE v == [inv[i] EXCEPT !.pc = "running", !.origin = NoContract]
<1>1. links' = links
  BY DEF Accept, tables
<1>2. failures' \in 0..MaxFailures
  BY FailType DEF Accept, CallInv, TablesType
<1>3. v \in Invocation /\ v.pc = "running"
  BY DEF CallInv, SoundCalls, Invocation
<1>4. SoundCall(v)
  BY <1>3, InsideSound DEF Out
<1>5. \/ inv' = [inv EXCEPT ![i] = v]
      \/ inv' = [inv EXCEPT ![i] = Nothing]
  BY DEF Accept
<1>6. SoundCalls'
  BY <1>1, <1>3, <1>4, <1>5, OneSound, EndSound DEF CallInv
<1> QED
  BY <1>2, <1>6, HandlerFrame DEF Accept, CallInv, TablesType

\* Answering an invocation: the invocation ends, and the call that waits is over.
LEMMA ReplySound ==
    ASSUME CallInv, NEW i \in Inv, Reply(i)
    PROVE  CallInv'
<1>1. links' = links
  BY DEF Reply, tables
<1>2. failures' \in 0..MaxFailures
  BY FailType DEF Reply, CallInv, TablesType
<1>3. ASSUME inv' = [p \in Inv |-> IF p = i THEN Nothing
                                   ELSE IF Awaits(p, i) THEN Over(inv[p])
                                   ELSE inv[p]]
      PROVE  SoundCalls'
  <2>1. ASSUME NEW p \in Inv
        PROVE  inv'[p] \in Invocation /\ SoundCall(inv'[p])
    <3>1. Nothing \in Invocation /\ SoundCall(Nothing)
      BY Fillers, InsideSound DEF Nothing, Out
    <3>2. Over(inv[p]) \in Invocation /\ SoundCall(Over(inv[p]))
      BY OverType, InsideSound DEF CallInv, SoundCalls, Out
    <3> QED
      BY <1>3, <3>1, <3>2 DEF CallInv, SoundCalls
  <2>2. \A p \in Inv : SoundCall(inv[p])'
    BY <1>1, <2>1 DEF SoundCall
  <2> QED
    BY <1>3, <2>1, <2>2 DEF SoundCalls
<1>4. ASSUME inv' = [inv EXCEPT ![i] = Nothing]
      PROVE  SoundCalls'
  BY <1>1, <1>4, EndSound
<1>5. SoundCalls'
  BY <1>3, <1>4 DEF Reply
<1> QED
  BY <1>2, <1>5, HandlerFrame DEF Reply, CallInv, TablesType

\* set_target waits for the readers of targets, and changes no link.
LEMMA SetTargetSound ==
    ASSUME CallInv, NEW i \in Inv, SetTarget(i)
    PROVE  CallInv'
<1>1. SoundCalls'
  BY EndSound DEF SetTarget, tables
<1>2. inv[i].actor \in Actor /\ inv[i].want \in Target \cup {NoTarget}
  BY DEF CallInv, SoundCalls, Invocation
<1>3. targets' \in [Actor -> Target \cup {NoTarget}]
  BY <1>2 DEF SetTarget, CallInv, TablesType
<1> QED
  BY <1>1, <1>3, HandlerFrame DEF SetTarget, CallInv, TablesType

\* A call that waits for the links has no request out yet.
LEMMA ReadTargetsSound ==
    ASSUME CallInv, NEW i \in Inv, ReadTargets(i)
    PROVE  CallInv'
<1> DEFINE v == [inv[i] EXCEPT !.pc = "readLinks", !.want = targets[inv[i].actor],
                               !.holds = @ \cup {"targets"}]
<1>1. inv[i] \in Invocation
  BY DEF CallInv, SoundCalls
<1>2. inv[i].holds \cup {"targets"} \in SUBSET {"targets", "links"}
  BY <1>1 DEF Invocation
<1>3. targets[inv[i].actor] \in Target \cup {NoTarget}
  BY <1>1 DEF Invocation, CallInv, TablesType
<1>4. v \in Invocation /\ v.pc = "readLinks"
  BY <1>1, <1>2, <1>3 DEF Invocation
<1>5. SoundCall(v)
  BY <1>4, InsideSound DEF Out
<1>6. SoundCalls'
  BY <1>4, <1>5, OneSound DEF ReadTargets, CallInv, tables
<1> QED
  BY <1>6, HandlerFrame DEF ReadTargets, CallInv, TablesType

\* A target resolves to an actor, or to a link the actor has.
LEMMA ResolvedSound ==
    ASSUME CallInv, NEW i \in Inv, NEW e \in Found(i)
    PROVE  /\ e \in Entity
           /\ e \in LinkEntity => e \in links[inv[i].actor]
<1>1. inv[i] \in Invocation
  BY DEF CallInv, SoundCalls
<1>2. e \in resolve_target(inv[i].actor, inv[i].package, inv[i].want)
  BY DEF Found
<1>3. CASE inv[i].want \in ActorTarget
  <2>1. e = [key |-> inv[i].want.key] /\ inv[i].want.key \in Actor
    BY <1>2, <1>3 DEF resolve_target, ActorTarget
  <2>2. e \in ActorEntity
    BY <2>1 DEF ActorEntity
  <2>3. e \notin LinkEntity
    BY <2>1 DEF LinkEntity
  <2> QED
    BY <2>2, <2>3 DEF Entity
<1>4. CASE inv[i].want \notin ActorTarget
  <2>1. e \in links[inv[i].actor]
    BY <1>2, <1>4 DEF resolve_target
  <2>2. links[inv[i].actor] \subseteq LinkEntity
    BY <1>1 DEF Invocation, CallInv, TablesType
  <2> QED
    BY <2>1, <2>2 DEF Entity
<1> QED
  BY <1>3, <1>4

\* The request goes out with the links locked, to an entity found in them.
LEMMA ReadLinksSound ==
    ASSUME CallInv, NEW i \in Inv, ReadLinks(i)
    PROVE  CallInv'
<1>1. links' = links
  BY DEF ReadLinks, tables
<1>2. ASSUME NEW e \in Found(i), Sends(i, e, {"links"})
      PROVE  SoundCalls'
  <2> DEFINE v == [inv[i] EXCEPT !.pc = "send", !.entity = e, !.want = NoTarget,
                                 !.holds = @ \cup {"links"}]
  <2>1. inv[i] \in Invocation
    BY DEF CallInv, SoundCalls
  <2>2. inv[i].holds \cup {"links"} \in SUBSET {"targets", "links"}
    BY <2>1 DEF Invocation
  <2>3. e \in Entity /\ (e \in LinkEntity => e \in links[inv[i].actor])
    BY ResolvedSound
  <2>4. /\ v \in Invocation
        /\ v.entity = e /\ "links" \in v.holds /\ v.actor = inv[i].actor
    BY <2>1, <2>2, <2>3 DEF Invocation
  <2>5. SoundCall(v)
    BY <2>3, <2>4 DEF SoundCall
  <2>6. inv' = [inv EXCEPT ![i] = v]
    BY <1>2 DEF Sends
  <2> QED
    BY <1>1, <2>4, <2>5, <2>6, OneSound DEF CallInv
<1>3. SoundCalls'
  BY <1>1, <1>2, EndSound DEF ReadLinks
<1> QED
  BY <1>3, HandlerFrame DEF ReadLinks, CallInv, TablesType

\* Sending a request: to a provider, to an actor of this host, or to nobody.
LEMMA SendSound ==
    ASSUME CallInv, NEW i \in Inv, Send(i)
    PROVE  CallInv'
<1>1. links' = links
  BY DEF Send, tables
<1>2. failures' \in 0..MaxFailures
  BY FailType DEF Send, CallInv, TablesType
<1>3. ASSUME Goto(i, "waiting")
      PROVE  SoundCalls'
  BY <1>1, <1>3, GotoSound DEF Send, At, Out
<1>4. ASSUME inv[i].entity \in ActorEntity, Callee(i) \in Inv,
             inv' = [inv EXCEPT ![i].pc = "waiting",
                                ![Callee(i)] = Received(inv[i].entity.key, NoContract)]
      PROVE  SoundCalls'
  <2> DEFINE v == [inv[i] EXCEPT !.pc = "waiting"]
             w == Received(inv[i].entity.key, NoContract)
  <2>1. inv[i] \in Invocation /\ SoundCall(inv[i]) /\ inv[i].pc \in Out
    BY DEF CallInv, SoundCalls, Send, At, Out
  <2>2. /\ v \in Invocation
        /\ v.entity = inv[i].entity /\ v.holds = inv[i].holds /\ v.actor = inv[i].actor
    BY <2>1 DEF Invocation
  <2>3. SoundCall(v)
    BY <2>1, <2>2 DEF SoundCall
  <2>4. w \in Invocation /\ SoundCall(w)
    BY <1>4, ReceivedType, InsideSound DEF ActorEntity, Out
  <2>5. inv' = [[inv EXCEPT ![i] = v] EXCEPT ![Callee(i)] = w]
    BY <1>4 DEF CallInv, SoundCalls
  <2>6. inv' \in [Inv -> Invocation]
    BY <2>2, <2>4, <2>5 DEF CallInv, SoundCalls
  <2>7. ASSUME NEW j \in Inv PROVE SoundCall(inv[j])'
    <3>1. inv'[j] = IF j = Callee(i) THEN w ELSE IF j = i THEN v ELSE inv[j]
      BY <2>5 DEF CallInv, SoundCalls
    <3> QED
      BY <1>1, <2>3, <2>4, <3>1 DEF CallInv, SoundCalls, SoundCall
  <2> QED
    BY <2>6, <2>7 DEF SoundCalls
<1>5. ASSUME inv' = [inv EXCEPT ![i] = Over(inv[i])]
      PROVE  SoundCalls'
  BY <1>1, <1>5, EndSound
<1>6. SoundCalls'
  BY <1>3, <1>4, <1>5 DEF Send
<1> QED
  BY <1>2, <1>6, HandlerFrame DEF Send, CallInv, TablesType

\* The answer of a provider, or its loss.
LEMMA AnswerSound ==
    ASSUME CallInv, NEW i \in Inv, Answer(i)
    PROVE  CallInv'
<1>1. links' = links
  BY DEF Answer, tables
<1>2. failures' \in 0..MaxFailures
  BY FailType DEF Answer, CallInv, TablesType
<1>3. inv[i].pc \in Out
  BY DEF Answer, At, Out
<1>4. \/ inv' = [inv EXCEPT ![i] = Over(inv[i])]
      \/ Goto(i, "lost")
  BY DEF Answer
<1>5. SoundCalls'
  BY <1>1, <1>3, <1>4, EndSound, GotoSound
<1> QED
  BY <1>2, <1>5, HandlerFrame DEF Answer, CallInv, TablesType

\* The timeout of a request sent in chunks.
LEMMA TimeoutSound ==
    ASSUME CallInv, NEW i \in Inv, Timeout(i)
    PROVE  CallInv'
<1>1. SoundCalls'
  BY EndSound DEF Timeout, tables
<1> QED
  BY <1>1, HandlerFrame DEF Timeout, CallInv, TablesType

\* host.links, a group's table and what the providers were told stay tables of links.
LEMMA ChangedType ==
    ASSUME NEW table \in [Actor -> SUBSET LinkEntity], NEW add \in BOOLEAN,
           NEW a \in Actor, NEW e \in LinkEntity
    PROVE  Changed(table, add, a, e) \in [Actor -> SUBSET LinkEntity]
BY DEF Changed

\* An add_linkdef or delete_linkdef begins; it has a group to wait for, or none.
LEMMA StartChangeSound ==
    ASSUME CallInv, NEW w \in Wires, StartChange(w[1], w[2])
    PROVE  CallInv'
<1> DEFINE add == w[2] \notin hostLinks[w[1]]
<1>1. w[1] \in Actor /\ w[2] \in LinkEntity
  BY InvocationsAssumption DEF LinkEntity
<1>2. /\ linker' \in Change /\ linker'.actor = w[1]
      /\ linker'.pc = "publish" => w[1] \notin groups
  BY <1>1 DEF StartChange, Change
<1>3. hostLinks' \in [Actor -> SUBSET LinkEntity]
  <2>1. hostLinks' = Changed(hostLinks, add, w[1], w[2])
    BY DEF StartChange
  <2> QED
    BY <1>1, <2>1, ChangedType DEF CallInv, TablesType
<1>4. SoundCalls'
  BY DEF StartChange, CallInv, SoundCalls, SoundCall
<1>5. DropPending'
  BY <1>2 DEF StartChange, DropPending
<1> QED
  BY <1>2, <1>3, <1>4, <1>5 DEF StartChange, CallInv, TablesType

(***************************************************************************)
(* group.links.write() is had when no call of the actor has it for         *)
(* reading: no request of the actor is out, and the others have the links  *)
(* they had.                                                               *)
(***************************************************************************)
LEMMA ChangeGroupSound ==
    ASSUME CallInv, ChangeGroup
    PROVE  CallInv'
<1>1. linker \in Change
  BY DEF CallInv, TablesType
<1>2. linker.actor \in Actor /\ linker.link \in LinkEntity
  BY <1>1 DEF Change
<1>3. links' \in [Actor -> SUBSET LinkEntity]
  BY <1>1, <1>2, ChangedType DEF ChangeGroup, Change, CallInv, TablesType
<1>4. linker' \in Change /\ linker'.actor = linker.actor /\ linker'.link = linker.link
      /\ linker'.add = linker.add
  BY <1>1 DEF ChangeGroup, Change
<1>5. ASSUME NEW i \in Inv PROVE SoundCall(inv[i])'
  <2>1. inv'[i] = inv[i] /\ SoundCall(inv[i]) /\ inv[i].actor \in Actor
    BY DEF ChangeGroup, CallInv, SoundCalls, Invocation
  <2>2. CASE inv[i].pc \notin Out
    BY <2>1, <2>2 DEF SoundCall
  <2>3. CASE inv[i].pc \in Out
    <3>1. "links" \in inv[i].holds
      BY <2>1, <2>3 DEF SoundCall
    <3>2. inv[i].actor # linker.actor
      BY <3>1 DEF ChangeGroup, Readers
    <3>3. links'[inv[i].actor] = links[inv[i].actor]
      BY <2>1, <3>2 DEF ChangeGroup, Changed, CallInv, TablesType
    <3> QED
      BY <2>1, <3>3 DEF SoundCall
  <2> QED
    BY <2>2, <2>3
<1>6. SoundCalls'
  BY <1>5 DEF SoundCalls, CallInv, ChangeGroup
<1>7. DropPending'
  BY <1>2, <1>4 DEF DropPending, ChangeGroup, Changed, CallInv, TablesType
<1> QED
  BY <1>3, <1>4, <1>6, <1>7 DEF CallInv, TablesType, ChangeGroup

\* The provider is told of the change.
LEMMA PublishSound ==
    ASSUME CallInv, Publish
    PROVE  CallInv'
<1>1. linker.actor \in Actor /\ linker.link \in LinkEntity
  BY DEF CallInv, TablesType, Change
<1>2. told' \in [Actor -> SUBSET LinkEntity]
  BY <1>1, ChangedType DEF Publish, Change, CallInv, TablesType
<1>3. failures' \in 0..MaxFailures
  BY FailType DEF Publish, CallInv, TablesType
<1>4. linker' \in Change /\ linker'.pc = "idle"
  BY Fillers DEF Publish, NoChange
<1>5. SoundCalls'
  BY DEF Publish, CallInv, SoundCalls, SoundCall
<1> QED
  BY <1>2, <1>3, <1>4, <1>5 DEF Publish, CallInv, TablesType, DropPending

\* An actor's group is dropped, and the messages its loops had not taken are lost.
LEMMA RemoveActorSound ==
    ASSUME CallInv, NEW a \in Actor, RemoveActor(a)
    PROVE  CallInv'
<1>1. links' = links
  BY DEF RemoveActor, tables
<1>2. failures' \in 0..MaxFailures
  BY FailType DEF RemoveActor, CallInv, TablesType
<1>3. ASSUME inv' = [i \in Inv |-> IF At(i, "received") /\ inv[i].actor = a THEN Nothing
                                   ELSE inv[i]]
      PROVE  SoundCalls'
  <2>1. Nothing \in Invocation /\ SoundCall(Nothing)
    BY Fillers, InsideSound DEF Nothing, Out
  <2>2. ASSUME NEW i \in Inv
        PROVE  inv'[i] \in Invocation /\ SoundCall(inv'[i])
    BY <1>3, <2>1 DEF CallInv, SoundCalls
  <2>3. \A i \in Inv : SoundCall(inv[i])'
    BY <1>1, <2>2 DEF SoundCall
  <2> QED
    BY <1>3, <2>2, <2>3 DEF SoundCalls
<1>4. ASSUME inv' = inv
      PROVE  SoundCalls'
  BY <1>1, <1>4 DEF CallInv, SoundCalls, SoundCall
<1>5. SoundCalls'
  BY <1>3, <1>4 DEF RemoveActor
<1>6. DropPending'
  BY DEF RemoveActor, tables, CallInv, DropPending
<1> QED
  BY <1>2, <1>5, <1>6 DEF RemoveActor, tables, CallInv, TablesType

----------------------------------------------------------------------------
(***************************************************************************)
(* The theorems.                                                           *)
(***************************************************************************)

\* No invocation and no change of links is under way at first.
LEMMA InitSound == Init => CallInv
<1> SUFFICES ASSUME Init PROVE CallInv
  OBVIOUS
<1>1. Nothing \in Invocation /\ SoundCall(Nothing)
  BY Fillers, InsideSound DEF Nothing, Out
<1>2. SoundCalls
  BY <1>1 DEF SoundCalls, Init
<1>3. linker \in Change /\ linker.pc = "idle"
  BY Fillers DEF Init, NoChange
<1> QED
  BY <1>2, <1>3, InvocationsAssumption DEF CallInv, TablesType, DropPending, Init

\* Every step keeps the invariant.
LEMMA NextSound == CallInv /\ [Next]_vars => CallInv'
<1> SUFFICES ASSUME CallInv, [Next]_vars PROVE CallInv'
  OBVIOUS
<1>1. CASE \E r \in Request, a \in Actor, c \in Contract : Arrive(r, a, c)
  BY <1>1, ArriveSound
<1>2. CASE \E i \in Inv : Operate(i)
  BY <1>2, OperateSound
<1>3. CASE \E i \in Inv : Step(i)
  BY <1>3, AcceptSound, ReplySound, SetTargetSound, SendSound, AnswerSound, TimeoutSound DEF Step
<1>4. CASE \E i \in Inv : Lock(i)
  BY <1>4, ReadTargetsSound, ReadLinksSound DEF Lock
<1>5. CASE \E w \in Wires : StartChange(w[1], w[2])
  BY <1>5, StartChangeSound
<1>6. CASE Linker
  BY <1>6, ChangeGroupSound, PublishSound DEF Linker
<1>7. CASE \E a \in Removable : RemoveActor(a)
  BY <1>7, RemoveActorSound, InvocationsAssumption
<1>8. CASE UNCHANGED vars
  <2>1. SoundCalls'
    BY <1>8 DEF vars, tables, CallInv, SoundCalls, SoundCall
  <2> QED
    BY <1>8, <2>1, HandlerFrame DEF vars, CallInv, TablesType
<1> QED
  BY <1>1, <1>2, <1>3, <1>4, <1>5, <1>6, <1>7, <1>8 DEF Next

\* The invariant holds throughout.
LEMMA CallInvHolds == Spec => []CallInv
<1>1. Init => CallInv
  BY InitSound
<1>2. CallInv /\ [Next]_vars => CallInv'
  BY NextSound
<1> QED
  BY <1>1, <1>2, PTL DEF Spec

(***************************************************************************)
(* Every value is of its type: in particular, every request that is sent   *)
(* goes to an entity its target resolved to.                               *)
(***************************************************************************)
THEOREM InvocationsTypeCorrect == Spec => []TypeOK
<1>1. CallInv => TypeOK
  BY CallInvImplies
<1> QED
  BY <1>1, CallInvHolds, PTL

(***************************************************************************)
(* A link stays in the group's table as long as a call over it is on its   *)
(* way, however many calls, chains of calls and changes of links there are *)
(* and whichever answers are lost.                                         *)
(***************************************************************************)
THEOREM CallsAlwaysKeepTheirLink == Spec => []CallsKeepTheirLink
<1>1. CallInv => CallsKeepTheirLink
  BY CallInvImplies
<1> QED
  BY <1>1, CallInvHolds, PTL

(***************************************************************************)
(* delete_linkdef never tells a provider to drop a link over which a call  *)
(* is on its way, as long as the actor that makes it has a group.          *)
(***************************************************************************)
THEOREM NoDropWhileCalled == Spec => NoDropUnderCall
<1> DEFINE Kept == \A a \in groups, e \in LinkEntity :
                      e \in told[a] /\ e \notin told'[a] => ~CallOut(a, e)
<1>1. CallInv /\ [Next]_vars => [Kept]_vars
  <2> SUFFICES ASSUME CallInv, Next, NEW a \in groups, NEW e \in LinkEntity,
                      e \in told[a], e \notin told'[a]
               PROVE  ~CallOut(a, e)
    BY DEF vars
  <2>1. a \in Actor
    BY DEF CallInv, TablesType
  <2>2. CASE Publish
    <3>1. told' = Changed(told, linker.add, linker.actor, linker.link) /\ linker.pc = "publish"
      BY <2>2 DEF Publish
    <3>2. a = linker.actor /\ e = linker.link /\ ~linker.add
      BY <2>1, <3>1 DEF Changed, CallInv, TablesType
    <3>3. e \notin links[a]
      BY <3>1, <3>2 DEF CallInv, DropPending
    <3> QED
      BY <3>3, CallInvImplies DEF CallsKeepTheirLink
  <2>3. CASE ~Publish
    <3>1. told' = told
      BY <2>3 DEF Next, Operate, UseInterface, Call, AskTarget, Begin, Step, Lock, Linker, Arrive,
         Accept, Reply, SetTarget, Send, Answer, Timeout, ReadTargets, ReadLinks, StartChange,
         ChangeGroup, RemoveActor, tables
    <3> QED
      BY <3>1
  <2> QED
    BY <2>2, <2>3
<1> QED
  BY <1>1, CallInvHolds, PTL DEF Spec, NoDropUnderCall
=============================================================================
