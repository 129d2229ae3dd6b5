-------------------------- MODULE RefinementProofs --------------------------
(***************************************************************************)
(* Links implements LinkRegistry, for any number of links, crashes and     *)
(* failures, when the keys of the tables are distinct.                     *)
(***************************************************************************)
EXTENDS RegistryProofs

----------------------------------------------------------------------------
(***************************************************************************)
(* The refinement mapping in terms of the one task that holds ctx.links.   *)
(***************************************************************************)

\* The claims of id: while its deletion is on its way, the deleting link's.
ClaimsVal(id) ==
    IF id \in failed \/ ctxLinks[id] = NoLd THEN {}
    ELSE IF BeingDeleted(id) THEN {lock} ELSE ctxLinks[id].refs

\* The definition in force for the link that ld is of.
TableVal(ld) ==
    IF IdOf(ld) \in failed \/ BeingAdded(IdOf(ld)) THEN NoLd
    ELSE IF Removed(IdOf(ld)) THEN task[lock].ld ELSE hostLinks[HashOf(ld)]

\* Only the holder of ctx.links adds or deletes.
LEMMA HolderIsLock ==
    ASSUME RegistryInv, NEW l \in Link, NEW id, Adding(l, id) \/ Deleting(l, id)
    PROVE  lock = l
BY HolderPcs DEF RegistryInv, TablesInv, LockHeld

\* The claims of the mapping are those of ClaimsVal ...
LEMMA ClaimsValue == RegistryInv => \A id \in Id : ClaimsOf(id) = ClaimsVal(id)
<1> SUFFICES ASSUME RegistryInv, NEW id \in Id PROVE ClaimsOf(id) = ClaimsVal(id)
  OBVIOUS
<1> DEFINE deleting == {l \in Link : Deleting(l, id)}
<1>1. CASE BeingDeleted(id)
  <2>1. PICK l \in Link : Deleting(l, id)
    BY <1>1 DEF BeingDeleted
  <2>2. deleting = {l} /\ lock = l
    BY <2>1, HolderIsLock
  <2>3. ctxLinks[id].refs = {}
    BY <2>1 DEF Deleting, RegistryInv, TablesMatch, DelPart
  <2> QED
    BY <1>1, <2>2, <2>3 DEF ClaimsOf, ClaimsVal
<1>2. CASE ~BeingDeleted(id)
  <2>1. deleting = {}
    BY <1>2 DEF BeingDeleted
  <2> QED
    BY <1>2, <2>1 DEF ClaimsOf, ClaimsVal
<1> QED
  BY <1>1, <1>2

\* ... and so they are after a step.
LEMMA ClaimsValueNext == (RegistryInv => \A id \in Id : ClaimsOf(id) = ClaimsVal(id))'
BY ClaimsValue, PTL

\* The register speaks of the same ids and definitions.
LEMMA SameNames ==
    /\ R!Id = Id /\ R!ResolvedLink = ResolvedLink
    /\ \A ld : R!IdOf(ld) = IdOf(ld)
<1>1. R!ResolvedLink = ResolvedLink
  BY DEF R!ResolvedLink, ResolvedLink, R!Empty, Empty
<1>2. \A ld : R!IdOf(ld) = IdOf(ld)
  BY DEF R!IdOf, IdOf, R!link_id, link_id
<1>3. R!Id = Id
  BY <1>1, <1>2 DEF R!Id, Id
<1> QED
  BY <1>1, <1>2, <1>3

\* A step that changes no claim and no definition is not seen in the register.
LEMMA Stuttering ==
    ASSUME \A id \in Id : ClaimsOf(id)' = ClaimsOf(id) /\ InForce(id)' = InForce(id),
           UNCHANGED <<told, failed, crashes>>
    PROVE  UNCHANGED R!vars
<1>1. [id \in Id |-> ClaimsOf(id)]' = [id \in Id |-> ClaimsOf(id)]
  OBVIOUS
<1>2. [id \in Id |-> InForce(id)]' = [id \in Id |-> InForce(id)]
  OBVIOUS
<1> QED
  BY <1>1, <1>2 DEF R!vars

\* The definition in force, for each link: the one of host.links unless the holder
\* of ctx.links is adding it, or the one it is deleting.
LEMMA TableValue ==
    KeysDistinct /\ RegistryInv => \A ld \in ResolvedLink : InForce(IdOf(ld)) = TableVal(ld)
<1> SUFFICES ASSUME KeysDistinct, RegistryInv, NEW ld \in ResolvedLink
             PROVE  InForce(IdOf(ld)) = TableVal(ld)
  OBVIOUS
<1> DEFINE id == IdOf(ld)
           stored == {hostLinks[h] : h \in {g \in Hash : /\ hostLinks[g] # NoLd
                                                        /\ IdOf(hostLinks[g]) = id
                                                        /\ \A l \in Link : ~Adding(l, id)}}
           leaving == {task[l].ld : l \in {m \in Link : Deleting(m, id) /\ ~At(m, "delHost")}}
           here == stored \cup leaving
<1>d. InForce(id) = IF id \in failed \/ here = {} THEN NoLd ELSE CHOOSE e \in here : TRUE
  BY DEF InForce
<1>h. HashOf(ld) \in Hash /\ id \in Id /\ TypeOK /\ TablesMatch
  BY KeyType DEF RegistryInv, TablesInv
<1>k. \A g \in Hash : hostLinks[g] # NoLd /\ IdOf(hostLinks[g]) = id <=>
                      g = HashOf(ld) /\ hostLinks[g] # NoLd
  <2> SUFFICES ASSUME NEW g \in Hash, hostLinks[g] # NoLd
               PROVE  IdOf(hostLinks[g]) = id <=> g = HashOf(ld)
    OBVIOUS
  <2>1. hostLinks[g] \in ResolvedLink /\ HashOf(hostLinks[g]) = g
    BY <1>h DEF TypeOK, RegistryInv, TablesInv, HostKeyed
  <2> QED
    BY <2>1, SameKeys
<1>0. CASE id \in failed
  BY <1>0, <1>d DEF TableVal
<1>1. CASE id \notin failed /\ BeingAdded(id)
  <2>1. PICK l \in Link : Adding(l, id)
    BY <1>1 DEF BeingAdded
  <2>2. stored = {}
    BY <2>1
  <2>3. \A m \in Link : ~Deleting(m, id)
    BY <2>1, HolderIsLock DEF Adding, Deleting
  <2>4. leaving = {}
    BY <2>3
  <2> QED
    BY <1>1, <1>d, <2>2, <2>4 DEF TableVal
<1>2. CASE id \notin failed /\ ~BeingAdded(id) /\ Removed(id)
  <2>1. PICK l \in Link : Deleting(l, id) /\ ~At(l, "delHost")
    BY <1>2 DEF Removed
  <2>2. lock = l /\ \A m \in Link : Deleting(m, id) => m = l
    BY <2>1, HolderIsLock
  <2>3. IdOf(task[l].ld) = id /\ hostLinks[HashOf(task[l].ld)] = NoLd /\ task[l].ld \in ResolvedLink
    BY <2>1, <1>h, TaskFacts DEF Deleting, At, DelPcs, TablesMatch, DelPart, TypeOK
  <2>4. hostLinks[HashOf(ld)] = NoLd
    BY <2>3, SameKeys
  <2>5. stored = {}
    BY <2>4, <1>k
  <2>6. leaving = {task[l].ld}
    BY <2>1, <2>2
  <2>7. InForce(id) = task[l].ld
    BY <1>2, <1>d, <2>5, <2>6
  <2> QED
    BY <1>2, <2>2, <2>7 DEF TableVal
<1>3. CASE id \notin failed /\ ~BeingAdded(id) /\ ~Removed(id)
  <2>1. leaving = {}
    BY <1>3 DEF Removed
  <2>2. CASE hostLinks[HashOf(ld)] = NoLd
    <3>1. stored = {}
      BY <2>2, <1>k
    <3> QED
      BY <1>3, <1>d, <2>1, <2>2, <3>1 DEF TableVal
  <2>3. CASE hostLinks[HashOf(ld)] # NoLd
    <3>1. stored = {hostLinks[HashOf(ld)]}
      BY <1>3, <1>h, <1>k, <2>3 DEF BeingAdded
    <3>2. InForce(id) = hostLinks[HashOf(ld)]
      BY <1>3, <1>d, <2>1, <3>1
    <3> QED
      BY <1>3, <3>2 DEF TableVal
  <2> QED
    BY <2>2, <2>3
<1> QED
  BY <1>0, <1>1, <1>2, <1>3

\* The same after a step.
LEMMA TableValueNext ==
    (KeysDistinct /\ RegistryInv => \A ld \in ResolvedLink : InForce(IdOf(ld)) = TableVal(ld))'
BY TableValue, PTL

(***************************************************************************)
(* How a change of the tables is seen in the register: unless the claims   *)
(* or the definition of an id change, as the next lemmas say, it is not.   *)
(***************************************************************************)
Same(id) == ClaimsVal(id)' = ClaimsVal(id)

SameDef(ld) == TableVal(ld)' = TableVal(ld)

\* The mapped tables, before and after a step, by their values.
LEMMA Mapped ==
    ASSUME KeysDistinct, RegistryInv, RegistryInv'
    PROVE  /\ \A id \in Id : ClaimsOf(id) = ClaimsVal(id) /\ ClaimsOf(id)' = ClaimsVal(id)'
           /\ \A ld \in ResolvedLink : /\ InForce(IdOf(ld)) = TableVal(ld)
                                       /\ InForce(IdOf(ld))' = TableVal(ld)'
<1>1. \A id \in Id : ClaimsOf(id) = ClaimsVal(id)
  BY ClaimsValue
<1>2. \A id \in Id : ClaimsOf(id)' = ClaimsVal(id)'
  BY ClaimsValueNext
<1>3. \A ld \in ResolvedLink : InForce(IdOf(ld)) = TableVal(ld)
  BY TableValue
<1>4. \A ld \in ResolvedLink : InForce(IdOf(ld))' = TableVal(ld)'
  BY TableValueNext
<1> QED
  BY <1>1, <1>2, <1>3, <1>4

\* Nothing changes.
LEMMA NoMove ==
    ASSUME KeysDistinct, RegistryInv, RegistryInv', UNCHANGED <<told, failed, crashes>>,
           \A id \in Id : Same(id), \A ld \in ResolvedLink : SameDef(ld)
    PROVE  UNCHANGED R!vars
<1>1. \A id \in Id : ClaimsOf(id)' = ClaimsOf(id)
  BY Mapped DEF Same
<1>2. \A id \in Id : InForce(id)' = InForce(id)
  BY Mapped DEF SameDef, Id
<1> QED
  BY <1>1, <1>2, Stuttering

\* One id changes.
LEMMA OneMove ==
    ASSUME KeysDistinct, RegistryInv, RegistryInv', NEW ld \in ResolvedLink,
           \A id \in Id \ {IdOf(ld)} : Same(id),
           \A d \in ResolvedLink : IdOf(d) # IdOf(ld) => SameDef(d)
    PROVE  LET claims == [id \in Id |-> ClaimsOf(id)]
               table == [id \in Id |-> InForce(id)]
           IN  /\ claims[IdOf(ld)] = ClaimsVal(IdOf(ld))
               /\ table[IdOf(ld)] = TableVal(ld)
               /\ claims' = [claims EXCEPT ![IdOf(ld)] = ClaimsVal(IdOf(ld))']
               /\ table' = [table EXCEPT ![IdOf(ld)] = TableVal(ld)']
<1>0. IdOf(ld) \in Id
  BY KeyType
<1>1. \A id \in Id \ {IdOf(ld)} : ClaimsOf(id)' = ClaimsOf(id)
  BY Mapped DEF Same
<1>2. \A id \in Id \ {IdOf(ld)} : InForce(id)' = InForce(id)
  <2> SUFFICES ASSUME NEW d \in ResolvedLink, IdOf(d) # IdOf(ld)
               PROVE  InForce(IdOf(d))' = InForce(IdOf(d))
    BY DEF Id
  <2> QED
    BY Mapped DEF SameDef
<1>3. /\ ClaimsOf(IdOf(ld)) = ClaimsVal(IdOf(ld)) /\ ClaimsOf(IdOf(ld))' = ClaimsVal(IdOf(ld))'
      /\ InForce(IdOf(ld)) = TableVal(ld) /\ InForce(IdOf(ld))' = TableVal(ld)'
  BY <1>0, Mapped
<1> QED
  BY <1>0, <1>1, <1>2, <1>3

(***************************************************************************)
(* The steps of the register.                                              *)
(***************************************************************************)

\* The first claim of an id, with its definition and announcement, is a Make.
LEMMA MakeMove ==
    ASSUME KeysDistinct, RegistryInv, RegistryInv', NEW l \in Link, NEW ld \in ResolvedLink,
           \A id \in Id \ {IdOf(ld)} : Same(id),
           \A d \in ResolvedLink : IdOf(d) # IdOf(ld) => SameDef(d),
           IdOf(ld) \notin failed,
           ClaimsVal(IdOf(ld)) = {}, ClaimsVal(IdOf(ld))' = {l}, TableVal(ld)' = ld,
           told' = told \cup {ld}, UNCHANGED <<failed, crashes>>
    PROVE  R!Next
<1>1. R!Make(l, ld)
  BY OneMove, SameNames DEF R!Make
<1> QED
  BY <1>1, SameNames DEF R!Next

\* One more claim of an id that has one is a Join.
LEMMA JoinMove ==
    ASSUME KeysDistinct, RegistryInv, RegistryInv', NEW l \in Link, NEW ld \in ResolvedLink,
           \A id \in Id \ {IdOf(ld)} : Same(id),
           \A d \in ResolvedLink : SameDef(d),
           IdOf(ld) \notin failed,
           ClaimsVal(IdOf(ld)) # {}, ClaimsVal(IdOf(ld))' = ClaimsVal(IdOf(ld)) \cup {l},
           UNCHANGED <<told, failed, crashes>>
    PROVE  R!Next
<1>1. [id \in Id |-> InForce(id)]' = [id \in Id |-> InForce(id)]
  BY Mapped DEF SameDef, Id
<1>2. R!Join(l, IdOf(ld))
  BY <1>1, OneMove, SameNames DEF R!Join
<1> QED
  BY <1>2, SameNames, KeyType DEF R!Next

\* One claim less, of several, is a Leave.
LEMMA LeaveMove ==
    ASSUME KeysDistinct, RegistryInv, RegistryInv', NEW l \in Link, NEW ld \in ResolvedLink,
           \A id \in Id \ {IdOf(ld)} : Same(id),
           \A d \in ResolvedLink : SameDef(d),
           IdOf(ld) \notin failed,
           ClaimsVal(IdOf(ld)) \ {l} # {}, ClaimsVal(IdOf(ld))' = ClaimsVal(IdOf(ld)) \ {l},
           UNCHANGED <<told, failed, crashes>>
    PROVE  R!Next
<1>1. [id \in Id |-> InForce(id)]' = [id \in Id |-> InForce(id)]
  BY Mapped DEF SameDef, Id
<1>2. R!Leave(l, IdOf(ld))
  BY <1>1, OneMove, SameNames DEF R!Leave
<1> QED
  BY <1>2, SameNames, KeyType DEF R!Next

\* The last claim goes with the definition: a Drop.
LEMMA DropMove ==
    ASSUME KeysDistinct, RegistryInv, RegistryInv', NEW l \in Link, NEW ld \in ResolvedLink,
           \A id \in Id \ {IdOf(ld)} : Same(id),
           \A d \in ResolvedLink : IdOf(d) # IdOf(ld) => SameDef(d),
           IdOf(ld) \notin failed,
           ClaimsVal(IdOf(ld)) = {l}, ClaimsVal(IdOf(ld))' = {},
           TableVal(ld)' = NoLd,
           told' = told \ {TableVal(ld)}, UNCHANGED <<failed, crashes>>
    PROVE  R!Next
<1>1. R!Drop(l, IdOf(ld))
  BY OneMove, SameNames DEF R!Drop
<1> QED
  BY <1>1, SameNames, KeyType DEF R!Next

\* An id whose announcement fails is lost, with its claims and its definition.
LEMMA LoseMove ==
    ASSUME KeysDistinct, RegistryInv, RegistryInv', NEW ld \in ResolvedLink,
           \A id \in Id \ {IdOf(ld)} : Same(id),
           \A d \in ResolvedLink : IdOf(d) # IdOf(ld) => SameDef(d),
           failed' = failed \cup {IdOf(ld)}, UNCHANGED <<told, crashes>>
    PROVE  R!Next
<1>0. ClaimsVal(IdOf(ld))' = {} /\ TableVal(ld)' = NoLd
  BY DEF ClaimsVal, TableVal
<1>1. R!Lose(IdOf(ld))
  BY <1>0, OneMove, SameNames DEF R!Lose
<1> QED
  BY <1>1, SameNames, KeyType DEF R!Next

\* What is told of a lost id is a Stray.
LEMMA StrayMove ==
    ASSUME KeysDistinct, RegistryInv, RegistryInv', NEW ld \in ResolvedLink,
           \A id \in Id : Same(id), \A d \in ResolvedLink : SameDef(d),
           IdOf(ld) \in failed, told' \in {told \cup {ld}, told \ {ld}},
           UNCHANGED <<failed, crashes>>
    PROVE  R!Next
<1>1. [id \in Id |-> InForce(id)]' = [id \in Id |-> InForce(id)]
  BY Mapped DEF SameDef, Id
<1>2. [id \in Id |-> ClaimsOf(id)]' = [id \in Id |-> ClaimsOf(id)]
  BY Mapped DEF Same
<1>3. R!Stray(ld)
  BY <1>1, <1>2, SameNames DEF R!Stray
<1> QED
  BY <1>3, SameNames DEF R!Next

\* A crash empties the register.
LEMMA RestartMove ==
    ASSUME TypeOK, Crash
    PROVE  R!Next
<1>1. /\ \A id \in Id : ctxLinks'[id] = NoLd
      /\ \A h \in Hash : hostLinks'[h] = NoLd
      /\ \A l \in Link : task'[l].pc = "idle"
      /\ failed' = {} /\ told' = told /\ crashes' = crashes + 1
  BY DEF Crash, NoCtxLinks, NoHostLinks, NoTasks, Idle
<1>2. \A id \in Id : ClaimsOf(id)' = {}
  BY <1>1 DEF ClaimsOf
<1>3. \A id \in Id : InForce(id)' = NoLd
  BY <1>1 DEF InForce, Deleting
<1>4. /\ [id \in Id |-> ClaimsOf(id)]' = [id \in Id |-> {}]
      /\ [id \in Id |-> InForce(id)]' = [id \in Id |-> NoLd]
  BY <1>2, <1>3
<1>5. R!Restart
  BY <1>1, <1>4, SameNames DEF R!Restart, R!NoClaims, R!NoTable
<1> QED
  BY <1>5 DEF R!Next

----------------------------------------------------------------------------
(***************************************************************************)
(* Each step of Links is a step of the register, or is not seen in it.     *)
(***************************************************************************)
Moves == R!Next \/ UNCHANGED R!vars

Inside(l) ==
    \/ AddRef(l) \/ AddAcquire(l) \/ DelRef(l) \/ DelAcquire(l)
    \/ AddHost(l) \/ AddGroup(l) \/ AddPublish(l) \/ AddPublishFail(l)
    \/ DelHost(l) \/ DelGroup(l) \/ DelPublish(l) \/ DelPublishFail(l)

\* A task that takes ctx.links, or holds it, is the only one at work on the tables.
LEMMA OnlyInside ==
    ASSUME RegistryInv, NEW l \in Link, Inside(l)
    PROVE  \A m \in Link \ {l} : task[m].pc \notin HeldPcs /\ task'[m] = task[m]
<1>1. \A m \in Link \ {l} : task'[m] = task[m]
  BY StepFrame DEF Inside, Acquire, Step, RegistryInv, TablesInv
<1>2. lock = Free \/ task[l].pc \in HeldPcs
  BY DEF Inside, AddRef, AddAcquire, DelRef, DelAcquire, AddHost, AddGroup, AddPublish,
         AddPublishFail, DelHost, DelGroup, DelPublish, DelPublishFail, At, HeldPcs
<1>3. lock \in {l, Free}
  BY <1>2 DEF RegistryInv, TablesInv, LockHeld
<1> QED
  BY <1>1, <1>3, Exclusive DEF RegistryInv

\* Steps that leave the tables and what is done to them alone.
LEMMA UnseenStep ==
    ASSUME KeysDistinct, RegistryInv, RegistryInv',
           UNCHANGED <<ctxLinks, hostLinks, told, failed, crashes>>,
           \A id : /\ BeingAdded(id)' <=> BeingAdded(id)
                   /\ BeingDeleted(id)' <=> BeingDeleted(id)
                   /\ Removed(id)' <=> Removed(id)
                   /\ BeingDeleted(id) => lock' = lock
                   /\ Removed(id) => task'[lock].ld = task[lock].ld
    PROVE  Moves
<1>1. \A id \in Id : Same(id)
  BY DEF Same, ClaimsVal
<1>2. \A id : Removed(id) => BeingDeleted(id)
  BY DEF Removed, BeingDeleted
<1>3. \A ld \in ResolvedLink : SameDef(ld)
  BY <1>2 DEF SameDef, TableVal
<1> QED
  BY <1>1, <1>3, NoMove DEF Moves

\* add_link on an occupied entry joins, or is unseen if the id is lost.
LEMMA AddRefMoves ==
    ASSUME KeysDistinct, RegistryInv, RegistryInv', NEW l \in Link, AddRef(l)
    PROVE  Moves
<1>d. PICK ld : ld = task[l].ld
  OBVIOUS
<1> DEFINE id == IdOf(ld)
<1>t. /\ task[l].pc = "addLock" /\ ld \in ResolvedLink /\ id \in Id /\ ctxLinks[id] # NoLd
      /\ TypeOK /\ TablesMatch
  BY <1>d, TaskFacts, KeyType DEF AddRef, At, AddPcs, RegistryInv, TablesInv, TypeOK
<1>q. \A m \in Link \ {l} : task[m].pc \notin HeldPcs /\ task'[m] = task[m]
  BY OnlyInside DEF Inside
<1>1. /\ task'[l].pc = "patch"
      /\ UNCHANGED <<hostLinks, told, failed, crashes>>
  BY <1>t DEF AddRef, Goto, TypeOK, faultCounts
<1>2. /\ \A i \in Id \ {id} : ctxLinks'[i] = ctxLinks[i]
      /\ ctxLinks'[id] # NoLd
      /\ ctxLinks'[id].refs = ctxLinks[id].refs \cup {l}
  <2>1. ctxLinks' = [ctxLinks EXCEPT ![id].refs = ctxLinks[id].refs \cup {l}]
    BY <1>d DEF AddRef
  <2>2. ctxLinks[id].refs \cup {l} \in SUBSET Link
    BY <1>t DEF TypeOK, RefEntry
  <2> QED
    BY <1>t, <2>1, <2>2, RefsUpdate
<1>3. \A i : /\ ~BeingAdded(i) /\ ~BeingDeleted(i) /\ ~Removed(i)
             /\ ~BeingAdded(i)' /\ ~BeingDeleted(i)' /\ ~Removed(i)'
  BY <1>t, <1>q, <1>1, HolderStep DEF Adding, Deleting
<1>4. \A i \in Id \ {id} : Same(i)
  BY <1>1, <1>2, <1>3 DEF Same, ClaimsVal
<1>5. \A d \in ResolvedLink : SameDef(d)
  BY <1>1, <1>3 DEF SameDef, TableVal
<1>6. CASE id \in failed
  <2>1. Same(id)
    BY <1>1, <1>6 DEF Same, ClaimsVal
  <2> QED
    BY <1>1, <1>4, <1>5, <2>1, NoMove DEF Moves
<1>7. CASE id \notin failed
  <2>1. ClaimsVal(id) = ctxLinks[id].refs /\ ClaimsVal(id) # {}
    BY <1>t, <1>3, <1>7 DEF ClaimsVal, TablesMatch, CtxWanted
  <2>2. ClaimsVal(id)' = ctxLinks[id].refs \cup {l}
    BY <1>1, <1>2, <1>3, <1>7 DEF ClaimsVal
  <2> QED
    BY <1>t, <1>1, <1>4, <1>5, <1>7, <2>1, <2>2, JoinMove DEF Moves
<1> QED
  BY <1>6, <1>7

\* Taking ctx.links is not seen.
LEMMA AddAcquireMoves ==
    ASSUME KeysDistinct, RegistryInv, RegistryInv', NEW l \in Link, AddAcquire(l)
    PROVE  Moves
<1>q. \A m \in Link \ {l} : task[m].pc \notin HeldPcs /\ task'[m] = task[m]
  BY OnlyInside DEF Inside
<1>1. /\ task[l].pc = "addLock" /\ task'[l].pc = "addHost"
      /\ UNCHANGED <<ctxLinks, hostLinks, told, failed, crashes>>
  BY DEF AddAcquire, At, Goto, RegistryInv, TablesInv, TypeOK, faultCounts, tables
<1>2. \A i : /\ ~BeingAdded(i) /\ ~BeingDeleted(i) /\ ~Removed(i)
             /\ ~BeingAdded(i)' /\ ~BeingDeleted(i)' /\ ~Removed(i)'
  BY <1>q, <1>1, HolderStep DEF Adding, Deleting
<1> QED
  BY <1>1, <1>2, UnseenStep

\* What add_linkdef puts into host.links is not in force before it is announced.
LEMMA AddHostMoves ==
    ASSUME KeysDistinct, RegistryInv, RegistryInv', NEW l \in Link, AddHost(l)
    PROVE  Moves
<1>d. PICK ld : ld = task[l].ld
  OBVIOUS
<1> DEFINE id == IdOf(ld)
           h == HashOf(ld)
<1>t. /\ task[l].pc = "addHost" /\ ld \in ResolvedLink /\ id \in Id /\ h \in Hash
      /\ TypeOK /\ TablesMatch
  BY <1>d, TaskFacts, KeyType DEF AddHost, At, AddPcs, RegistryInv, TablesInv, TypeOK
<1>q. \A m \in Link \ {l} : task[m].pc \notin HeldPcs /\ task'[m] = task[m]
  BY OnlyInside DEF Inside
<1>v. ctxLinks[id] = NoLd
  BY <1>d, <1>t DEF TablesMatch, AddPart
<1>n. \A i : ~BeingAdded(i) /\ ~BeingDeleted(i) /\ ~Removed(i)
  BY <1>t, <1>q, HolderStep DEF Adding, Deleting
<1>0. /\ UNCHANGED <<told, failed, crashes>>
      /\ hostLinks[h] # NoLd => id \in failed
  BY <1>d, AddHostMatch DEF AddHost, faultCounts
<1>1. CASE hostLinks[h] = NoLd
  <2>1. /\ task'[l].pc = "addGroup" /\ task'[l].ld = ld
        /\ UNCHANGED ctxLinks
        /\ hostLinks' = [hostLinks EXCEPT ![h] = ld]
    BY <1>d, <1>1, <1>t DEF AddHost, Goto, TypeOK
  <2>2. \A i : (BeingAdded(i)' <=> i = id) /\ ~BeingDeleted(i)' /\ ~Removed(i)'
    BY <1>q, <2>1, HolderStep DEF Adding, Deleting
  <2>3. \A i \in Id : Same(i)
    BY <1>0, <1>n, <2>1, <2>2 DEF Same, ClaimsVal
  <2>4. \A d \in ResolvedLink : SameDef(d)
    <3> SUFFICES ASSUME NEW d \in ResolvedLink PROVE TableVal(d)' = TableVal(d)
      BY DEF SameDef
    <3>1. CASE IdOf(d) = id
      <4>1. HashOf(d) = h
        BY <3>1, <1>t, SameKeys
      <4> QED
        BY <3>1, <4>1, <1>1, <1>n, <2>2 DEF TableVal
    <3>2. CASE IdOf(d) # id
      <4>1. HashOf(d) # h
        BY <3>2, <1>t, SameKeys
      <4>2. hostLinks'[HashOf(d)] = hostLinks[HashOf(d)]
        BY <4>1, <2>1, <1>t, KeyType DEF TypeOK
      <4> QED
        BY <3>2, <4>2, <1>0, <1>n, <2>2 DEF TableVal
    <3> QED
      BY <3>1, <3>2
  <2> QED
    BY <1>0, <2>3, <2>4, NoMove DEF Moves
<1>2. CASE hostLinks[h] # NoLd
  <2>1. /\ task'[l].pc = "patch" /\ UNCHANGED hostLinks
        /\ ctxLinks' = [ctxLinks EXCEPT ![id] = [ld |-> ld, refs |-> {l}]]
    BY <1>d, <1>2, <1>t DEF AddHost, Added, Goto, TypeOK
  <2>2. \A i : ~BeingAdded(i)' /\ ~BeingDeleted(i)' /\ ~Removed(i)'
    BY <1>q, <2>1, HolderStep DEF Adding, Deleting
  <2>3. \A i \in Id : Same(i)
    <3>1. \A i \in Id \ {id} : ctxLinks'[i] = ctxLinks[i]
      BY <1>t, <2>1 DEF TypeOK
    <3> QED
      BY <3>1, <1>0, <1>2, <1>n, <2>2 DEF Same, ClaimsVal
  <2>4. \A d \in ResolvedLink : SameDef(d)
    BY <1>0, <1>n, <2>1, <2>2 DEF SameDef, TableVal
  <2> QED
    BY <1>0, <2>3, <2>4, NoMove DEF Moves
<1> QED
  BY <1>1, <1>2

\* Nor is the change of the group's table seen.
LEMMA AddGroupMoves ==
    ASSUME KeysDistinct, RegistryInv, RegistryInv', NEW l \in Link, AddGroup(l)
    PROVE  Moves
<1>q. \A m \in Link \ {l} : task[m].pc \notin HeldPcs /\ task'[m] = task[m]
  BY OnlyInside DEF Inside
<1>1. /\ task[l].pc = "addGroup" /\ task'[l].pc = "addPublish" /\ task'[l].ld = task[l].ld
      /\ UNCHANGED <<ctxLinks, hostLinks, told, failed, crashes>>
  BY DEF AddGroup, At, Goto, RegistryInv, TablesInv, TypeOK, faultCounts
<1>2. \A i : /\ BeingAdded(i)' <=> BeingAdded(i)
             /\ ~BeingDeleted(i) /\ ~Removed(i)
             /\ ~BeingDeleted(i)' /\ ~Removed(i)'
  BY <1>q, <1>1, HolderStep DEF Adding, Deleting
<1> QED
  BY <1>1, <1>2, UnseenStep

\* The announcement of a new definition makes it.
LEMMA AddPublishMoves ==
    ASSUME KeysDistinct, RegistryInv, RegistryInv', NEW l \in Link, AddPublish(l)
    PROVE  Moves
<1>d. PICK ld : ld = task[l].ld
  OBVIOUS
<1> DEFINE id == IdOf(ld)
           h == HashOf(ld)
<1>t. /\ task[l].pc = "addPublish" /\ ld \in ResolvedLink /\ id \in Id /\ h \in Hash
      /\ TypeOK /\ TablesMatch
  BY <1>d, TaskFacts, KeyType DEF AddPublish, At, AddPcs, RegistryInv, TablesInv, TypeOK
<1>q. \A m \in Link \ {l} : task[m].pc \notin HeldPcs /\ task'[m] = task[m]
  BY OnlyInside DEF Inside
<1>v. ctxLinks[id] = NoLd /\ hostLinks[h] = ld
  BY <1>d, <1>t DEF TablesMatch, AddPart
<1>n. \A i : (BeingAdded(i) <=> i = id) /\ ~BeingDeleted(i) /\ ~Removed(i)
  BY <1>d, <1>t, <1>q, HolderStep DEF Adding, Deleting
<1>1. /\ task'[l].pc = "patch"
      /\ UNCHANGED <<hostLinks, failed, crashes>>
      /\ told' = told \cup {ld}
      /\ ctxLinks' = [ctxLinks EXCEPT ![id] = [ld |-> ld, refs |-> {l}]]
  BY <1>d, <1>t DEF AddPublish, Added, Goto, TypeOK, faultCounts
<1>2. \A i : ~BeingAdded(i)' /\ ~BeingDeleted(i)' /\ ~Removed(i)'
  BY <1>q, <1>1, HolderStep DEF Adding, Deleting
<1>3. /\ [ld |-> ld, refs |-> {l}] # NoLd
      /\ ctxLinks'[id] = [ld |-> ld, refs |-> {l}]
      /\ \A i \in Id \ {id} : ctxLinks'[i] = ctxLinks[i]
  BY <1>t, <1>1, LinksAssumption DEF TypeOK
<1>4. \A i \in Id \ {id} : Same(i)
  BY <1>1, <1>2, <1>3, <1>n DEF Same, ClaimsVal
<1>5. \A d \in ResolvedLink : IdOf(d) # id => SameDef(d)
  BY <1>1, <1>2, <1>n DEF SameDef, TableVal
<1>6. CASE id \in failed
  <2>1. Same(id)
    BY <1>1, <1>6 DEF Same, ClaimsVal
  <2>2. \A d \in ResolvedLink : IdOf(d) = id => SameDef(d)
    BY <1>1, <1>6 DEF SameDef, TableVal
  <2>3. (\A i \in Id : Same(i)) /\ \A d \in ResolvedLink : SameDef(d)
    BY <1>4, <1>5, <2>1, <2>2
  <2> QED
    BY <1>t, <1>1, <1>6, <2>3, StrayMove DEF Moves
<1>7. CASE id \notin failed
  <2>1. ClaimsVal(id) = {}
    BY <1>v DEF ClaimsVal
  <2>2. ClaimsVal(id)' = {l}
    BY <1>1, <1>2, <1>3, <1>7 DEF ClaimsVal
  <2>3. TableVal(ld)' = ld
    BY <1>1, <1>2, <1>v, <1>7 DEF TableVal
  <2> QED
    BY <1>t, <1>1, <1>4, <1>5, <1>7, <2>1, <2>2, <2>3, MakeMove DEF Moves
<1> QED
  BY <1>6, <1>7

\* If it fails, its id is lost.
LEMMA AddPublishFailMoves ==
    ASSUME KeysDistinct, RegistryInv, RegistryInv', NEW l \in Link, AddPublishFail(l)
    PROVE  Moves
<1>d. PICK ld : ld = task[l].ld
  OBVIOUS
<1> DEFINE id == IdOf(ld)
<1>t. task[l].pc = "addPublish" /\ ld \in ResolvedLink
  BY <1>d, TaskFacts DEF AddPublishFail, At, AddPcs, RegistryInv, TablesInv, TypeOK
<1>q. \A m \in Link \ {l} : task[m].pc \notin HeldPcs /\ task'[m] = task[m]
  BY OnlyInside DEF Inside
<1>1. /\ task'[l].pc = "idle"
      /\ UNCHANGED <<ctxLinks, hostLinks, told, crashes>>
      /\ failed' = failed \cup {id}
  BY <1>d DEF AddPublishFail, Done, Idle, RegistryInv, TablesInv, TypeOK
<1>2. \A i : /\ (BeingAdded(i) => i = id) /\ ~BeingDeleted(i) /\ ~Removed(i)
             /\ ~BeingAdded(i)' /\ ~BeingDeleted(i)' /\ ~Removed(i)'
  BY <1>d, <1>q, <1>t, <1>1, HolderStep DEF Adding, Deleting
<1>3. \A i \in Id \ {id} : Same(i)
  BY <1>1, <1>2 DEF Same, ClaimsVal
<1>4. \A d \in ResolvedLink : IdOf(d) # id => SameDef(d)
  BY <1>1, <1>2 DEF SameDef, TableVal
<1> QED
  BY <1>t, <1>1, <1>3, <1>4, LoseMove DEF Moves

\* delete_link of one link among several leaves.
LEMMA DelRefMoves ==
    ASSUME KeysDistinct, RegistryInv, RegistryInv', NEW l \in Link, DelRef(l)
    PROVE  Moves
<1>d. PICK ld : ld = FromStatus(task[l].obj)
  OBVIOUS
<1> DEFINE id == IdOf(ld)
<1>t. /\ task[l].pc = "delLock" /\ ld \in ResolvedLink /\ id \in Id /\ id = CleanupId(l)
      /\ TypeOK /\ TablesMatch
  BY <1>d, TaskFacts, FromStatusType, KeyType
     DEF DelRef, At, DelPcs, CleanupId, RegistryInv, TablesInv, TypeOK
<1>q. \A m \in Link \ {l} : task[m].pc \notin HeldPcs /\ task'[m] = task[m]
  BY OnlyInside DEF Inside
<1>1. /\ task'[l].pc = "release"
      /\ UNCHANGED <<hostLinks, told, failed, crashes>>
  BY <1>t DEF DelRef, Goto, TypeOK, faultCounts
<1>2. \A i : /\ ~BeingAdded(i) /\ ~BeingDeleted(i) /\ ~Removed(i)
             /\ ~BeingAdded(i)' /\ ~BeingDeleted(i)' /\ ~Removed(i)'
  BY <1>t, <1>q, <1>1, HolderStep DEF Adding, Deleting
<1>3. CASE UNCHANGED ctxLinks
  BY <1>1, <1>2, <1>3, UnseenStep
<1>4. CASE /\ ctxLinks[id] # NoLd
           /\ ctxLinks[id].refs \ {l} # {}
           /\ ctxLinks' = [ctxLinks EXCEPT ![id].refs = @ \ {l}]
  <2>0. ctxLinks[id].refs \ {l} \in SUBSET Link
    BY <1>4, <1>t DEF TypeOK, RefEntry
  <2>1. /\ \A i \in Id \ {id} : ctxLinks'[i] = ctxLinks[i]
        /\ ctxLinks'[id] # NoLd
        /\ ctxLinks'[id].refs = ctxLinks[id].refs \ {l}
    BY <1>4, <1>t, <2>0, RefsUpdate
  <2>2. \A i \in Id \ {id} : Same(i)
    BY <1>1, <1>2, <2>1 DEF Same, ClaimsVal
  <2>3. \A d \in ResolvedLink : SameDef(d)
    BY <1>1, <1>2 DEF SameDef, TableVal
  <2>4. CASE id \in failed
    <3>1. Same(id)
      BY <1>1, <2>4 DEF Same, ClaimsVal
    <3> QED
      BY <1>1, <2>2, <2>3, <3>1, NoMove DEF Moves
  <2>5. CASE id \notin failed
    <3>1. ClaimsVal(id) = ctxLinks[id].refs
      BY <1>2, <1>4, <2>5 DEF ClaimsVal
    <3>2. ClaimsVal(id)' = ctxLinks[id].refs \ {l}
      BY <1>1, <1>2, <2>1, <2>5 DEF ClaimsVal
    <3> QED
      BY <1>t, <1>1, <1>4, <2>2, <2>3, <2>5, <3>1, <3>2, LeaveMove DEF Moves
  <2> QED
    BY <2>4, <2>5
<1> QED
  BY <1>t, <1>3, <1>4 DEF DelRef

\* The last link that wants a definition still claims it when it starts to delete it.
LEMMA DelAcquireMoves ==
    ASSUME KeysDistinct, RegistryInv, RegistryInv', NEW l \in Link, DelAcquire(l)
    PROVE  Moves
<1>d. PICK ld : ld = FromStatus(task[l].obj)
  OBVIOUS
<1> DEFINE id == IdOf(ld)
<1>t. /\ task[l].pc = "delLock" /\ ld \in ResolvedLink /\ id \in Id /\ id = CleanupId(l)
      /\ TypeOK /\ TablesMatch
  BY <1>d, TaskFacts, FromStatusType, KeyType
     DEF DelAcquire, At, DelPcs, CleanupId, RegistryInv, TablesInv, TypeOK
<1>q. \A m \in Link \ {l} : task[m].pc \notin HeldPcs /\ task'[m] = task[m]
  BY OnlyInside DEF Inside
<1>1. /\ task'[l].pc = "delHost" /\ task'[l].obj = task[l].obj
      /\ UNCHANGED <<hostLinks, told, failed, crashes>>
      /\ lock' = l
      /\ ctxLinks[id] # NoLd /\ ctxLinks[id].refs \ {l} = {}
  BY <1>t DEF DelAcquire, Goto, TypeOK, faultCounts
<1>2. /\ \A i \in Id \ {id} : ctxLinks'[i] = ctxLinks[i]
      /\ ctxLinks'[id] # NoLd
      /\ ctxLinks'[id].refs = {}
  BY <1>t, RefsUpdate DEF DelAcquire
<1>3. CleanupId(l)' = id
  BY <1>d, <1>1 DEF CleanupId
<1>4. \A i : /\ ~BeingAdded(i) /\ ~BeingDeleted(i) /\ ~Removed(i)
             /\ ~BeingAdded(i)' /\ ~Removed(i)'
             /\ BeingDeleted(i)' <=> i = id
  BY <1>t, <1>q, <1>1, <1>3, HolderStep DEF Adding, Deleting, At
<1>5. \A d \in ResolvedLink : SameDef(d)
  BY <1>1, <1>4 DEF SameDef, TableVal
<1>6. \A i \in Id \ {id} : Same(i)
  BY <1>1, <1>2, <1>4 DEF Same, ClaimsVal
<1>7. Same(id)
  <2>1. CASE id \in failed
    BY <2>1, <1>1 DEF Same, ClaimsVal
  <2>2. CASE id \notin failed
    <3>1. ctxLinks[id].refs # {}
      BY <2>2, <1>t, <1>1, <1>4 DEF TablesMatch, CtxWanted
    <3>2. ctxLinks[id].refs = {l}
      BY <3>1, <1>1
    <3> QED
      BY <2>2, <3>2, <1>1, <1>2, <1>4 DEF Same, ClaimsVal
  <2> QED
    BY <2>1, <2>2
<1> QED
  BY <1>1, <1>5, <1>6, <1>7, NoMove DEF Moves

\* What delete_linkdef takes out of host.links stays in force until it is announced.
LEMMA DelHostMoves ==
    ASSUME KeysDistinct, RegistryInv, RegistryInv', NEW l \in Link, DelHost(l)
    PROVE  Moves
<1>d. PICK ld : ld = task[l].ld
  OBVIOUS
<1> DEFINE id == IdOf(ld)
           h == HashOf(ld)
<1>t. /\ task[l].pc = "delHost" /\ ld \in ResolvedLink /\ id \in Id /\ h \in Hash
      /\ TypeOK /\ TablesMatch
  BY <1>d, TaskFacts, KeyType DEF DelHost, At, DelPcs, RegistryInv, TablesInv, TypeOK
<1>l. lock = l
  BY <1>t DEF RegistryInv, TablesInv, LockHeld, HeldPcs
<1>q. \A m \in Link \ {l} : task[m].pc \notin HeldPcs /\ task'[m] = task[m]
  BY OnlyInside DEF Inside
<1>v. CleanupId(l) = id
  BY <1>d, <1>t DEF TablesMatch, DelPart
<1>n. \A i : ~BeingAdded(i) /\ (BeingDeleted(i) <=> i = id) /\ ~Removed(i)
  BY <1>t, <1>q, <1>v, HolderStep DEF Adding, Deleting, At
<1>0. /\ UNCHANGED <<ctxLinks, told, failed, crashes>>
      /\ hostLinks[h] = NoLd => id \in failed
  BY <1>d, <1>v, DelHostMatch DEF DelHost, faultCounts
<1>1. CASE hostLinks[h] = NoLd
  <2>1. task'[l].pc = "release" /\ UNCHANGED hostLinks
    BY <1>d, <1>1, <1>t DEF DelHost, DeleteFailed, Goto, TypeOK
  <2>2. \A i : ~BeingAdded(i)' /\ ~BeingDeleted(i)' /\ ~Removed(i)'
    BY <1>q, <2>1, HolderStep DEF Adding, Deleting
  <2>3. \A i \in Id : Same(i)
    BY <1>0, <1>1, <1>n, <2>2 DEF Same, ClaimsVal
  <2>4. \A d \in ResolvedLink : SameDef(d)
    BY <1>0, <1>n, <2>1, <2>2 DEF SameDef, TableVal
  <2> QED
    BY <1>0, <2>3, <2>4, NoMove DEF Moves
<1>2. CASE hostLinks[h] # NoLd
  <2>1. /\ task'[l].pc = "delGroup" /\ task'[l].ld = hostLinks[h] /\ task'[l].obj = task[l].obj
        /\ lock' = lock
        /\ hostLinks' = [hostLinks EXCEPT ![h] = NoLd]
    BY <1>d, <1>2, <1>t DEF DelHost, Goto, TypeOK
  <2>2. CleanupId(l)' = id
    BY <1>v, <2>1 DEF CleanupId
  <2>3. \A i : ~BeingAdded(i)' /\ (BeingDeleted(i)' <=> i = id) /\ (Removed(i)' <=> i = id)
    BY <1>q, <2>1, <2>2, HolderStep DEF Adding, Deleting, At
  <2>4. \A i \in Id : Same(i)
    BY <1>0, <1>n, <2>1, <2>3 DEF Same, ClaimsVal
  <2>5. \A d \in ResolvedLink : SameDef(d)
    <3> SUFFICES ASSUME NEW d \in ResolvedLink PROVE TableVal(d)' = TableVal(d)
      BY DEF SameDef
    <3>1. CASE IdOf(d) = id
      <4>1. HashOf(d) = h
        BY <3>1, <1>t, SameKeys
      <4> QED
        BY <3>1, <4>1, <1>0, <1>l, <1>n, <2>1, <2>3 DEF TableVal
    <3>2. CASE IdOf(d) # id
      <4>1. HashOf(d) # h
        BY <3>2, <1>t, SameKeys
      <4>2. hostLinks'[HashOf(d)] = hostLinks[HashOf(d)]
        BY <4>1, <2>1, <1>t, KeyType DEF TypeOK
      <4> QED
        BY <3>2, <4>2, <1>0, <1>n, <2>3 DEF TableVal
    <3> QED
      BY <3>1, <3>2
  <2> QED
    BY <1>0, <2>4, <2>5, NoMove DEF Moves
<1> QED
  BY <1>1, <1>2

\* The change of the group's table is not seen.
LEMMA DelGroupMoves ==
    ASSUME KeysDistinct, RegistryInv, RegistryInv', NEW l \in Link, DelGroup(l)
    PROVE  Moves
<1>q. \A m \in Link \ {l} : task[m].pc \notin HeldPcs /\ task'[m] = task[m]
  BY OnlyInside DEF Inside
<1>1. /\ task[l].pc = "delGroup" /\ task'[l].pc = "delPublish"
      /\ task'[l].ld = task[l].ld /\ task'[l].obj = task[l].obj
      /\ UNCHANGED <<lock, ctxLinks, hostLinks, told, failed, crashes>>
  BY DEF DelGroup, At, Goto, RegistryInv, TablesInv, TypeOK, faultCounts
<1>2. lock = l
  BY <1>1 DEF RegistryInv, TablesInv, LockHeld, HeldPcs
<1>3. CleanupId(l)' = CleanupId(l)
  BY <1>1 DEF CleanupId
<1>4. \A i : /\ ~BeingAdded(i) /\ ~BeingAdded(i)'
             /\ BeingDeleted(i)' <=> BeingDeleted(i)
             /\ Removed(i)' <=> Removed(i)
  BY <1>q, <1>1, <1>3, HolderStep DEF Adding, Deleting, At
<1> QED
  BY <1>1, <1>2, <1>4, UnseenStep

\* The announcement of a deletion drops the definition.
LEMMA DelPublishMoves ==
    ASSUME KeysDistinct, RegistryInv, RegistryInv', NEW l \in Link, DelPublish(l)
    PROVE  Moves
<1>d. PICK ld : ld = task[l].ld
  OBVIOUS
<1> DEFINE id == IdOf(ld)
           h == HashOf(ld)
<1>t. /\ task[l].pc = "delPublish" /\ ld \in ResolvedLink /\ id \in Id /\ h \in Hash
      /\ TypeOK /\ TablesMatch
  BY <1>d, TaskFacts, KeyType DEF DelPublish, At, DelPcs, RegistryInv, TablesInv, TypeOK
<1>l. lock = l
  BY <1>t DEF RegistryInv, TablesInv, LockHeld, HeldPcs
<1>q. \A m \in Link \ {l} : task[m].pc \notin HeldPcs /\ task'[m] = task[m]
  BY OnlyInside DEF Inside
<1>v. CleanupId(l) = id /\ hostLinks[h] = NoLd /\ ctxLinks[id] # NoLd
  BY <1>d, <1>t DEF TablesMatch, DelPart
<1>n. \A i : ~BeingAdded(i) /\ (BeingDeleted(i) <=> i = id) /\ (Removed(i) <=> i = id)
  BY <1>t, <1>q, <1>v, HolderStep DEF Adding, Deleting, At
<1>1. /\ task'[l].pc = "release"
      /\ UNCHANGED <<hostLinks, failed, crashes>>
      /\ told' = told \ {ld}
      /\ ctxLinks' = [ctxLinks EXCEPT ![id] = NoLd]
  BY <1>d, <1>t, <1>v DEF DelPublish, Goto, TypeOK, faultCounts
<1>2. \A i : ~BeingAdded(i)' /\ ~BeingDeleted(i)' /\ ~Removed(i)'
  BY <1>q, <1>1, HolderStep DEF Adding, Deleting
<1>3. ctxLinks'[id] = NoLd /\ \A i \in Id \ {id} : ctxLinks'[i] = ctxLinks[i]
  BY <1>t, <1>1 DEF TypeOK
<1>4. \A i \in Id \ {id} : Same(i)
  BY <1>1, <1>2, <1>3, <1>n DEF Same, ClaimsVal
<1>5. \A d \in ResolvedLink : IdOf(d) # id => SameDef(d)
  BY <1>1, <1>2, <1>n DEF SameDef, TableVal
<1>6. CASE id \in failed
  <2>1. Same(id)
    BY <1>1, <1>6 DEF Same, ClaimsVal
  <2>2. \A d \in ResolvedLink : IdOf(d) = id => SameDef(d)
    BY <1>1, <1>6 DEF SameDef, TableVal
  <2>3. (\A i \in Id : Same(i)) /\ \A d \in ResolvedLink : SameDef(d)
    BY <1>4, <1>5, <2>1, <2>2
  <2> QED
    BY <1>t, <1>1, <1>6, <2>3, StrayMove DEF Moves
<1>7. CASE id \notin failed
  <2>1. ClaimsVal(id) = {l}
    BY <1>l, <1>n, <1>v, <1>7 DEF ClaimsVal
  <2>2. ClaimsVal(id)' = {}
    BY <1>3 DEF ClaimsVal
  <2>3. TableVal(ld) = ld
    BY <1>d, <1>l, <1>n, <1>7 DEF TableVal
  <2>4. TableVal(ld)' = NoLd
    BY <1>1, <1>2, <1>v, <1>7 DEF TableVal
  <2> QED
    BY <1>t, <1>1, <1>4, <1>5, <1>7, <2>1, <2>2, <2>3, <2>4, DropMove DEF Moves
<1> QED
  BY <1>6, <1>7

\* If it fails, the id is lost.
LEMMA DelPublishFailMoves ==
    ASSUME KeysDistinct, RegistryInv, RegistryInv', NEW l \in Link, DelPublishFail(l)
    PROVE  Moves
<1>d. PICK ld : ld = task[l].ld
  OBVIOUS
<1> DEFINE id == IdOf(ld)
<1>t. task[l].pc = "delPublish" /\ ld \in ResolvedLink /\ id = CleanupId(l)
  BY <1>d, TaskFacts
     DEF DelPublishFail, At, DelPcs, RegistryInv, TablesInv, TypeOK, TablesMatch, DelPart
<1>q. \A m \in Link \ {l} : task[m].pc \notin HeldPcs /\ task'[m] = task[m]
  BY OnlyInside DEF Inside
<1>1. /\ task'[l].pc = "release"
      /\ UNCHANGED <<ctxLinks, hostLinks, told, crashes>>
      /\ failed' = failed \cup {id}
  BY <1>t DEF DelPublishFail, DeleteFailed, Goto, RegistryInv, TablesInv, TypeOK
<1>2. \A i : /\ ~BeingAdded(i) /\ (BeingDeleted(i) => i = id) /\ (Removed(i) => i = id)
             /\ ~BeingAdded(i)' /\ ~BeingDeleted(i)' /\ ~Removed(i)'
  BY <1>q, <1>t, <1>1, HolderStep DEF Adding, Deleting
<1>3. \A i \in Id \ {id} : Same(i)
  BY <1>1, <1>2 DEF Same, ClaimsVal
<1>4. \A d \in ResolvedLink : IdOf(d) # id => SameDef(d)
  BY <1>1, <1>2 DEF SameDef, TableVal
<1> QED
  BY <1>t, <1>1, <1>3, <1>4, LoseMove DEF Moves

\* The steps of a task that does not hold ctx.links are not seen.
LEMMA OutsideMoves ==
    ASSUME KeysDistinct, RegistryInv, RegistryInv', NEW l \in Link, Outside(l)
    PROVE  Moves
<1>1. /\ UNCHANGED <<lock, ctxLinks, hostLinks, told, failed, crashes>>
      /\ \A m \in Link \ {l} : task'[m] = task[m]
      /\ task[l].pc \notin HeldPcs /\ task'[l].pc \notin HeldPcs
  BY OutsideFrame DEF RegistryInv, TablesInv
<1>2. \A id : ~Adding(l, id) /\ ~Deleting(l, id) /\ ~Adding(l, id)' /\ ~Deleting(l, id)'
  BY <1>1 DEF Adding, Deleting, HeldPcs
<1>3. \A id : \A m \in Link \ {l} : /\ Adding(m, id)' <=> Adding(m, id)
                                    /\ Deleting(m, id)' <=> Deleting(m, id)
                                    /\ At(m, "delHost")' <=> At(m, "delHost")
  BY <1>1 DEF Adding, Deleting, CleanupId, At
<1>4. \A id : /\ BeingAdded(id)' <=> BeingAdded(id)
              /\ BeingDeleted(id)' <=> BeingDeleted(id)
              /\ Removed(id)' <=> Removed(id)
  BY <1>2, <1>3 DEF BeingAdded, BeingDeleted, Removed
<1>5. \A id : Removed(id) => task'[lock].ld = task[lock].ld
  <2> SUFFICES ASSUME NEW id, NEW m \in Link, Deleting(m, id) PROVE task'[lock].ld = task[lock].ld
    BY DEF Removed
  <2> QED
    BY <1>1, <1>2, HolderIsLock
<1> QED
  BY <1>1, <1>4, <1>5, UnseenStep

\* The world is not seen in the register, but for a crash.
LEMMA WorldMoves ==
    ASSUME KeysDistinct, RegistryInv, RegistryInv',
           UNCHANGED <<task, lock, ctxLinks, hostLinks, told, failed, crashes>>
    PROVE  Moves
<1>1. \A id : /\ BeingAdded(id)' <=> BeingAdded(id)
              /\ BeingDeleted(id)' <=> BeingDeleted(id)
              /\ Removed(id)' <=> Removed(id)
  BY DEF BeingAdded, BeingDeleted, Removed, Adding, Deleting, CleanupId, At
<1> QED
  BY <1>1, UnseenStep

\* Every step is a step of the register, or unseen.
LEMMA StepMoves ==
    ASSUME KeysDistinct, Alone, RegistryInv, RegistryInv', [Next]_vars
    PROVE  Moves
<1>0. TypeOK
  BY DEF RegistryInv, TablesInv
<1>1. ASSUME NEW l \in Link, Start(l) \/ Acquire(l) \/ Step(l) PROVE Moves
  BY <1>1, TaskSteps, OutsideMoves, AddRefMoves, AddAcquireMoves, AddHostMoves, AddGroupMoves,
     AddPublishMoves, AddPublishFailMoves, DelRefMoves, DelAcquireMoves, DelHostMoves,
     DelGroupMoves, DelPublishMoves, DelPublishFailMoves
<1>2. CASE World
  BY <1>0, <1>2, WorldFrame, WorldMoves, RestartMove DEF Moves
<1>3. CASE UNCHANGED vars
  BY <1>3, WorldMoves DEF vars, tables, faultCounts
<1> QED
  BY <1>1, <1>2, <1>3 DEF Next

\* A host starts with an empty register.
LEMMA InitMoves ==
    ASSUME Init
    PROVE  R!Init
<1>1. /\ \A id \in Id : ctxLinks[id] = NoLd
      /\ \A h \in Hash : hostLinks[h] = NoLd
      /\ \A l \in Link : task[l].pc = "idle"
      /\ failed = {} /\ told = {} /\ crashes = 0
  BY DEF Init, NoCtxLinks, NoHostLinks, NoTasks, Idle
<1>2. \A id \in Id : ClaimsOf(id) = {}
  BY <1>1 DEF ClaimsOf
<1>3. \A id \in Id : InForce(id) = NoLd
  BY <1>1 DEF InForce, Deleting
<1> QED
  BY <1>1, <1>2, <1>3, SameNames DEF R!Init, R!NoClaims, R!NoTable

(***************************************************************************)
(* add_link and delete_link, which hold ctx.links across a change of       *)
(* host.links, of a group's table and an announcement, amount to a         *)
(* register that changes in one step: nobody joins a definition that is on *)
(* its way out, the last Link that leaves takes the definition with it and *)
(* the providers are told just that; a failed announcement loses its id    *)
(* until the host starts again, and a crash empties the register.  For any *)
(* number of links, crashes and failures, and any interleaving, on a host  *)
(* that is alone in its namespace: others publish on the same lattice.     *)
(***************************************************************************)
THEOREM LinksImplementTheRegistry ==
    ASSUME KeysDistinct, Peers = {}
    PROVE  Spec => LinksImplementRegistry
<1>1. Init => R!Init
  BY InitMoves
<1>2. RegistryInv /\ [Next]_vars => RegistryInv'
  BY RegistryStep
<1>3. RegistryInv /\ RegistryInv' /\ [Next]_vars => [R!Next]_(R!vars)
  BY StepMoves DEF Moves, Alone
<1> QED
  BY <1>1, <1>2, <1>3, InitMatch, PTL DEF Spec, LinksImplementRegistry, R!Spec

=============================================================================
