--------------------------- MODULE RegistryProofs ---------------------------
(***************************************************************************)
(* Theorems about the two tables of add_link and delete_link, ctx.links    *)
(* and host.links, and what the providers were told, for links whose keys  *)
(* in these tables are distinct (KeysDistinct: linkdef_hash concatenates   *)
(* three strings without a separator, and link_id joins them with dots).   *)
(***************************************************************************)
EXTENDS LinksRefinement, LinksProofs

----------------------------------------------------------------------------
(***************************************************************************)
(* The invariant.  The two tables hold the same links, except for the one  *)
(* that the holder of ctx.links is adding or deleting, and for those of    *)
(* which an announcement failed.                                           *)
(***************************************************************************)
BeingAdded(id) == \E l \in Link : Adding(l, id)
BeingDeleted(id) == \E l \in Link : Deleting(l, id)

\* The deletion of id has come past host.links.
Removed(id) == \E l \in Link : Deleting(l, id) /\ ~At(l, "delHost")

\* An entry of ctx.links is for the link of its id.
CtxKeyed == \A id \in Id : ctxLinks[id] # NoLd => IdOf(ctxLinks[id].ld) = id

\* A link that is counted is in host.links, until its deletion removes it there.
CtxHosted ==
    \A ld \in ResolvedLink :
        ctxLinks[IdOf(ld)] # NoLd /\ IdOf(ld) \notin failed /\ ~Removed(IdOf(ld))
            => hostLinks[HashOf(ld)] # NoLd

\* A link in host.links is counted and, as far as this host can know, announced,
\* or will be when its addition is over.
HostCounted ==
    \A h \in Hash :
        hostLinks[h] # NoLd /\ IdOf(hostLinks[h]) \notin failed
                            /\ ~BeingAdded(IdOf(hostLinks[h]))
            => ctxLinks[IdOf(hostLinks[h])] # NoLd /\ (Alone => hostLinks[h] \in told)

\* A link that is counted is wanted, until its deletion is over.
CtxWanted ==
    \A id \in Id :
        ctxLinks[id] # NoLd /\ id \notin failed /\ ~BeingDeleted(id)
            => ctxLinks[id].refs # {}

\* What the tables have for a task that is adding or deleting a link.
AddPart(l) ==
    LET ld == task[l].ld IN
    /\ task[l].pc \in {"addHost", "addGroup", "addPublish"} => ctxLinks[IdOf(ld)] = NoLd
    /\ task[l].pc \in {"addGroup", "addPublish"} => hostLinks[HashOf(ld)] = ld

DelPart(l) ==
    LET ld == task[l].ld IN
    /\ task[l].pc \in {"delHost", "delGroup", "delPublish"} =>
         /\ IdOf(ld) = CleanupId(l)
         /\ ctxLinks[IdOf(ld)] # NoLd
         /\ ctxLinks[IdOf(ld)].refs = {}
    /\ task[l].pc \in {"delGroup", "delPublish"} => hostLinks[HashOf(ld)] = NoLd

TablesMatch ==
    /\ CtxKeyed /\ CtxHosted /\ HostCounted /\ CtxWanted
    /\ \A l \in Link : AddPart(l) /\ DelPart(l)

RegistryInv == TablesInv /\ TablesMatch

----------------------------------------------------------------------------
\* Two definitions have the same hash just if they have the same id.
LEMMA SameKeys ==
    ASSUME KeysDistinct, NEW ld1 \in ResolvedLink, NEW ld2 \in ResolvedLink
    PROVE  /\ HashOf(ld1) = HashOf(ld2) <=> IdOf(ld1) = IdOf(ld2)
           /\ HashOf(ld1) = HashOf(ld2) <=> SameLink(ld1, ld2)
<1>1. SameLink(ld1, ld2) => HashOf(ld1) = HashOf(ld2) /\ IdOf(ld1) = IdOf(ld2)
  BY DEF SameLink, HashOf, IdOf
<1>2. HashOf(ld1) = HashOf(ld2) \/ IdOf(ld1) = IdOf(ld2) => SameLink(ld1, ld2)
  BY DEF KeysDistinct
<1> QED
  BY <1>1, <1>2

\* What the program counter of a task says about what it is doing to the tables.
LEMMA HolderPcs ==
    ASSUME NEW l, task[l].pc \notin HeldPcs
    PROVE  \A id : ~Adding(l, id) /\ ~Deleting(l, id)
BY DEF Adding, Deleting, HeldPcs

\* If nobody but l's task can hold ctx.links, what it does is all that is being done.
LEMMA OneHolder ==
    ASSUME NEW l \in Link, \A m \in Link \ {l} : task[m].pc \notin HeldPcs, NEW id
    PROVE  /\ BeingAdded(id) <=> Adding(l, id)
           /\ BeingDeleted(id) <=> Deleting(l, id)
           /\ Removed(id) <=> Deleting(l, id) /\ ~At(l, "delHost")
BY HolderPcs DEF BeingAdded, BeingDeleted, Removed

\* Nor does anybody hold it when it is free, or when another task holds it.
LEMMA Exclusive ==
    ASSUME TablesInv, NEW l \in Link, lock \in {l, Free}
    PROVE  \A m \in Link \ {l} : task[m].pc \notin HeldPcs
BY LinksAssumption DEF TablesInv, LockHeld

\* A task that does not change holds AddPart and DelPart as long as the tables
\* have the same for it; one that does not hold ctx.links has nothing to keep.
LEMMA IdlePart ==
    ASSUME NEW l \in Link, \A m \in Link \ {l} : task[m].pc \notin HeldPcs /\ task'[m] = task[m]
    PROVE  \A m \in Link \ {l} : AddPart(m)' /\ DelPart(m)'
BY DEF AddPart, DelPart, HeldPcs

\* If only l's task is at work before and after a step, TablesMatch is about it.
LEMMA HolderStep ==
    ASSUME NEW l \in Link, \A m \in Link \ {l} : task[m].pc \notin HeldPcs /\ task'[m] = task[m],
           NEW id
    PROVE  /\ BeingAdded(id) <=> Adding(l, id)
           /\ BeingDeleted(id) <=> Deleting(l, id)
           /\ Removed(id) <=> Deleting(l, id) /\ ~At(l, "delHost")
           /\ BeingAdded(id)' <=> Adding(l, id)'
           /\ BeingDeleted(id)' <=> Deleting(l, id)'
           /\ Removed(id)' <=> Deleting(l, id)' /\ ~At(l, "delHost")'
<1>1. \A m \in Link \ {l} : ~Adding(m, id)' /\ ~Deleting(m, id)'
  BY DEF Adding, Deleting, HeldPcs
<1> QED
  BY <1>1, OneHolder DEF BeingAdded, BeingDeleted, Removed

\* Steps that leave the tables alone, and what l's task is doing to them.
LEMMA FrameMatch ==
    ASSUME TablesMatch, NEW l \in Link,
           UNCHANGED <<ctxLinks, hostLinks, told, failed>>,
           \A m \in Link \ {l} : task'[m] = task[m],
           \A id : /\ Adding(l, id)' <=> Adding(l, id)
                   /\ Deleting(l, id)' <=> Deleting(l, id)
                   /\ Deleting(l, id) => (At(l, "delHost")' <=> At(l, "delHost")),
           AddPart(l)', DelPart(l)'
    PROVE  TablesMatch'
<1>1. \A m \in Link \ {l} : /\ \A id : /\ Adding(m, id)' <=> Adding(m, id)
                                       /\ Deleting(m, id)' <=> Deleting(m, id)
                            /\ At(m, "delHost")' <=> At(m, "delHost")
                            /\ AddPart(m)' /\ DelPart(m)'
  BY DEF Adding, Deleting, CleanupId, At, AddPart, DelPart, TablesMatch
<1>2. \A id : /\ BeingAdded(id)' <=> BeingAdded(id)
              /\ BeingDeleted(id)' <=> BeingDeleted(id)
              /\ Removed(id)' <=> Removed(id)
  BY <1>1 DEF BeingAdded, BeingDeleted, Removed
<1>3. CtxKeyed' /\ CtxHosted'
  BY <1>2 DEF TablesMatch, CtxKeyed, CtxHosted
<1>4. HostCounted' /\ CtxWanted'
  BY <1>2 DEF TablesMatch, HostCounted, CtxWanted
<1> QED
  BY <1>1, <1>3, <1>4 DEF TablesMatch

\* Steps of a task that does not hold ctx.links, before or after.
LEMMA QuietMatch ==
    ASSUME TablesMatch, NEW l \in Link,
           UNCHANGED <<ctxLinks, hostLinks, told, failed>>,
           \A m \in Link \ {l} : task'[m] = task[m],
           task[l].pc \notin HeldPcs, task'[l].pc \notin HeldPcs
    PROVE  TablesMatch'
<1>1. \A id : ~Adding(l, id) /\ ~Deleting(l, id)
  BY HolderPcs
<1>2. \A id : ~Adding(l, id)' /\ ~Deleting(l, id)'
  BY DEF Adding, Deleting, HeldPcs
<1>3. AddPart(l)' /\ DelPart(l)'
  BY DEF AddPart, DelPart, HeldPcs
<1> QED
  BY <1>1, <1>2, <1>3, FrameMatch

\* Only the names in one entry of ctx.links change.
LEMMA RefsUpdate ==
    ASSUME TypeOK, NEW id \in Id, ctxLinks[id] # NoLd, NEW r \in SUBSET Link,
           ctxLinks' = [ctxLinks EXCEPT ![id].refs = r]
    PROVE  /\ \A i \in Id \ {id} : ctxLinks'[i] = ctxLinks[i]
           /\ ctxLinks'[id] # NoLd
           /\ ctxLinks'[id].ld = ctxLinks[id].ld
           /\ ctxLinks'[id].refs = r
<1>1. ctxLinks \in [Id -> RefEntry \cup {NoLd}] /\ ctxLinks[id] \in RefEntry
  BY DEF TypeOK
<1>2. PICK d \in ResolvedLink, o \in SUBSET Link : ctxLinks[id] = [ld |-> d, refs |-> o]
  BY <1>1 DEF RefEntry
<1>3. ctxLinks'[id] = [ctxLinks[id] EXCEPT !.refs = r]
  BY <1>1
<1>4. ctxLinks'[id] = [ld |-> d, refs |-> r]
  BY <1>2, <1>3
<1>5. ctxLinks'[id] # NoLd
  BY <1>4, LinksAssumption
<1> QED
  BY <1>1, <1>2, <1>4, <1>5

----------------------------------------------------------------------------
\* add_link finds the entry of ctx.links occupied.
LEMMA AddRefMatch ==
    ASSUME RegistryInv, NEW l \in Link, AddRef(l)
    PROVE  TablesMatch'
<1> DEFINE ld == task[l].ld
           id == IdOf(ld)
<1>t. task[l].pc = "addLock" /\ ld \in ResolvedLink /\ id \in Id /\ TablesMatch
  BY TaskFacts, KeyType DEF AddRef, At, AddPcs, RegistryInv, TablesInv, TypeOK
<1>q. \A m \in Link \ {l} : task[m].pc \notin HeldPcs /\ task'[m] = task[m]
  BY Exclusive DEF AddRef, Goto, RegistryInv, TablesInv, TypeOK
<1>1. /\ task'[l].pc = "patch"
      /\ UNCHANGED <<hostLinks, told, failed>>
  BY DEF AddRef, Goto, RegistryInv, TablesInv, TypeOK
<1>2. /\ \A i \in Id \ {id} : ctxLinks'[i] = ctxLinks[i]
      /\ ctxLinks[id] # NoLd /\ ctxLinks'[id] # NoLd
      /\ ctxLinks'[id].ld = ctxLinks[id].ld
      /\ ctxLinks'[id].refs # {}
  <2>1. ctxLinks' = [ctxLinks EXCEPT ![id].refs = ctxLinks[id].refs \cup {l}]
    BY DEF AddRef
  <2>2. ctxLinks[id] \in RefEntry /\ ctxLinks[id] # NoLd /\ TypeOK
    BY <1>t DEF AddRef, RegistryInv, TablesInv, TypeOK
  <2>3. ctxLinks[id].refs \cup {l} \in SUBSET Link
    BY <2>2 DEF RefEntry
  <2>4. /\ \A i \in Id \ {id} : ctxLinks'[i] = ctxLinks[i]
        /\ ctxLinks'[id] # NoLd
        /\ ctxLinks'[id].ld = ctxLinks[id].ld
        /\ ctxLinks'[id].refs = ctxLinks[id].refs \cup {l}
    BY <1>t, <2>1, <2>2, <2>3, RefsUpdate
  <2> QED
    BY <2>2, <2>4
<1>3. \A i : /\ ~BeingAdded(i) /\ ~BeingDeleted(i) /\ ~Removed(i)
             /\ ~BeingAdded(i)' /\ ~BeingDeleted(i)' /\ ~Removed(i)'
  BY <1>t, <1>q, <1>1, HolderStep DEF Adding, Deleting
<1>4. CtxKeyed' /\ CtxHosted'
  BY <1>t, <1>1, <1>2, <1>3, KeyType DEF TablesMatch, CtxKeyed, CtxHosted
<1>5. HostCounted' /\ CtxWanted'
  BY <1>1, <1>2, <1>3, <1>t, KeyType DEF TablesMatch, HostCounted, CtxWanted, RegistryInv, TablesInv, TypeOK
<1>6. AddPart(l)' /\ DelPart(l)'
  BY <1>1 DEF AddPart, DelPart
<1> QED
  BY <1>4, <1>5, <1>6, <1>q, IdlePart DEF TablesMatch

\* add_link finds it vacant, and takes the lock.
LEMMA AddAcquireMatch ==
    ASSUME RegistryInv, NEW l \in Link, AddAcquire(l)
    PROVE  TablesMatch'
<1> DEFINE ld == task[l].ld
<1>t. task[l].pc = "addLock" /\ TablesMatch
  BY DEF AddAcquire, At, RegistryInv
<1>q. \A m \in Link \ {l} : task'[m] = task[m]
  BY DEF AddAcquire, Goto, RegistryInv, TablesInv, TypeOK
<1>1. /\ task'[l].pc = "addHost" /\ task'[l].ld = ld
      /\ UNCHANGED <<ctxLinks, hostLinks, told, failed>>
      /\ ctxLinks[IdOf(ld)] = NoLd
  BY DEF AddAcquire, Goto, RegistryInv, TablesInv, TypeOK, tables
<1>2. \A i : ~Adding(l, i) /\ ~Deleting(l, i) /\ ~Adding(l, i)' /\ ~Deleting(l, i)'
  BY <1>t, <1>1 DEF Adding, Deleting
<1>3. AddPart(l)' /\ DelPart(l)'
  BY <1>1 DEF AddPart, DelPart
<1> QED
  BY <1>t, <1>q, <1>1, <1>2, <1>3, FrameMatch

\* add_linkdef and host.links.  An occupied entry means that its announcement
\* had failed: otherwise ctx.links would have had it.
LEMMA AddHostMatch ==
    ASSUME KeysDistinct, RegistryInv, NEW l \in Link, AddHost(l)
    PROVE  /\ TablesMatch'
           /\ hostLinks[HashOf(task[l].ld)] # NoLd => IdOf(task[l].ld) \in failed
<1> DEFINE ld == task[l].ld
           id == IdOf(ld)
           h == HashOf(ld)
<1>t. task[l].pc = "addHost" /\ ld \in ResolvedLink /\ id \in Id /\ h \in Hash /\ TablesMatch
  BY TaskFacts, KeyType DEF AddHost, At, AddPcs, RegistryInv, TablesInv, TypeOK
<1>l. lock = l /\ TypeOK
  BY <1>t DEF RegistryInv, TablesInv, LockHeld, HeldPcs
<1>q. \A m \in Link \ {l} : task[m].pc \notin HeldPcs /\ task'[m] = task[m]
  BY <1>l, Exclusive DEF AddHost, Added, Goto, RegistryInv, TablesInv, TypeOK
<1>v. ctxLinks[id] = NoLd
  BY <1>t DEF TablesMatch, AddPart
<1>n. \A i : ~BeingAdded(i) /\ ~BeingDeleted(i) /\ ~Removed(i)
  BY <1>t, <1>q, HolderStep DEF Adding, Deleting
<1>k. \A g \in Hash : hostLinks[g] # NoLd => hostLinks[g] \in ResolvedLink /\ HashOf(hostLinks[g]) = g
  BY <1>l DEF TypeOK, RegistryInv, TablesInv, HostKeyed
<1>0. hostLinks[h] # NoLd => id \in failed
  <2> SUFFICES ASSUME hostLinks[h] # NoLd PROVE id \in failed
    OBVIOUS
  <2>1. IdOf(hostLinks[h]) = id
    BY <1>t, <1>k, SameKeys
  <2> QED
    BY <1>t, <1>n, <1>v, <2>1 DEF TablesMatch, HostCounted
<1>1. CASE hostLinks[h] = NoLd
  <2>1. /\ task'[l].pc = "addGroup" /\ task'[l].ld = ld
        /\ UNCHANGED <<ctxLinks, told, failed>>
        /\ hostLinks' = [hostLinks EXCEPT ![h] = ld]
    BY <1>1, <1>l DEF AddHost, Goto, TypeOK
  <2>2. \A i : /\ BeingAdded(i)' <=> i = id
               /\ ~BeingDeleted(i)' /\ ~Removed(i)'
    BY <1>q, <2>1, HolderStep DEF Adding, Deleting
  <2>3. CtxKeyed' /\ CtxWanted'
    BY <1>t, <1>n, <2>1, <2>2 DEF TablesMatch, CtxKeyed, CtxWanted
  <2>4. ld # NoLd /\ \A g \in Hash : hostLinks'[g] = IF g = h THEN ld ELSE hostLinks[g]
    BY <1>t, <1>l, <2>1, LinksAssumption DEF TypeOK
  <2>5. CtxHosted'
    BY <1>t, <1>n, <2>1, <2>2, <2>4, KeyType DEF TablesMatch, CtxHosted
  <2>6. HostCounted'
    BY <1>t, <1>n, <2>1, <2>2, <2>4 DEF TablesMatch, HostCounted
  <2>7. AddPart(l)' /\ DelPart(l)'
    BY <1>t, <1>v, <2>1, <2>4 DEF AddPart, DelPart
  <2> QED
    BY <1>0, <2>3, <2>5, <2>6, <2>7, <1>q, IdlePart DEF TablesMatch
<1>2. CASE hostLinks[h] # NoLd
  <2>1. /\ task'[l].pc = "patch"
        /\ UNCHANGED <<hostLinks, told, failed>>
        /\ ctxLinks' = [ctxLinks EXCEPT ![id] = [ld |-> ld, refs |-> {l}]]
    BY <1>2, <1>l DEF AddHost, Added, Goto, TypeOK
  <2>2. \A i : ~BeingAdded(i)' /\ ~BeingDeleted(i)' /\ ~Removed(i)'
    BY <1>q, <2>1, HolderStep DEF Adding, Deleting
  <2>3. /\ [ld |-> ld, refs |-> {l}] # NoLd
        /\ \A i \in Id : ctxLinks'[i] = IF i = id THEN [ld |-> ld, refs |-> {l}] ELSE ctxLinks[i]
    BY <1>t, <1>l, <2>1, LinksAssumption DEF TypeOK
  <2>4. CtxKeyed' /\ CtxWanted'
    BY <1>t, <1>n, <2>1, <2>2, <2>3 DEF TablesMatch, CtxKeyed, CtxWanted
  <2>5. CtxHosted'
    BY <1>0, <1>2, <1>t, <1>n, <2>1, <2>2, <2>3, KeyType DEF TablesMatch, CtxHosted
  <2>6. HostCounted'
    BY <1>t, <1>n, <1>k, <2>1, <2>2, <2>3, KeyType DEF TablesMatch, HostCounted
  <2>7. AddPart(l)' /\ DelPart(l)'
    BY <2>1 DEF AddPart, DelPart
  <2> QED
    BY <1>0, <2>4, <2>5, <2>6, <2>7, <1>q, IdlePart DEF TablesMatch
<1> QED
  BY <1>1, <1>2

\* add_linkdef and the group.
LEMMA AddGroupMatch ==
    ASSUME RegistryInv, NEW l \in Link, AddGroup(l)
    PROVE  TablesMatch'
<1>t. task[l].pc = "addGroup" /\ TablesMatch
  BY DEF AddGroup, At, RegistryInv
<1>q. \A m \in Link \ {l} : task'[m] = task[m]
  BY DEF AddGroup, Goto, RegistryInv, TablesInv, TypeOK
<1>1. /\ task'[l].pc = "addPublish" /\ task'[l].ld = task[l].ld
      /\ UNCHANGED <<ctxLinks, hostLinks, told, failed>>
  BY DEF AddGroup, Goto, RegistryInv, TablesInv, TypeOK
<1>2. \A i : /\ ~Deleting(l, i) /\ ~Deleting(l, i)'
             /\ Adding(l, i)' <=> Adding(l, i)
  BY <1>t, <1>1 DEF Adding, Deleting
<1>3. AddPart(l)' /\ DelPart(l)'
  BY <1>t, <1>1 DEF AddPart, DelPart, TablesMatch
<1> QED
  BY <1>t, <1>q, <1>1, <1>2, <1>3, FrameMatch

\* add_linkdef is over: the provider was told, the entry of ctx.links filled in.
LEMMA AddPublishMatch ==
    ASSUME KeysDistinct, RegistryInv, NEW l \in Link, AddPublish(l)
    PROVE  TablesMatch'
<1> DEFINE ld == task[l].ld
           id == IdOf(ld)
           h == HashOf(ld)
<1>t. task[l].pc = "addPublish" /\ ld \in ResolvedLink /\ id \in Id /\ h \in Hash /\ TablesMatch
  BY TaskFacts, KeyType DEF AddPublish, At, AddPcs, RegistryInv, TablesInv, TypeOK
<1>l. lock = l /\ TypeOK
  BY <1>t DEF RegistryInv, TablesInv, LockHeld, HeldPcs
<1>q. \A m \in Link \ {l} : task[m].pc \notin HeldPcs /\ task'[m] = task[m]
  BY <1>l, Exclusive DEF AddPublish, Added, Goto, RegistryInv, TablesInv, TypeOK
<1>v. ctxLinks[id] = NoLd /\ hostLinks[h] = ld /\ ld # NoLd
  BY <1>t, LinksAssumption DEF TablesMatch, AddPart
<1>n. \A i : (BeingAdded(i) => i = id) /\ ~BeingDeleted(i) /\ ~Removed(i)
  BY <1>t, <1>q, HolderStep DEF Adding, Deleting
<1>k. \A g \in Hash : hostLinks[g] # NoLd =>
        /\ hostLinks[g] \in ResolvedLink
        /\ IdOf(hostLinks[g]) = id => hostLinks[g] = ld
  BY <1>t, <1>l, <1>v, SameKeys DEF TypeOK, RegistryInv, TablesInv, HostKeyed
<1>1. /\ task'[l].pc = "patch"
      /\ UNCHANGED <<hostLinks, failed>>
      /\ told' = told \cup {ld}
      /\ ctxLinks' = [ctxLinks EXCEPT ![id] = [ld |-> ld, refs |-> {l}]]
  BY <1>l DEF AddPublish, Added, Goto, TypeOK
<1>2. \A i : ~BeingAdded(i)' /\ ~BeingDeleted(i)' /\ ~Removed(i)'
  BY <1>q, <1>1, HolderStep DEF Adding, Deleting
<1>3. /\ [ld |-> ld, refs |-> {l}] # NoLd
      /\ \A i \in Id : ctxLinks'[i] = IF i = id THEN [ld |-> ld, refs |-> {l}] ELSE ctxLinks[i]
  BY <1>t, <1>l, <1>1, LinksAssumption DEF TypeOK
<1>4. CtxKeyed' /\ CtxWanted'
  BY <1>t, <1>n, <1>1, <1>2, <1>3 DEF TablesMatch, CtxKeyed, CtxWanted
<1>5. CtxHosted'
  <2> SUFFICES ASSUME NEW d \in ResolvedLink, ctxLinks'[IdOf(d)] # NoLd, IdOf(d) \notin failed
               PROVE  hostLinks[HashOf(d)] # NoLd
    BY <1>1 DEF CtxHosted
  <2>1. CASE IdOf(d) = id
    BY <2>1, <1>t, <1>v, SameKeys
  <2>2. CASE IdOf(d) # id
    BY <2>2, <1>t, <1>n, <1>3, KeyType DEF TablesMatch, CtxHosted
  <2> QED
    BY <2>1, <2>2
<1>6. HostCounted'
  <2> SUFFICES ASSUME NEW g \in Hash, hostLinks[g] # NoLd, IdOf(hostLinks[g]) \notin failed
               PROVE  ctxLinks'[IdOf(hostLinks[g])] # NoLd /\ (Alone => hostLinks[g] \in told')
    BY <1>1 DEF HostCounted
  <2>1. CASE IdOf(hostLinks[g]) = id
    BY <2>1, <1>t, <1>k, <1>1, <1>3
  <2>2. CASE IdOf(hostLinks[g]) # id
    BY <2>2, <1>t, <1>n, <1>k, <1>1, <1>3, KeyType DEF TablesMatch, HostCounted
  <2> QED
    BY <2>1, <2>2
<1>7. AddPart(l)' /\ DelPart(l)'
  BY <1>1 DEF AddPart, DelPart
<1> QED
  BY <1>4, <1>5, <1>6, <1>7, <1>q, IdlePart DEF TablesMatch

\* The announcement failed: its id is one of which nothing is known.
LEMMA AddPublishFailMatch ==
    ASSUME RegistryInv, NEW l \in Link, AddPublishFail(l)
    PROVE  TablesMatch'
<1> DEFINE id == IdOf(task[l].ld)
<1>t. task[l].pc = "addPublish" /\ TablesMatch
  BY DEF AddPublishFail, At, RegistryInv
<1>l. lock = l
  BY <1>t DEF RegistryInv, TablesInv, LockHeld, HeldPcs
<1>q. \A m \in Link \ {l} : task[m].pc \notin HeldPcs /\ task'[m] = task[m]
  BY <1>l, Exclusive DEF AddPublishFail, Done, RegistryInv, TablesInv, TypeOK
<1>1. /\ task'[l].pc = "idle"
      /\ UNCHANGED <<ctxLinks, hostLinks, told>>
      /\ failed' = failed \cup {id}
  BY DEF AddPublishFail, Done, Idle, RegistryInv, TablesInv, TypeOK
<1>2. \A i : /\ (BeingAdded(i) => i = id) /\ ~BeingDeleted(i) /\ ~Removed(i)
             /\ ~BeingAdded(i)' /\ ~BeingDeleted(i)' /\ ~Removed(i)'
  BY <1>q, <1>t, <1>1, HolderStep DEF Adding, Deleting
<1>3. CtxKeyed' /\ CtxHosted'
  BY <1>t, <1>1, <1>2 DEF TablesMatch, CtxKeyed, CtxHosted
<1>4. HostCounted' /\ CtxWanted'
  BY <1>t, <1>1, <1>2 DEF TablesMatch, HostCounted, CtxWanted
<1>5. AddPart(l)' /\ DelPart(l)'
  BY <1>1 DEF AddPart, DelPart
<1> QED
  BY <1>3, <1>4, <1>5, <1>q, IdlePart DEF TablesMatch

\* delete_link and an entry that is vacant, or that others want too.
LEMMA DelRefMatch ==
    ASSUME RegistryInv, NEW l \in Link, DelRef(l)
    PROVE  TablesMatch'
<1> DEFINE id == CleanupId(l)
<1>t. task[l].pc = "delLock" /\ id \in Id /\ TablesMatch /\ TypeOK
  BY TaskFacts, FromStatusType, KeyType
     DEF DelRef, At, DelPcs, CleanupId, RegistryInv, TablesInv, TypeOK
<1>q. \A m \in Link \ {l} : task[m].pc \notin HeldPcs /\ task'[m] = task[m]
  BY Exclusive DEF DelRef, Goto, RegistryInv, TablesInv, TypeOK
<1>1. /\ task'[l].pc = "release"
      /\ UNCHANGED <<hostLinks, told, failed>>
  BY <1>t DEF DelRef, Goto, TypeOK
<1>2. CASE UNCHANGED ctxLinks
  BY <1>2, <1>q, <1>1, <1>t, QuietMatch DEF HeldPcs
<1>3. CASE /\ ctxLinks[id] # NoLd
           /\ ctxLinks[id].refs \ {l} # {}
           /\ ctxLinks' = [ctxLinks EXCEPT ![id].refs = @ \ {l}]
  <2>0. ctxLinks[id].refs \ {l} \in SUBSET Link
    BY <1>3, <1>t DEF TypeOK, RefEntry
  <2>1. /\ \A i \in Id \ {id} : ctxLinks'[i] = ctxLinks[i]
        /\ ctxLinks[id] # NoLd /\ ctxLinks'[id] # NoLd
        /\ ctxLinks'[id].ld = ctxLinks[id].ld
        /\ ctxLinks'[id].refs # {}
    BY <1>3, <1>t, <2>0, RefsUpdate
  <2>2. \A i : /\ ~BeingAdded(i) /\ ~BeingDeleted(i) /\ ~Removed(i)
               /\ ~BeingAdded(i)' /\ ~BeingDeleted(i)' /\ ~Removed(i)'
    BY <1>t, <1>q, <1>1, HolderStep DEF Adding, Deleting
  <2>3. CtxKeyed' /\ CtxHosted'
    BY <1>t, <1>1, <2>1, <2>2, KeyType DEF TablesMatch, CtxKeyed, CtxHosted
  <2>4. HostCounted' /\ CtxWanted'
    BY <1>t, <1>1, <2>1, <2>2, KeyType DEF TablesMatch, HostCounted, CtxWanted, TypeOK
  <2>5. AddPart(l)' /\ DelPart(l)'
    BY <1>1 DEF AddPart, DelPart
  <2> QED
    BY <2>3, <2>4, <2>5, <1>q, IdlePart DEF TablesMatch
<1> QED
  BY <1>2, <1>3 DEF DelRef

\* delete_link and an entry that nobody else wants.
LEMMA DelAcquireMatch ==
    ASSUME RegistryInv, NEW l \in Link, DelAcquire(l)
    PROVE  TablesMatch'
<1> DEFINE id == CleanupId(l)
<1>t. task[l].pc = "delLock" /\ id \in Id /\ TablesMatch /\ TypeOK
  BY TaskFacts, FromStatusType, KeyType
     DEF DelAcquire, At, DelPcs, CleanupId, RegistryInv, TablesInv, TypeOK
<1>q. \A m \in Link \ {l} : task[m].pc \notin HeldPcs /\ task'[m] = task[m]
  BY Exclusive DEF DelAcquire, Goto, RegistryInv, TablesInv, TypeOK
<1>1. /\ task'[l].pc = "delHost"
      /\ task'[l].ld = ctxLinks[id].ld
      /\ task'[l].obj = task[l].obj
      /\ UNCHANGED <<hostLinks, told, failed>>
  BY <1>t DEF DelAcquire, Goto, TypeOK
<1>2. /\ \A i \in Id \ {id} : ctxLinks'[i] = ctxLinks[i]
      /\ ctxLinks[id] # NoLd /\ ctxLinks'[id] # NoLd
      /\ ctxLinks'[id].ld = ctxLinks[id].ld
      /\ ctxLinks'[id].refs = {}
  BY <1>t, RefsUpdate DEF DelAcquire
<1>3. CleanupId(l)' = id
  BY <1>1 DEF CleanupId
<1>4. \A i : /\ ~BeingAdded(i) /\ ~BeingDeleted(i) /\ ~Removed(i)
             /\ ~BeingAdded(i)' /\ ~Removed(i)'
             /\ BeingDeleted(i)' <=> i = id
  BY <1>t, <1>q, <1>1, <1>3, HolderStep DEF Adding, Deleting, At
<1>5. CtxKeyed' /\ CtxHosted'
  BY <1>t, <1>1, <1>2, <1>4, KeyType DEF TablesMatch, CtxKeyed, CtxHosted
<1>6. HostCounted' /\ CtxWanted'
  BY <1>t, <1>1, <1>2, <1>4, KeyType DEF TablesMatch, HostCounted, CtxWanted, TypeOK
<1>7. AddPart(l)' /\ DelPart(l)'
  <2>1. IdOf(ctxLinks[id].ld) = id
    BY <1>t, <1>2 DEF TablesMatch, CtxKeyed
  <2> QED
    BY <1>1, <1>2, <1>3, <2>1 DEF AddPart, DelPart
<1> QED
  BY <1>5, <1>6, <1>7, <1>q, IdlePart DEF TablesMatch

\* delete_linkdef and host.links.  A vacant entry means that an announcement of
\* the link had failed.
LEMMA DelHostMatch ==
    ASSUME KeysDistinct, RegistryInv, NEW l \in Link, DelHost(l)
    PROVE  /\ TablesMatch'
           /\ hostLinks[HashOf(task[l].ld)] = NoLd => CleanupId(l) \in failed
<1> DEFINE ld == task[l].ld
           id == CleanupId(l)
           h == HashOf(ld)
<1>t. /\ task[l].pc = "delHost" /\ ld \in ResolvedLink /\ h \in Hash
      /\ TablesMatch /\ TypeOK
  BY TaskFacts, KeyType DEF DelHost, At, DelPcs, RegistryInv, TablesInv, TypeOK
<1>l. lock = l
  BY <1>t DEF RegistryInv, TablesInv, LockHeld, HeldPcs
<1>q. \A m \in Link \ {l} : task[m].pc \notin HeldPcs /\ task'[m] = task[m]
  BY <1>l, Exclusive DEF DelHost, DeleteFailed, Goto, RegistryInv, TablesInv, TypeOK
<1>v. IdOf(ld) = id /\ ctxLinks[id] # NoLd /\ ctxLinks[id].refs = {}
  BY <1>t DEF TablesMatch, DelPart
<1>n. \A i : ~BeingAdded(i) /\ (BeingDeleted(i) <=> i = id) /\ ~Removed(i)
  BY <1>t, <1>q, HolderStep DEF Adding, Deleting, At
<1>k. \A g \in Hash : hostLinks[g] # NoLd => hostLinks[g] \in ResolvedLink /\ HashOf(hostLinks[g]) = g
  BY <1>t DEF TypeOK, RegistryInv, TablesInv, HostKeyed
<1>0. hostLinks[h] = NoLd => id \in failed
  BY <1>t, <1>n, <1>v DEF TablesMatch, CtxHosted
<1>1. CASE hostLinks[h] = NoLd
  <2>1. /\ task'[l].pc = "release"
        /\ UNCHANGED <<ctxLinks, hostLinks, told, failed>>
    BY <1>1, <1>t DEF DelHost, DeleteFailed, Goto, TypeOK
  <2>2. \A i : ~BeingAdded(i)' /\ ~BeingDeleted(i)' /\ ~Removed(i)'
    BY <1>q, <2>1, HolderStep DEF Adding, Deleting
  <2>3. CtxKeyed' /\ CtxHosted'
    BY <1>t, <1>n, <2>1, <2>2 DEF TablesMatch, CtxKeyed, CtxHosted
  <2>4. HostCounted' /\ CtxWanted'
    BY <1>0, <1>1, <1>t, <1>n, <2>1, <2>2 DEF TablesMatch, HostCounted, CtxWanted
  <2>5. AddPart(l)' /\ DelPart(l)'
    BY <2>1 DEF AddPart, DelPart
  <2> QED
    BY <1>0, <2>3, <2>4, <2>5, <1>q, IdlePart DEF TablesMatch
<1>2. CASE hostLinks[h] # NoLd
  <2>1. /\ task'[l].pc = "delGroup" /\ task'[l].ld = hostLinks[h] /\ task'[l].obj = task[l].obj
        /\ UNCHANGED <<ctxLinks, told, failed>>
        /\ hostLinks' = [hostLinks EXCEPT ![h] = NoLd]
    BY <1>2, <1>t DEF DelHost, Goto, TypeOK
  <2>2. CleanupId(l)' = id
    BY <2>1 DEF CleanupId
  <2>3. IdOf(hostLinks[h]) = id
    BY <1>2, <1>t, <1>k, <1>v, SameKeys
  <2>4. \A i : ~BeingAdded(i)' /\ (BeingDeleted(i)' <=> i = id) /\ (Removed(i)' <=> i = id)
    BY <1>q, <2>1, <2>2, HolderStep DEF Adding, Deleting, At
  <2>5. \A g \in Hash : hostLinks'[g] = IF g = h THEN NoLd ELSE hostLinks[g]
    BY <1>t, <2>1 DEF TypeOK
  <2>6. CtxKeyed' /\ CtxWanted'
    BY <1>t, <1>n, <2>1, <2>4 DEF TablesMatch, CtxKeyed, CtxWanted
  <2>7. CtxHosted'
    <3> SUFFICES ASSUME NEW d \in ResolvedLink, ctxLinks[IdOf(d)] # NoLd,
                        IdOf(d) \notin failed, IdOf(d) # id
                 PROVE  hostLinks'[HashOf(d)] # NoLd
      BY <2>1, <2>4 DEF CtxHosted
    <3>1. HashOf(d) # h /\ HashOf(d) \in Hash
      BY <1>t, <1>v, SameKeys, KeyType
    <3> QED
      BY <3>1, <2>5, <1>t, <1>n DEF TablesMatch, CtxHosted
  <2>8. HostCounted'
    BY <1>t, <1>n, <2>1, <2>4, <2>5 DEF TablesMatch, HostCounted
  <2>9. AddPart(l)' /\ DelPart(l)'
    <3>1. HashOf(hostLinks[h]) = h
      BY <1>2, <1>t, <1>k
    <3> QED
      BY <1>t, <1>v, <2>1, <2>2, <2>3, <2>5, <3>1 DEF AddPart, DelPart
  <2> QED
    BY <1>0, <1>2, <2>6, <2>7, <2>8, <2>9, <1>q, IdlePart DEF TablesMatch
<1> QED
  BY <1>1, <1>2

\* delete_linkdef and the group.
LEMMA DelGroupMatch ==
    ASSUME RegistryInv, NEW l \in Link, DelGroup(l)
    PROVE  TablesMatch'
<1>t. task[l].pc = "delGroup" /\ TablesMatch
  BY DEF DelGroup, At, RegistryInv
<1>q. \A m \in Link \ {l} : task'[m] = task[m]
  BY DEF DelGroup, Goto, RegistryInv, TablesInv, TypeOK
<1>1. /\ task'[l].pc = "delPublish" /\ task'[l].ld = task[l].ld /\ task'[l].obj = task[l].obj
      /\ UNCHANGED <<ctxLinks, hostLinks, told, failed>>
  BY DEF DelGroup, Goto, RegistryInv, TablesInv, TypeOK
<1>2. CleanupId(l)' = CleanupId(l)
  BY <1>1 DEF CleanupId
<1>3. \A i : /\ ~Adding(l, i) /\ ~Adding(l, i)'
             /\ Deleting(l, i)' <=> Deleting(l, i)
             /\ ~At(l, "delHost") /\ ~At(l, "delHost")'
  BY <1>t, <1>1, <1>2 DEF Adding, Deleting, At
<1>4. AddPart(l)' /\ DelPart(l)'
  BY <1>t, <1>1, <1>2 DEF AddPart, DelPart, TablesMatch
<1> QED
  BY <1>t, <1>q, <1>1, <1>3, <1>4, FrameMatch

\* delete_linkdef is over: the provider was told, the entry of ctx.links is gone.
LEMMA DelPublishMatch ==
    ASSUME KeysDistinct, RegistryInv, NEW l \in Link, DelPublish(l)
    PROVE  TablesMatch'
<1> DEFINE ld == task[l].ld
           id == CleanupId(l)
           h == HashOf(ld)
<1>t. /\ task[l].pc = "delPublish" /\ ld \in ResolvedLink /\ h \in Hash /\ IdOf(ld) \in Id
      /\ TablesMatch /\ TypeOK
  BY TaskFacts, KeyType DEF DelPublish, At, DelPcs, RegistryInv, TablesInv, TypeOK
<1>l. lock = l
  BY <1>t DEF RegistryInv, TablesInv, LockHeld, HeldPcs
<1>q. \A m \in Link \ {l} : task[m].pc \notin HeldPcs /\ task'[m] = task[m]
  BY <1>l, Exclusive DEF DelPublish, Goto, RegistryInv, TablesInv, TypeOK
<1>v. IdOf(ld) = id /\ hostLinks[h] = NoLd
  BY <1>t DEF TablesMatch, DelPart
<1>n. \A i : ~BeingAdded(i) /\ (BeingDeleted(i) <=> i = id) /\ (Removed(i) <=> i = id)
  BY <1>t, <1>q, HolderStep DEF Adding, Deleting, At
<1>k. \A g \in Hash : hostLinks[g] # NoLd =>
        hostLinks[g] \in ResolvedLink /\ IdOf(hostLinks[g]) # id
  BY <1>t, <1>v, SameKeys DEF TypeOK, RegistryInv, TablesInv, HostKeyed
<1>1. /\ task'[l].pc = "release"
      /\ UNCHANGED <<hostLinks, failed>>
      /\ told' = told \ {ld}
      /\ ctxLinks' = [ctxLinks EXCEPT ![id] = NoLd]
  BY <1>t DEF DelPublish, Goto, TypeOK
<1>2. \A i : ~BeingAdded(i)' /\ ~BeingDeleted(i)' /\ ~Removed(i)'
  BY <1>q, <1>1, HolderStep DEF Adding, Deleting
<1>3. \A i \in Id : ctxLinks'[i] = IF i = id THEN NoLd ELSE ctxLinks[i]
  BY <1>t, <1>1 DEF TypeOK
<1>4. CtxKeyed' /\ CtxWanted'
  BY <1>t, <1>n, <1>1, <1>2, <1>3 DEF TablesMatch, CtxKeyed, CtxWanted
<1>5. CtxHosted'
  BY <1>t, <1>n, <1>1, <1>2, <1>3, KeyType DEF TablesMatch, CtxHosted
<1>6. HostCounted'
  <2> SUFFICES ASSUME NEW g \in Hash, hostLinks[g] # NoLd, IdOf(hostLinks[g]) \notin failed
               PROVE  ctxLinks'[IdOf(hostLinks[g])] # NoLd /\ (Alone => hostLinks[g] \in told')
    BY <1>1 DEF HostCounted
  <2>1. IdOf(hostLinks[g]) \in Id /\ IdOf(hostLinks[g]) # id
    BY <1>k, KeyType
  <2>2. ctxLinks[IdOf(hostLinks[g])] # NoLd /\ (Alone => hostLinks[g] \in told)
    BY <1>t, <1>n DEF TablesMatch, HostCounted
  <2> QED
    BY <1>1, <1>3, <1>v, <2>1, <2>2
<1>7. AddPart(l)' /\ DelPart(l)'
  BY <1>1 DEF AddPart, DelPart
<1> QED
  BY <1>4, <1>5, <1>6, <1>7, <1>q, IdlePart DEF TablesMatch

\* The announcement failed.
LEMMA DelPublishFailMatch ==
    ASSUME RegistryInv, NEW l \in Link, DelPublishFail(l)
    PROVE  TablesMatch'
<1> DEFINE id == CleanupId(l)
<1>t. task[l].pc = "delPublish" /\ TablesMatch
  BY DEF DelPublishFail, At, RegistryInv
<1>l. lock = l
  BY <1>t DEF RegistryInv, TablesInv, LockHeld, HeldPcs
<1>q. \A m \in Link \ {l} : task[m].pc \notin HeldPcs /\ task'[m] = task[m]
  BY <1>l, Exclusive DEF DelPublishFail, DeleteFailed, Goto, RegistryInv, TablesInv, TypeOK
<1>1. /\ task'[l].pc = "release"
      /\ UNCHANGED <<ctxLinks, hostLinks, told>>
      /\ failed' = failed \cup {id}
  BY DEF DelPublishFail, DeleteFailed, Goto, RegistryInv, TablesInv, TypeOK
<1>2. \A i : /\ ~BeingAdded(i) /\ (BeingDeleted(i) => i = id) /\ (Removed(i) => i = id)
             /\ ~BeingAdded(i)' /\ ~BeingDeleted(i)' /\ ~Removed(i)'
  BY <1>q, <1>t, <1>1, HolderStep DEF Adding, Deleting
<1>3. CtxKeyed' /\ CtxHosted'
  BY <1>t, <1>1, <1>2 DEF TablesMatch, CtxKeyed, CtxHosted
<1>4. HostCounted' /\ CtxWanted'
  BY <1>t, <1>1, <1>2 DEF TablesMatch, HostCounted, CtxWanted
<1>5. AddPart(l)' /\ DelPart(l)'
  BY <1>1 DEF AddPart, DelPart
<1> QED
  BY <1>3, <1>4, <1>5, <1>q, IdlePart DEF TablesMatch

----------------------------------------------------------------------------
\* The steps of a task that does not hold ctx.links.
Outside(l) ==
    \/ Start(l) \/ AddFinalizer(l) \/ ResolveActor(l) \/ ResolveProvider(l)
    \/ PatchStatus(l) \/ PatchStatusFail(l) \/ Release(l) \/ ReleaseFail(l) \/ ResolveFail(l)

\* Such a step changes neither the tables nor the lock nor another task.
LEMMA OutsideFrame ==
    ASSUME TypeOK, NEW l \in Link, Outside(l)
    PROVE  /\ UNCHANGED <<lock, ctxLinks, hostLinks, told, failed, crashes>>
           /\ \A m \in Link \ {l} : task'[m] = task[m]
           /\ task[l].pc \notin HeldPcs /\ task'[l].pc \notin HeldPcs
<1> USE DEF At, Goto, Done, Requeue, Idle, tables, faultCounts, HeldPcs
<1>t. task \in [Link -> Task]
  BY DEF TypeOK
<1>1. CASE Start(l)
  BY <1>1, <1>t DEF Start, StartFinalize, StartApply, StartCleanup, Begin
<1>2. CASE AddFinalizer(l) \/ Release(l) \/ ReleaseFail(l) \/ ResolveFail(l)
  BY <1>2, <1>t DEF AddFinalizer, Release, ReleaseFail, ResolveFail
<1>3. CASE ResolveActor(l)
  <2>1. Done(l) \/ \E ld : Goto(l, "resolveProvider", ld)
    BY <1>3 DEF ResolveActor
  <2>2. task[l].pc = "resolveActor" /\ UNCHANGED <<lock, ctxLinks, hostLinks, told, failed, crashes>>
    BY <1>3 DEF ResolveActor
  <2> QED
    BY <1>t, <2>1, <2>2
<1>4. CASE ResolveProvider(l)
  <2>1. Done(l) \/ \E ld : Goto(l, "addLock", ld)
    BY <1>4 DEF ResolveProvider
  <2>2. task[l].pc = "resolveProvider" /\ UNCHANGED <<lock, ctxLinks, hostLinks, told, failed, crashes>>
    BY <1>4 DEF ResolveProvider
  <2> QED
    BY <1>t, <2>1, <2>2
<1>5. CASE PatchStatus(l) \/ PatchStatusFail(l)
  BY <1>5, <1>t DEF PatchStatus, PatchStatusFail
<1> QED
  BY <1>1, <1>2, <1>3, <1>4, <1>5 DEF Outside

\* The steps with ctx.links, and all others.
LEMMA TaskSteps ==
    ASSUME NEW l \in Link, Start(l) \/ Acquire(l) \/ Step(l)
    PROVE  \/ Outside(l)
           \/ AddRef(l) \/ AddAcquire(l) \/ DelRef(l) \/ DelAcquire(l)
           \/ AddHost(l) \/ AddGroup(l) \/ AddPublish(l) \/ AddPublishFail(l)
           \/ DelHost(l) \/ DelGroup(l) \/ DelPublish(l) \/ DelPublishFail(l)
BY DEF Acquire, Step, Outside

\* The world changes none of the tables, but for a crash, and only other hosts
\* change what providers are told.
LEMMA WorldFrame ==
    ASSUME World
    PROVE  \/ Crash
           \/ /\ UNCHANGED <<task, lock, ctxLinks, hostLinks, failed, crashes>>
              /\ Alone => UNCHANGED told
BY DEF World, Create, Delete, Watch, Resync, PeerWatch, PeerPatch, PeerPublish, NewGroup, DropGroup,
       SetActor, SetProvider, local, tables, faultCounts, Alone

\* Nothing of TablesMatch is seen in other variables.
LEMMA SameTables ==
    ASSUME TablesMatch, UNCHANGED <<task, ctxLinks, hostLinks, failed>>, Alone => UNCHANGED told
    PROVE  TablesMatch'
<1>1. \A id : /\ BeingAdded(id)' <=> BeingAdded(id)
              /\ BeingDeleted(id)' <=> BeingDeleted(id)
              /\ Removed(id)' <=> Removed(id)
  BY DEF BeingAdded, BeingDeleted, Removed, Adding, Deleting, CleanupId, At
<1>2. CtxKeyed' /\ CtxHosted' /\ HostCounted' /\ CtxWanted'
  BY <1>1 DEF TablesMatch, CtxKeyed, CtxHosted, HostCounted, CtxWanted
<1>3. \A l \in Link : AddPart(l)' /\ DelPart(l)'
  BY DEF TablesMatch, AddPart, DelPart, CleanupId
<1> QED
  BY <1>2, <1>3 DEF TablesMatch

\* A process starts with tables that match.
LEMMA EmptyMatch ==
    ASSUME task = NoTasks, ctxLinks = NoCtxLinks, hostLinks = NoHostLinks
    PROVE  TablesMatch
<1>1. \A id \in Id : ctxLinks[id] = NoLd
  BY DEF NoCtxLinks
<1>2. \A h \in Hash : hostLinks[h] = NoLd
  BY DEF NoHostLinks
<1>3. \A l \in Link : task[l].pc = "idle"
  BY DEF NoTasks, Idle
<1>4. CtxKeyed /\ CtxHosted /\ HostCounted /\ CtxWanted
  BY <1>1, <1>2, KeyType DEF CtxKeyed, CtxHosted, HostCounted, CtxWanted
<1>5. \A l \in Link : AddPart(l) /\ DelPart(l)
  BY <1>3 DEF AddPart, DelPart
<1> QED
  BY <1>4, <1>5 DEF TablesMatch

\* A host starts with tables that match.
LEMMA InitMatch == Init => RegistryInv
BY InitAgrees, EmptyMatch DEF Init, RegistryInv

\* Every step keeps the two tables and the announcements matched.
LEMMA RegistryStep ==
    ASSUME KeysDistinct, RegistryInv, [Next]_vars
    PROVE  RegistryInv'
<1>0. TablesInv' /\ TablesMatch /\ TypeOK
  BY StepAgrees DEF RegistryInv, TablesInv
<1>1. ASSUME NEW l \in Link, Start(l) \/ Acquire(l) \/ Step(l) PROVE TablesMatch'
  <2>1. CASE Outside(l)
    BY <2>1, <1>0, OutsideFrame, QuietMatch
  <2>2. CASE \/ AddRef(l) \/ AddAcquire(l) \/ AddHost(l) \/ AddGroup(l)
             \/ AddPublish(l) \/ AddPublishFail(l)
    BY <2>2, AddRefMatch, AddAcquireMatch, AddHostMatch, AddGroupMatch, AddPublishMatch,
       AddPublishFailMatch
  <2>3. CASE \/ DelRef(l) \/ DelAcquire(l) \/ DelHost(l) \/ DelGroup(l)
             \/ DelPublish(l) \/ DelPublishFail(l)
    BY <2>3, DelRefMatch, DelAcquireMatch, DelHostMatch, DelGroupMatch, DelPublishMatch,
       DelPublishFailMatch
  <2> QED
    BY <1>1, <2>1, <2>2, <2>3, TaskSteps
<1>2. ASSUME Crash PROVE TablesMatch'
  <2>1. task' = NoTasks /\ ctxLinks' = NoCtxLinks /\ hostLinks' = NoHostLinks
    BY <1>2 DEF Crash
  <2>2. \A id \in Id : ctxLinks'[id] = NoLd
    BY <2>1 DEF NoCtxLinks
  <2>3. \A h \in Hash : hostLinks'[h] = NoLd
    BY <2>1 DEF NoHostLinks
  <2>4. \A l \in Link : task'[l].pc = "idle"
    BY <2>1 DEF NoTasks, Idle
  <2>5. CtxKeyed' /\ CtxHosted' /\ HostCounted' /\ CtxWanted'
    BY <2>2, <2>3, KeyType DEF CtxKeyed, CtxHosted, HostCounted, CtxWanted
  <2>6. \A l \in Link : AddPart(l)' /\ DelPart(l)'
    BY <2>4 DEF AddPart, DelPart
  <2> QED
    BY <2>5, <2>6 DEF TablesMatch
<1>3. ASSUME World PROVE TablesMatch'
  BY <1>3, <1>2, <1>0, WorldFrame, SameTables
<1>4. ASSUME UNCHANGED vars PROVE TablesMatch'
  BY <1>4, <1>0, SameTables DEF vars, tables
<1>5. TablesMatch'
  BY <1>1, <1>3, <1>4 DEF Next
<1> QED
  BY <1>0, <1>5 DEF RegistryInv

----------------------------------------------------------------------------
(***************************************************************************)
(* A settled link is established.  What this needs to know of a task: it   *)
(* handles the event its copy of the object calls for, with the definition *)
(* in the copy's status if that has one; the copy is the reflector's       *)
(* unless a new request is pending; and when it comes to the status, its   *)
(* link is counted.                                                        *)
(***************************************************************************)
RightEvent(l) ==
    LET t == task[l] IN
    /\ t.pc = "finalize" => K!NeedsFinalizer(t.obj)
    /\ t.pc \in AddPcs \cup {"resolveActor", "resolveProvider"} => K!IsApply(t.obj)
    /\ t.pc \in DelPcs \cup {"release"} => K!IsCleanup(t.obj)
    /\ t.pc \in {"resolveActor", "resolveProvider"} => ~UsableStatus(t.obj)
    /\ t.pc \in AddPcs /\ UsableStatus(t.obj) => t.ld = FromStatus(t.obj)

UpToDate(l) ==
    l \notin queue /\ store[l] # NoObject /\ ~At(l, "idle") => task[l].obj = store[l]

Counted(l, id) == ctxLinks[id] # NoLd /\ l \in ctxLinks[id].refs

Claimed(l) ==
    At(l, "patch") /\ IdOf(task[l].ld) \notin failed => Counted(l, IdOf(task[l].ld))

Kept(l) ==
    Settled(l) /\ UsableStatus(store[l]) /\ IdOf(FromStatus(store[l])) \notin failed
        => Counted(l, IdOf(FromStatus(store[l])))

TaskInv(l) == RightEvent(l) /\ UpToDate(l) /\ Claimed(l) /\ Kept(l)

EstablishedInv == RegistryInv /\ \A l \in Link : TaskInv(l)

\* Nothing is to be kept for a task that is elsewhere in its reconciliation.
LEMMA OnTheWay ==
    ASSUME NEW l, ~At(l, "idle")', RightEvent(l)', Claimed(l)',
           UpToDate(l), ~At(l, "idle"), task'[l].obj = task[l].obj,
           store' = store, queue' = queue
    PROVE  TaskInv(l)'
BY DEF TaskInv, UpToDate, Kept, Settled

\* A reconciliation ends.
LEMMA AtTheEnd ==
    ASSUME NEW l, At(l, "idle")', UpToDate(l), ~At(l, "idle"),
           store' = store, l \in queue => l \in queue',
           NEW id, id = IdOf(FromStatus(task[l].obj)),
           K!IsApply(task[l].obj) /\ UsableStatus(task[l].obj) /\ id \notin failed' => Counted(l, id)'
    PROVE  TaskInv(l)'
<1>1. RightEvent(l)' /\ UpToDate(l)' /\ Claimed(l)'
  BY DEF At, RightEvent, AddPcs, DelPcs, UpToDate, Claimed
<1>2. Kept(l)'
  <2> SUFFICES ASSUME Settled(l)', UsableStatus(store[l]),
                      IdOf(FromStatus(store[l])) \notin failed'
               PROVE  /\ Counted(l, id)'
                      /\ id = IdOf(FromStatus(store[l]))
    BY DEF Kept, Counted
  <2>1. l \notin queue /\ K!IsApply(store[l]) /\ store[l] # NoObject
    BY DEF Settled, K!IsApply
  <2>2. task[l].obj = store[l]
    BY <2>1 DEF UpToDate
  <2> QED
    BY <2>1, <2>2
<1> QED
  BY <1>1, <1>2 DEF TaskInv

\* A step of one task does not take another's name out of ctx.links.
LEMMA OthersStayCounted ==
    ASSUME RegistryInv, NEW l \in Link, Start(l) \/ Acquire(l) \/ Step(l),
           NEW m \in Link \ {l}, NEW id \in Id, Counted(m, id)
    PROVE  Counted(m, id)'
<1> USE DEF Counted
<1>t. TypeOK /\ task[l] \in Task /\ TablesMatch
  BY DEF RegistryInv, TablesInv, TypeOK
<1>e. ctxLinks[id] \in RefEntry
  BY <1>t DEF TypeOK
<1>1. CASE UNCHANGED ctxLinks
  BY <1>1
<1>2. CASE AddRef(l)
  <2>1. PICK i \in Id : /\ ctxLinks[i] # NoLd
                        /\ ctxLinks' = [ctxLinks EXCEPT ![i].refs = ctxLinks[i].refs \cup {l}]
    BY <1>2, <1>t, TaskFacts, KeyType DEF AddRef, At, AddPcs
  <2>2. ctxLinks[i].refs \cup {l} \in SUBSET Link
    BY <2>1, <1>t DEF TypeOK, RefEntry
  <2>3. /\ \A j \in Id \ {i} : ctxLinks'[j] = ctxLinks[j]
        /\ ctxLinks'[i] # NoLd
        /\ ctxLinks'[i].refs = ctxLinks[i].refs \cup {l}
    BY <1>t, <2>1, <2>2, RefsUpdate
  <2> QED
    BY <2>3
<1>3. CASE AddHost(l) \/ AddPublish(l)
  <2>1. CASE Added(l)
    <3>1. task[l].pc \in {"addHost", "addPublish"}
      BY <1>3 DEF AddHost, AddPublish, At
    <3>2. ctxLinks[IdOf(task[l].ld)] = NoLd
      BY <1>t, <3>1 DEF TablesMatch, AddPart
    <3> QED
      BY <1>t, <2>1, <3>2 DEF Added, TypeOK
  <2> QED
    BY <1>1, <1>3, <2>1 DEF AddHost, AddPublish
<1>4. CASE DelRef(l) /\ ~UNCHANGED ctxLinks
  <2>1. PICK i \in Id : /\ ctxLinks[i] # NoLd
                        /\ ctxLinks' = [ctxLinks EXCEPT ![i].refs = ctxLinks[i].refs \ {l}]
    BY <1>4, <1>t, TaskFacts, KeyType, FromStatusType DEF DelRef, At, DelPcs, CleanupId
  <2>2. ctxLinks[i].refs \ {l} \in SUBSET Link
    BY <2>1, <1>t DEF TypeOK, RefEntry
  <2>3. /\ \A j \in Id \ {i} : ctxLinks'[j] = ctxLinks[j]
        /\ ctxLinks'[i] # NoLd
        /\ ctxLinks'[i].refs = ctxLinks[i].refs \ {l}
    BY <1>t, <2>1, <2>2, RefsUpdate
  <2> QED
    BY <2>3
<1>5. CASE DelAcquire(l)
  <2>1. PICK i \in Id : /\ ctxLinks[i] # NoLd /\ ctxLinks[i].refs \ {l} = {}
                        /\ ctxLinks' = [ctxLinks EXCEPT ![i].refs = {}]
    BY <1>5, <1>t, TaskFacts, KeyType, FromStatusType DEF DelAcquire, At, DelPcs, CleanupId
  <2>2. \A j \in Id \ {i} : ctxLinks'[j] = ctxLinks[j]
    BY <1>t, <2>1, RefsUpdate
  <2> QED
    BY <2>1, <2>2
<1>6. CASE DelPublish(l)
  <2>1. ctxLinks[CleanupId(l)].refs = {}
    BY <1>6, <1>t DEF DelPublish, At, TablesMatch, DelPart
  <2> QED
    BY <1>6, <1>t, <2>1 DEF DelPublish, TypeOK
<1>7. CASE \/ Outside(l) \/ AddAcquire(l) \/ AddGroup(l) \/ AddPublishFail(l)
           \/ DelHost(l) \/ DelGroup(l) \/ DelPublishFail(l)
  BY <1>7, <1>t, OutsideFrame DEF AddAcquire, AddGroup, AddPublishFail, DelHost, DelGroup, DelPublishFail, tables
<1> QED
  BY <1>1, <1>2, <1>3, <1>4, <1>5, <1>6, <1>7, TaskSteps

\* A reconciliation begins with the reflector's copy and the event it calls for.
LEMMA StartKeepsTask ==
    ASSUME TypeOK, NEW l \in Link, TaskInv(l), Start(l)
    PROVE  TaskInv(l)'
<1>t. task \in [Link -> Task]
  BY DEF TypeOK
<1>1. ASSUME NEW pc, NEW ld, Begin(l, pc, ld),
             pc \in {"finalize", "resolveActor", "addLock", "delLock", "release"},
             pc = "finalize" => K!NeedsFinalizer(store[l]),
             pc \in {"resolveActor", "addLock"} => K!IsApply(store[l]),
             pc \in {"delLock", "release"} => K!IsCleanup(store[l]),
             pc = "resolveActor" => ~UsableStatus(store[l]),
             pc = "addLock" => ld = FromStatus(store[l])
      PROVE  TaskInv(l)'
  <2>1. task'[l] = [pc |-> pc, obj |-> store[l], ld |-> ld] /\ store' = store
    BY <1>1, <1>t DEF Begin
  <2>2. RightEvent(l)'
    BY <1>1, <2>1 DEF RightEvent, AddPcs, DelPcs
  <2>3. UpToDate(l)' /\ Claimed(l)' /\ Kept(l)'
    BY <1>1, <2>1 DEF UpToDate, Claimed, Kept, Settled, At
  <2> QED
    BY <2>2, <2>3 DEF TaskInv
<1>2. CASE StartFinalize(l)
  BY <1>1, <1>2 DEF StartFinalize
<1>3. CASE StartApply(l)
  <2>1. CASE MissingLinkName(store[l].spec)
    <3>1. At(l, "idle") /\ UNCHANGED <<task, store>>
      BY <1>3, <2>1 DEF StartApply
    <3>2. RightEvent(l)' /\ UpToDate(l)' /\ Claimed(l)'
      BY <3>1 DEF At, RightEvent, AddPcs, DelPcs, UpToDate, Claimed
    <3>3. Kept(l)'
      BY <2>1, <3>1 DEF Kept, Settled
    <3> QED
      BY <3>2, <3>3 DEF TaskInv
  <2>2. CASE ~MissingLinkName(store[l].spec) /\ UsableStatus(store[l])
    BY <1>1, <1>3, <2>2 DEF StartApply
  <2>3. CASE ~MissingLinkName(store[l].spec) /\ ~UsableStatus(store[l])
    BY <1>1, <1>3, <2>3 DEF StartApply
  <2> QED
    BY <2>1, <2>2, <2>3
<1>4. CASE StartCleanup(l)
  BY <1>1, <1>4 DEF StartCleanup
<1> QED
  BY <1>2, <1>3, <1>4 DEF Start

\* The steps of a task keep what is known of it.
LEMMA StepKeepsTask ==
    ASSUME KeysDistinct, RegistryInv, NEW l \in Link, TaskInv(l), Acquire(l) \/ Step(l)
    PROVE  TaskInv(l)'
<1> USE DEF At
<1>t. TypeOK /\ task \in [Link -> Task] /\ task[l] \in Task /\ TablesMatch
  BY DEF RegistryInv, TablesInv, TypeOK
<1>i. RightEvent(l) /\ UpToDate(l) /\ Claimed(l)
  BY DEF TaskInv
<1>d. ASSUME Done(l) PROVE task'[l].pc = "idle"
  BY <1>d, <1>t DEF Done, Idle
<1>g. \A pc, ld : Goto(l, pc, ld) =>
        task'[l].pc = pc /\ task'[l].obj = task[l].obj /\ task'[l].ld = ld
  BY <1>t DEF Goto
<1>1. CASE AddFinalizer(l) \/ Release(l) \/ ReleaseFail(l)
  <2>1. /\ task[l].pc \in {"finalize", "release"} /\ task'[l].pc = "idle"
        /\ store' = store /\ (l \in queue => l \in queue')
    BY <1>1, <1>d DEF AddFinalizer, Release, ReleaseFail, Requeue
  <2>2. ~K!IsApply(task[l].obj)
    BY <2>1, <1>i DEF RightEvent, K!NeedsFinalizer, K!IsCleanup, K!IsApply
  <2> QED
    BY <2>1, <2>2, <1>i, AtTheEnd
<1>2. CASE (ResolveActor(l) \/ ResolveProvider(l)) /\ Done(l)
  <2>1. /\ task[l].pc \in {"resolveActor", "resolveProvider"} /\ task'[l].pc = "idle"
        /\ store' = store
    BY <1>2, <1>d DEF ResolveActor, ResolveProvider
  <2>2. l \in queue => l \in queue'
    BY <1>2 DEF ResolveActor, ResolveProvider, Requeue
  <2>3. ~UsableStatus(task[l].obj)
    BY <2>1, <1>i DEF RightEvent
  <2> QED
    BY <2>1, <2>2, <2>3, <1>i, AtTheEnd
<1>3. CASE (ResolveActor(l) \/ ResolveProvider(l)) /\ ~Done(l)
  <2>1. PICK pc \in {"resolveProvider", "addLock"} : \E ld : Goto(l, pc, ld)
    BY <1>3 DEF ResolveActor, ResolveProvider, Requeue
  <2>2. /\ task[l].pc \in {"resolveActor", "resolveProvider"}
        /\ store' = store /\ queue' = queue
    BY <1>3 DEF ResolveActor, ResolveProvider, Requeue
  <2>3. task'[l].pc = pc /\ task'[l].obj = task[l].obj
    BY <2>1, <1>g
  <2>4. RightEvent(l)'
    BY <1>i, <2>2, <2>3 DEF RightEvent, AddPcs, DelPcs
  <2>5. Claimed(l)'
    BY <2>3 DEF Claimed
  <2> QED
    BY <2>2, <2>3, <2>4, <2>5, <1>i, OnTheWay
<1>4. CASE PatchStatus(l) \/ PatchStatusFail(l)
  <2>1. /\ task[l].pc = "patch" /\ task'[l].pc = "idle"
        /\ store' = store /\ queue' = queue /\ UNCHANGED <<ctxLinks, failed>>
    BY <1>4, <1>d DEF PatchStatus, PatchStatusFail, kube, tables
  <2>2. UsableStatus(task[l].obj) => task[l].ld = FromStatus(task[l].obj)
    BY <2>1, <1>i DEF RightEvent, AddPcs
  <2>3. Claimed(l)
    BY <1>i
  <2> QED
    BY <2>1, <2>2, <2>3, <1>i, AtTheEnd DEF Claimed, Counted
<1>5. CASE AddPublishFail(l)
  <2>1. /\ task[l].pc = "addPublish" /\ task'[l].pc = "idle"
        /\ store' = store /\ queue' = queue
        /\ failed' = failed \cup {IdOf(task[l].ld)}
    BY <1>5, <1>d DEF AddPublishFail, kube
  <2>2. UsableStatus(task[l].obj) => task[l].ld = FromStatus(task[l].obj)
    BY <2>1, <1>i DEF RightEvent, AddPcs
  <2> QED
    BY <2>1, <2>2, <1>i, AtTheEnd
<1>6. CASE \/ AddRef(l) \/ AddAcquire(l) \/ AddHost(l) \/ AddGroup(l) \/ AddPublish(l)
  <2>1. PICK pc \in AddPcs : Goto(l, pc, task[l].ld)
    BY <1>6 DEF AddRef, AddAcquire, AddHost, AddGroup, AddPublish, Added, AddPcs
  <2>2. /\ task[l].pc \in AddPcs
        /\ store' = store /\ queue' = queue
    BY <1>6 DEF AddRef, AddAcquire, AddHost, AddGroup, AddPublish, AddPcs, kube
  <2>3. task'[l].pc = pc /\ task'[l].obj = task[l].obj /\ task'[l].ld = task[l].ld
    BY <2>1, <1>g
  <2>4. RightEvent(l)'
    BY <1>i, <2>1, <2>2, <2>3 DEF RightEvent, AddPcs, DelPcs
  <2>5. Claimed(l)'
    <3> DEFINE id == IdOf(task[l].ld)
    <3> SUFFICES ASSUME task'[l].pc = "patch" PROVE Counted(l, id)'
      BY <2>3 DEF Claimed, Counted
    <3>1. id \in Id
      BY <2>2, <1>t, TaskFacts, KeyType
    <3>2. CASE AddRef(l)
      <4>1. ctxLinks[id] # NoLd /\ ctxLinks' = [ctxLinks EXCEPT ![id].refs = ctxLinks[id].refs \cup {l}]
        BY <3>2 DEF AddRef
      <4>2. ctxLinks[id].refs \cup {l} \in SUBSET Link
        BY <1>t, <3>1, <4>1 DEF TypeOK, RefEntry
      <4>3. ctxLinks'[id] # NoLd /\ ctxLinks'[id].refs = ctxLinks[id].refs \cup {l}
        BY <1>t, <3>1, <4>1, <4>2, RefsUpdate
      <4> QED
        BY <2>3, <4>3 DEF Counted
    <3>3. CASE Added(l)
      <4>1. ctxLinks' = [ctxLinks EXCEPT ![id] = [ld |-> task[l].ld, refs |-> {l}]]
        BY <3>3 DEF Added
      <4>2. [ld |-> task[l].ld, refs |-> {l}] # NoLd
        BY <1>t, <2>2, TaskFacts, LinksAssumption
      <4>3. ctxLinks'[id] = [ld |-> task[l].ld, refs |-> {l}]
        BY <1>t, <3>1, <4>1 DEF TypeOK
      <4> QED
        BY <2>3, <4>2, <4>3 DEF Counted
    <3>4. AddRef(l) \/ Added(l)
      <4>1. AddAcquire(l) => task'[l].pc = "addHost"
        BY <1>g DEF AddAcquire
      <4>2. AddGroup(l) => task'[l].pc = "addPublish"
        BY <1>g DEF AddGroup
      <4>3. AddHost(l) => task'[l].pc = "addGroup" \/ Added(l)
        BY <1>g DEF AddHost
      <4> QED
        BY <1>6, <4>1, <4>2, <4>3 DEF AddPublish
    <3> QED
      BY <3>2, <3>3, <3>4
  <2> QED
    BY <2>1, <2>2, <2>3, <2>4, <2>5, <1>i, OnTheWay DEF AddPcs
<1>7. CASE \/ DelRef(l) \/ DelAcquire(l) \/ DelHost(l) \/ DelGroup(l)
           \/ DelPublish(l) \/ DelPublishFail(l)
  <2>1. PICK pc \in DelPcs \cup {"release"} : \E ld : Goto(l, pc, ld)
    BY <1>7 DEF DelRef, DelAcquire, DelHost, DelGroup, DelPublish, DelPublishFail, DeleteFailed, DelPcs
  <2>2. /\ task[l].pc \in DelPcs
        /\ store' = store /\ queue' = queue
    BY <1>7 DEF DelRef, DelAcquire, DelHost, DelGroup, DelPublish, DelPublishFail, DelPcs, kube
  <2>3. task'[l].pc = pc /\ task'[l].obj = task[l].obj
    BY <2>1, <1>g
  <2>4. RightEvent(l)'
    BY <1>i, <2>1, <2>2, <2>3 DEF RightEvent, AddPcs, DelPcs
  <2>5. Claimed(l)'
    BY <2>1, <2>3 DEF Claimed, DelPcs
  <2> QED
    BY <2>1, <2>2, <2>3, <2>4, <2>5, <1>i, OnTheWay DEF DelPcs
<1>8. CASE ResolveFail(l)
  <2>1. /\ task[l].pc \in {"resolveActor", "resolveProvider"} /\ task'[l].pc = "idle"
        /\ store' = store /\ (l \in queue => l \in queue')
    BY <1>8, <1>d DEF ResolveFail, Requeue
  <2>2. ~UsableStatus(task[l].obj)
    BY <2>1, <1>i DEF RightEvent
  <2> QED
    BY <2>1, <2>2, <1>i, AtTheEnd
<1> QED
  BY <1>1, <1>2, <1>3, <1>4, <1>5, <1>6, <1>7, <1>8 DEF Acquire, Step

\* What is known of a task is kept by the steps of others.
LEMMA OthersKeepTask ==
    ASSUME NEW m \in Link, TypeOK, TaskInv(m),
           task'[m] = task[m], store' = store, m \in queue' <=> m \in queue,
           failed \subseteq failed',
           \A id \in Id : Counted(m, id) => Counted(m, id)'
    PROVE  TaskInv(m)'
<1>1. RightEvent(m)' /\ UpToDate(m)'
  BY DEF TaskInv, RightEvent, UpToDate, At
<1>2. Claimed(m)'
  <2> SUFFICES ASSUME task[m].pc = "patch", IdOf(task[m].ld) \notin failed'
               PROVE  Counted(m, IdOf(task[m].ld))'
    BY DEF Claimed, At
  <2> DEFINE id == IdOf(task[m].ld)
  <2>1. id \in Id
    BY TaskFacts, KeyType DEF TypeOK, AddPcs
  <2>2. Counted(m, id)
    BY DEF TaskInv, Claimed, At
  <2> QED
    BY <2>1, <2>2 DEF Counted
<1>3. Kept(m)'
  <2> SUFFICES ASSUME Settled(m)', UsableStatus(store[m]),
                      IdOf(FromStatus(store[m])) \notin failed'
               PROVE  Counted(m, IdOf(FromStatus(store[m])))'
    BY DEF Kept
  <2> DEFINE id == IdOf(FromStatus(store[m]))
  <2>1. Settled(m)
    BY DEF Settled, At
  <2>2. Counted(m, id)
    BY <2>1 DEF TaskInv, Kept
  <2>3. id \in Id
    <3>1. store[m] \in K!Object
      BY <2>1 DEF Settled, K!IsApply, TypeOK, K!KubeTypeOK
    <3>2. store[m].status \in LinkStatus
      BY <3>1 DEF UsableStatus, K!Object
    <3> QED
      BY <3>1, <3>2, FromStatusType, KeyType
  <2> QED
    BY <2>2, <2>3 DEF Counted
<1> QED
  BY <1>1, <1>2, <1>3 DEF TaskInv

\* A step of l's task reads the reflector's copies, requests nothing for other
\* links, and lets announcements fail only for good.
LEMMA StepFrame ==
    ASSUME TypeOK, NEW l \in Link, Start(l) \/ Acquire(l) \/ Step(l)
    PROVE  /\ store' = store /\ failed \subseteq failed'
           /\ \A m \in Link \ {l} : task'[m] = task[m] /\ (m \in queue' <=> m \in queue)
<1>1. store' = store /\ failed \subseteq failed'
  <2>1. CASE Start(l)
    BY <2>1 DEF Start, StartFinalize, StartApply, StartCleanup, Begin, tables
  <2>2. CASE Acquire(l)
    BY <2>2 DEF Acquire, AddRef, AddAcquire, DelRef, DelAcquire, kube, tables
  <2>3. CASE Step(l)
    BY <2>3 DEF Step, AddFinalizer, ResolveActor, ResolveProvider, ResolveFail, AddHost, AddGroup, AddPublish,
                AddPublishFail, PatchStatus, PatchStatusFail, DelHost, DelGroup, DelPublish,
                DelPublishFail, Release, ReleaseFail, kube, tables
  <2> QED
    BY <2>1, <2>2, <2>3
<1>2. queue' \in {queue, queue \cup {l}, queue \ {l}}
  <2>1. CASE Start(l)
    BY <2>1 DEF Start, StartFinalize, StartApply, StartCleanup, Begin
  <2>2. CASE Acquire(l)
    BY <2>2 DEF Acquire, AddRef, AddAcquire, DelRef, DelAcquire, kube
  <2>3. CASE Step(l)
    BY <2>3 DEF Step, AddFinalizer, ResolveActor, ResolveProvider, ResolveFail, AddHost, AddGroup, AddPublish,
                AddPublishFail, PatchStatus, PatchStatusFail, DelHost, DelGroup, DelPublish,
                DelPublishFail, Release, ReleaseFail, Requeue, kube
  <2> QED
    BY <2>1, <2>2, <2>3
<1>3. \A m \in Link \ {l} : task'[m] = task[m]
  <2>0. task \in [Link -> Task]
    BY DEF TypeOK
  <2>1. CASE Outside(l)
    BY <2>1, OutsideFrame
  <2>2. CASE \E pc, ld : Goto(l, pc, ld)
    BY <2>0, <2>2 DEF Goto
  <2>3. CASE Done(l)
    BY <2>0, <2>3 DEF Done
  <2>4. \/ AddRef(l) \/ AddAcquire(l) \/ DelRef(l) \/ DelAcquire(l) \/ AddHost(l) \/ AddGroup(l)
        \/ AddPublish(l) \/ DelHost(l) \/ DelGroup(l) \/ DelPublish(l) \/ DelPublishFail(l)
        \/ AddPublishFail(l) \/ Outside(l)
    BY TaskSteps
  <2>5. CASE \/ AddRef(l) \/ AddAcquire(l) \/ AddHost(l) \/ AddGroup(l) \/ AddPublish(l)
    <3>1. \E pc, ld : Goto(l, pc, ld)
      BY <2>5 DEF AddRef, AddAcquire, AddHost, AddGroup, AddPublish, Added
    <3> QED
      BY <3>1, <2>2
  <2>6. CASE \/ DelRef(l) \/ DelAcquire(l) \/ DelHost(l) \/ DelGroup(l)
             \/ DelPublish(l) \/ DelPublishFail(l)
    <3>1. \E pc, ld : Goto(l, pc, ld)
      BY <2>6 DEF DelRef, DelAcquire, DelHost, DelGroup, DelPublish, DelPublishFail, DeleteFailed
    <3> QED
      BY <3>1, <2>2
  <2>7. AddPublishFail(l) => Done(l)
    BY DEF AddPublishFail
  <2> QED
    BY <2>1, <2>3, <2>4, <2>5, <2>6, <2>7
<1> QED
  BY <1>1, <1>2, <1>3

\* The world keeps what is known of the tasks.
LEMMA WorldKeepsTask ==
    ASSUME TypeOK, NEW m \in Link, TaskInv(m), World
    PROVE  TaskInv(m)'
<1>c. ASSUME UNCHANGED <<task, ctxLinks, failed, store>>, m \in queue' <=> m \in queue
      PROVE  TaskInv(m)'
  BY <1>c, OthersKeepTask DEF Counted
<1>q. ASSUME UNCHANGED <<task, ctxLinks, failed>>,
             m \in queue' \/ store'[m] = NoObject
      PROVE  TaskInv(m)'
  <2>1. RightEvent(m)' /\ Claimed(m)'
    BY <1>q DEF TaskInv, RightEvent, Claimed, Counted, At
  <2>2. UpToDate(m)' /\ Kept(m)'
    BY <1>q DEF UpToDate, Kept, Settled, K!IsApply
  <2> QED
    BY <2>1, <2>2 DEF TaskInv
<1>1. ASSUME NEW l \in Link, NEW s \in Specs, Create(l, s) PROVE TaskInv(m)'
  BY <1>1, <1>c DEF Create, K!Create, local, tables
<1>2. ASSUME NEW l \in Link, Delete(l) \/ \E h \in Peers : PeerPatch(h, l) PROVE TaskInv(m)'
  BY <1>2, <1>c DEF Delete, K!Delete, PeerPatch, local, tables
<1>3. ASSUME NEW l \in Link, Watch(l) PROVE TaskInv(m)'
  <2>1. UNCHANGED <<task, ctxLinks, failed>> /\ store' = [store EXCEPT ![l] = api[l]]
    BY <1>3 DEF Watch, K!Watch, local, tables
  <2>2. queue' = IF api[l] = NoObject THEN queue \ {l} ELSE queue \cup {l}
    BY <1>3 DEF Watch, K!Watch
  <2>3. CASE l = m
    BY <2>1, <2>2, <2>3, <1>q DEF TypeOK, K!KubeTypeOK
  <2>4. CASE l # m
    <3>1. store'[m] = store[m] /\ (m \in queue' <=> m \in queue)
      BY <2>1, <2>2, <2>4 DEF TypeOK, K!KubeTypeOK
    <3>2. RightEvent(m)' /\ Claimed(m)'
      BY <2>1 DEF TaskInv, RightEvent, Claimed, Counted, At
    <3>3. UpToDate(m)' /\ Kept(m)'
      BY <2>1, <3>1 DEF TaskInv, UpToDate, Kept, Settled, Counted, At
    <3> QED
      BY <3>2, <3>3 DEF TaskInv
  <2> QED
    BY <2>3, <2>4
<1>4. ASSUME NEW l \in Link, Resync(l) PROVE TaskInv(m)'
  <2>1. UNCHANGED <<task, ctxLinks, failed, store>> /\ queue' = queue \cup {l}
    BY <1>4 DEF Resync, K!Resync, local, tables
  <2> QED
    BY <2>1, <1>q, <1>c
<1>5. CASE UNCHANGED <<kube, task, ctxLinks, failed>>
  BY <1>5, <1>c DEF kube
<1>6. CASE Crash
  <2>1. task'[m].pc = "idle" /\ store'[m] = NoObject
    BY <1>6 DEF Crash, NoTasks, Idle
  <2>2. RightEvent(m)' /\ Claimed(m)'
    BY <2>1 DEF RightEvent, Claimed, AddPcs, DelPcs, At
  <2>3. UpToDate(m)' /\ Kept(m)'
    BY <2>1 DEF UpToDate, Kept, Settled, K!IsApply
  <2> QED
    BY <2>2, <2>3 DEF TaskInv
<1>7. \/ \E l \in Link : \/ \E s \in Specs : Create(l, s)
                         \/ Delete(l) \/ Watch(l) \/ Resync(l)
                         \/ \E h \in Peers : PeerPatch(h, l)
      \/ UNCHANGED <<kube, task, ctxLinks, failed>>
      \/ Crash
  BY DEF World, PeerWatch, PeerPublish, NewGroup, DropGroup, SetActor, SetProvider, local, tables
<1> QED
  BY <1>1, <1>2, <1>3, <1>4, <1>5, <1>6, <1>7

\* Every step keeps what is known of the tasks and of the tables.
LEMMA EstablishedStep ==
    ASSUME KeysDistinct, EstablishedInv, [Next]_vars
    PROVE  EstablishedInv'
<1>0. RegistryInv /\ TypeOK /\ RegistryInv'
  BY RegistryStep DEF EstablishedInv, RegistryInv, TablesInv
<1> SUFFICES ASSUME NEW m \in Link PROVE TaskInv(m)'
  BY <1>0 DEF EstablishedInv
<1>i. TaskInv(m)
  BY DEF EstablishedInv
<1>1. ASSUME NEW l \in Link, Start(l) \/ Acquire(l) \/ Step(l) PROVE TaskInv(m)'
  <2>1. CASE l = m
    BY <1>0, <1>1, <1>i, <2>1, StartKeepsTask, StepKeepsTask
  <2>2. CASE l # m
    <3>1. \A id \in Id : Counted(m, id) => Counted(m, id)'
      BY <1>0, <1>1, <2>2, OthersStayCounted
    <3>2. /\ store' = store /\ failed \subseteq failed'
          /\ task'[m] = task[m] /\ (m \in queue' <=> m \in queue)
      BY <1>0, <1>1, <2>2, StepFrame
    <3> QED
      BY <1>0, <1>i, <3>1, <3>2, OthersKeepTask
  <2> QED
    BY <2>1, <2>2
<1>2. CASE World
  BY <1>0, <1>i, <1>2, WorldKeepsTask
<1>3. CASE UNCHANGED vars
  <2>1. UNCHANGED <<task, store, queue, failed, ctxLinks>>
    BY <1>3 DEF vars, kube, tables
  <2> QED
    BY <1>0, <1>i, <2>1, OthersKeepTask DEF Counted
<1> QED
  BY <1>1, <1>2, <1>3 DEF Next

\* What is counted is in host.links and announced: a name in an entry of ctx.links
\* means that nobody is deleting it.
LEMMA CountedEstablished ==
    ASSUME KeysDistinct, RegistryInv, NEW l \in Link, NEW ld \in ResolvedLink,
           IdOf(ld) \notin failed, Counted(l, IdOf(ld))
    PROVE  Established(l, ld) /\ (Alone => Announced(ld))
<1> DEFINE id == IdOf(ld)
           h == HashOf(ld)
<1>t. TypeOK /\ TablesMatch /\ HostKeyed /\ id \in Id /\ h \in Hash
  BY KeyType DEF RegistryInv, TablesInv
<1>1. ~BeingAdded(id) /\ ~Removed(id)
  <2>1. ASSUME NEW m \in Link, Adding(m, id) PROVE FALSE
    BY <1>t, <2>1 DEF Adding, Counted, TablesMatch, AddPart
  <2>2. ASSUME NEW m \in Link, Deleting(m, id) PROVE FALSE
    BY <1>t, <2>2 DEF Deleting, Counted, TablesMatch, DelPart
  <2> QED
    BY <2>1, <2>2 DEF BeingAdded, Removed
<1>2. hostLinks[h] # NoLd
  BY <1>t, <1>1 DEF TablesMatch, CtxHosted, Counted
<1>3. hostLinks[h] \in ResolvedLink /\ HashOf(hostLinks[h]) = h
  BY <1>t, <1>2 DEF TypeOK, HostKeyed
<1>4. SameLink(hostLinks[h], ld) /\ IdOf(hostLinks[h]) = id
  BY <1>3, SameKeys
<1>5. Alone => hostLinks[h] \in told
  BY <1>t, <1>1, <1>2, <1>4 DEF TablesMatch, HostCounted
<1> QED
  BY <1>2, <1>4, <1>5 DEF Established, Announced, Counted

\* A process starts with nothing that is to be kept.
LEMMA InitEstablished == Init => EstablishedInv
<1> SUFFICES ASSUME Init, NEW l \in Link PROVE TaskInv(l)
  BY InitMatch DEF EstablishedInv
<1>1. task[l].pc = "idle" /\ store[l] = NoObject
  BY DEF Init, NoTasks, Idle, K!KubeInit
<1>2. RightEvent(l) /\ Claimed(l)
  BY <1>1 DEF RightEvent, Claimed, AddPcs, DelPcs, At
<1>3. UpToDate(l) /\ Kept(l)
  BY <1>1 DEF UpToDate, Kept, Settled, K!IsApply
<1> QED
  BY <1>2, <1>3 DEF TaskInv

\* What the invariant says of a settled link.
LEMMA ReportedEstablished ==
    ASSUME KeysDistinct, EstablishedInv, NEW l \in Link, Reported(l)
    PROVE  /\ Established(l, FromStatus(store[l]))
           /\ Alone => Announced(FromStatus(store[l]))
<1>1. store[l] \in K!Object
  BY DEF EstablishedInv, RegistryInv, TablesInv, TypeOK, K!KubeTypeOK, Reported, Settled, K!IsApply
<1>2. FromStatus(store[l]) \in ResolvedLink
  BY <1>1, FromStatusType DEF Reported, UsableStatus, K!Object
<1>3. Counted(l, IdOf(FromStatus(store[l])))
  BY DEF EstablishedInv, TaskInv, Kept, Reported
<1> QED
  BY <1>2, <1>3, CountedEstablished DEF EstablishedInv, Reported

(***************************************************************************)
(* Once a Link that reports a link in its status is settled, the host has  *)
(* that link: it is counted for it in ctx.links, and in host.links, unless *)
(* an announcement of it failed.  For any number of links, whatever the    *)
(* other links do, through crashes, and whatever other hosts patch and     *)
(* publish by copies of any age.  The keys of the two tables are taken to  *)
(* be distinct: of two links with one linkdef_hash the second would find   *)
(* host.links occupied by the first.                                       *)
(***************************************************************************)
THEOREM SettledLinksEstablished ==
    ASSUME KeysDistinct
    PROVE  Spec => []EstablishedLinks
<1>1. EstablishedInv /\ [Next]_vars => EstablishedInv'
  BY EstablishedStep
<1>2. EstablishedInv => EstablishedLinks
  BY ReportedEstablished DEF EstablishedLinks
<1> QED
  BY <1>1, <1>2, InitEstablished, PTL DEF Spec

(***************************************************************************)
(* On a host that is alone in its namespace the provider of such a link    *)
(* was told of it, and not told since to drop it: nobody but the holder of *)
(* ctx.links publishes, and it withdraws only what no Link wants.          *)
(***************************************************************************)
THEOREM SettledLinksAnnounced ==
    ASSUME KeysDistinct, Peers = {}
    PROVE  Spec => []AnnouncedLinks
<1>1. EstablishedInv /\ [Next]_vars => EstablishedInv'
  BY EstablishedStep
<1>2. EstablishedInv => AnnouncedLinks
  BY ReportedEstablished DEF AnnouncedLinks, Alone
<1> QED
  BY <1>1, <1>2, InitEstablished, PTL DEF Spec

=============================================================================
