-------------------------- MODULE LinksRefinement --------------------------
(***************************************************************************)
(* Links implements LinkRegistry: what add_link and delete_link do in many *)
(* steps, each of which other tasks can see, amounts to one step of the    *)
(* register, taken when the announcement is published.                     *)
(***************************************************************************)
EXTENDS Links

\* l's task has begun to add a definition under id, or to delete it.
Adding(l, id) == task[l].pc \in {"addGroup", "addPublish"} /\ IdOf(task[l].ld) = id
Deleting(l, id) == task[l].pc \in {"delHost", "delGroup", "delPublish"} /\ CleanupId(l) = id

\* Until its deletion is announced, a definition counts as claimed by the link
\* that was the last to want it.
ClaimsOf(id) ==
    LET deleting == {l \in Link : Deleting(l, id)} IN
    IF id \in failed \/ ctxLinks[id] = NoLd THEN {}
    ELSE ctxLinks[id].refs \cup deleting

\* The definition in force: that of host.links, unless its addition is not yet
\* announced; or the one whose deletion is not.
InForce(id) ==
    LET stored == {hostLinks[h] : h \in {g \in Hash : /\ hostLinks[g] # NoLd
                                                     /\ IdOf(hostLinks[g]) = id
                                                     /\ \A l \in Link : ~Adding(l, id)}}
        leaving == {task[l].ld : l \in {m \in Link : /\ Deleting(m, id)
                                                    /\ ~At(m, "delHost")}}
        here == stored \cup leaving
    IN
    IF id \in failed \/ here = {} THEN NoLd ELSE CHOOSE ld \in here : TRUE

R == INSTANCE LinkRegistry WITH
        claims <- [id \in Id |-> ClaimsOf(id)],
        table <- [id \in Id |-> InForce(id)],
        announced <- told,
        lost <- failed,
        restarts <- crashes

(***************************************************************************)
(* The two tables and the announcements of add_link and delete_link change *)
(* as if each operation were one step: nobody ever joins a definition that *)
(* is on its way out, a definition goes with the last Link that claims it  *)
(* and never before, and providers are told exactly that, through a crash  *)
(* and around announcements that fail.  (On a host that is alone: others   *)
(* publish on the same lattice.)                                           *)
(***************************************************************************)
LinksImplementRegistry == R!Spec
=============================================================================
