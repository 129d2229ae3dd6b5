---------------------------- MODULE LinkRegistry ----------------------------
(***************************************************************************)
(* What the link controller of a host promises, without the steps it takes *)
(* to keep it: a register of link definitions.  A definition is in force,  *)
(* and its provider told of it, from the moment a first Link object claims *)
(* it until the last one that claims it leaves; all of this changes in one *)
(* step.                                                                   *)
(*                                                                         *)
(* The register starts empty whenever the host starts, and what providers  *)
(* were told before that stays told.  Nothing is promised of an id of      *)
(* which an announcement failed, until the host starts again.              *)
(***************************************************************************)
EXTENDS LinkSpecs, Naturals

CONSTANTS
    Link,   \* names of the Link objects
    NoLd    \* no definition is in force

VARIABLES
    claims,     \* the Link objects that claim each id
    table,      \* the definition in force under each id
    announced,  \* the definitions providers were told to put and not to delete
    lost,       \* ids of which an announcement failed
    restarts    \* how often the host has started again

vars == <<claims, table, announced, lost, restarts>>

NoClaims == [id \in Id |-> {}]
NoTable == [id \in Id |-> NoLd]

Init ==
    /\ claims = NoClaims
    /\ table = NoTable
    /\ announced = {}
    /\ lost = {}
    /\ restarts = 0

\* The first claim puts a definition in force ...
Make(l, ld) ==
    LET id == IdOf(ld) IN
    /\ id \notin lost
    /\ claims[id] = {}
    /\ claims' = [claims EXCEPT ![id] = {l}]
    /\ table' = [table EXCEPT ![id] = ld]
    /\ announced' = announced \cup {ld}
    /\ UNCHANGED <<lost, restarts>>

\* ... and further ones leave it as it is.
Join(l, id) ==
    /\ id \notin lost
    /\ claims[id] # {}
    /\ claims' = [claims EXCEPT ![id] = @ \cup {l}]
    /\ UNCHANGED <<table, announced, lost, restarts>>

Leave(l, id) ==
    /\ id \notin lost
    /\ claims[id] \ {l} # {}
    /\ claims' = [claims EXCEPT ![id] = @ \ {l}]
    /\ UNCHANGED <<table, announced, lost, restarts>>

\* The last one that leaves takes the definition with it.
Drop(l, id) ==
    /\ id \notin lost
    /\ claims[id] = {l}
    /\ claims' = [claims EXCEPT ![id] = {}]
    /\ table' = [table EXCEPT ![id] = NoLd]
    /\ announced' = announced \ {table[id]}
    /\ UNCHANGED <<lost, restarts>>

\* An announcement fails.
Lose(id) ==
    /\ lost' = lost \cup {id}
    /\ claims' = [claims EXCEPT ![id] = {}]
    /\ table' = [table EXCEPT ![id] = NoLd]
    /\ UNCHANGED <<announced, restarts>>

\* What happens to a lost id is seen only in what its providers are told.
Stray(ld) ==
    /\ IdOf(ld) \in lost
    /\ announced' \in {announced \cup {ld}, announced \ {ld}}
    /\ UNCHANGED <<claims, table, lost, restarts>>

Restart ==
    /\ claims' = NoClaims
    /\ table' = NoTable
    /\ lost' = {}
    /\ restarts' = restarts + 1
    /\ UNCHANGED announced

Next ==
    \/ \E l \in Link, ld \in ResolvedLink : Make(l, ld)
    \/ \E l \in Link, id \in Id : Join(l, id) \/ Leave(l, id) \/ Drop(l, id)
    \/ \E id \in Id : Lose(id)
    \/ \E ld \in ResolvedLink : Stray(ld)
    \/ Restart

Spec == Init /\ [][Next]_vars
=============================================================================
