------------------------------- MODULE MCActors -------------------------------
(***************************************************************************)
(* Actors for TLC: two Actor objects, and images of two actors.            *)
(***************************************************************************)
EXTENDS Actors

CONSTANTS a1, a2, k1, k2

MCKeyOf == [i \in Image |-> IF i = "i3" THEN k2 ELSE k1]

Replicas(image, n) == [host |-> "default", image |-> image, replicas |-> n]
Elsewhere == [host |-> "other", image |-> "i1", replicas |-> 1]

\* Actors of one key, one of them scaled, one of them given an image of
\* another key, or perhaps on another host.
SharedSpecs == [a \in Actor |-> IF a = a1 THEN {Replicas("i1", 0), Replicas("i1", 2)}
                                 ELSE {Replicas("i1", 1), Replicas("i3", 1), Elsewhere}]

\* Two actors of different keys.
OwnSpecs == [a \in Actor |-> {Replicas(IF a = a1 THEN "i1" ELSE "i3", 1)}]
=============================================================================
