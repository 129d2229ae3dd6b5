----------------------------- MODULE MCProviders -----------------------------
(***************************************************************************)
(* Providers for TLC.  Images i1 and i2 are two versions of one provider,  *)
(* image i3 is of another.                                                 *)
(***************************************************************************)
EXTENDS Providers

CONSTANTS p1, p2, k1, k2

MCKeyOf == [i \in Image |-> IF i = "i3" THEN k2 ELSE k1]

Of(image, link) == [host |-> "default", image |-> image, link |-> link]
Elsewhere(link) == [host |-> "other", image |-> "i1", link |-> link]

\* Two Provider objects of one key with link names of their own; the first may
\* move to another version, or to another provider.
OwnSpecs == [p \in Provider |-> IF p = p1 THEN {Of(i, "n1") : i \in Image}
                                          ELSE {Of("i1", "n2"), Elsewhere("n2")}]

\* Two Provider objects of one key and link name.
SharedSpecs == [p \in Provider |-> {Of("i1", "n1")}]
=============================================================================
