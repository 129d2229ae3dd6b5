------------------------------- MODULE MCLinks -------------------------------
(***************************************************************************)
(* Links for TLC: one actor, one provider and one link definition that all *)
(* Link objects end up sharing, named by key in one spec and by resource   *)
(* name in the other.                                                      *)
(***************************************************************************)
EXTENDS LinksRefinement, TLC

c1 == <<"c">>
n1 == <<"n">>
k1 == <<"M">>
p1 == <<"V">>
a1 == <<"echo">>
h1 == <<"http">>

MCContract == {c1}
OneLinkName == {n1}
OneActorKey == {k1}
MCProviderKey == {p1}
MCActorName == {a1}
NoNames == {}
MCProviderName == {h1}

ByKey == [contractId |-> c1, linkName |-> n1,
          actor |-> [key |-> k1, name |-> Empty],
          provider |-> [key |-> p1, name |-> Empty]]

ByName == [contractId |-> c1, linkName |-> Empty,
           actor |-> [key |-> Empty, name |-> a1],
           provider |-> [key |-> Empty, name |-> h1]]

ByBoth == [ByName EXCEPT !.linkName = n1]

KeySpecs == {ByKey}
NamedSpecs == {ByBoth}
NameOnlySpecs == {ByName}

Symmetry == Permutations(Link)
=============================================================================
