--------------------------- MODULE MCProviderLinks ---------------------------
(***************************************************************************)
(* ProviderLinks for TLC: one Link and the Provider it names.              *)
(***************************************************************************)
EXTENDS ProviderLinks

c1 == <<"c">>
n1 == <<"n">>
n2 == <<"m">>
k1 == <<"M">>
v1 == <<"V">>
h1 == <<"http">>

MCContract == {c1}
MCLinkName == {n1, n2}
MCActorKey == {k1}
MCProviderKey == {v1}
MCActorName == {}
MCProviderName == {h1}

\* The Link asks for a link name, which its Provider may or may not have.
MCGivenLinks == {[contractId |-> c1, linkName |-> n1,
                  actor |-> [key |-> k1, name |-> Empty],
                  provider |-> [key |-> Empty, name |-> h1]]}

MCKeyOf == [i \in Image |-> v1]
MCGivenProviders == [p \in ProviderName |->
                        {[host |-> "default", image |-> "i1", link |-> n] : n \in LinkName}]
=============================================================================
