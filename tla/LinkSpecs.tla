------------------------------ MODULE LinkSpecs ------------------------------
(***************************************************************************)
(* The Link resource as the admission webhook and the link controller read *)
(* it.  A key, a contract id or a link name is a sequence of characters,   *)
(* because the program compares it with the empty string and concatenates  *)
(* it with others; names of Actor and Provider resources are only looked   *)
(* up, and are sequences only so that they too can be Empty.               *)
(***************************************************************************)
EXTENDS Sequences

CONSTANTS
    Contract,      \* contract ids
    LinkName,      \* link names
    ActorKey,      \* public keys of actors
    ProviderKey,   \* public keys of providers
    ActorName,     \* names of Actor resources
    ProviderName   \* names of Provider resources

Empty == <<>>

LinkSpec == [contractId : Contract,
             linkName   : LinkName \cup {Empty},
             actor      : [key : ActorKey \cup {Empty}, name : ActorName \cup {Empty}],
             provider   : [key : ProviderKey \cup {Empty}, name : ProviderName \cup {Empty}]]

\* The webhook's validate(): it returns no error for s.
validate(s) ==
    /\ s.actor.key # Empty \/ s.actor.name # Empty
    /\ s.provider.key # Empty \/ s.provider.name # Empty
    /\ s.provider.name # Empty \/ s.linkName # Empty

\* add_link gives up at once on such a spec: "please set provider's link name".
MissingLinkName(s) == s.linkName = Empty /\ s.provider.key # Empty

(***************************************************************************)
(* The status of a Link.  add_link and delete_link use a status only when  *)
(* its three strings are set.                                              *)
(***************************************************************************)
LinkStatus == [actorKey    : ActorKey,
               providerKey : ProviderKey,
               linkName    : LinkName \cup {Empty}]

Complete(st) == st.providerKey # Empty /\ st.actorKey # Empty /\ st.linkName # Empty

(***************************************************************************)
(* A LinkDefinition, with the empty strings LinkDefinition::default() has  *)
(* until they are resolved.  Its values are opaque to the host and to the  *)
(* controller, and left out.                                               *)
(***************************************************************************)
LinkDefinition == [actor_id    : ActorKey \cup {Empty},
                   provider_id : ProviderKey \cup {Empty},
                   contract_id : Contract,
                   link_name   : LinkName \cup {Empty}]

\* The definitions that reach the tables.
ResolvedLink == [actor_id    : ActorKey,
                 provider_id : ProviderKey,
                 contract_id : Contract,
                 link_name   : LinkName \cup {Empty}]

\* What an actor's handler looks a link up in.
WasmCloudEntity == [public_key  : ProviderKey,
                    contract_id : Contract,
                    link_name   : LinkName \cup {Empty}]

EntityOf(ld) == [public_key  |-> ld.provider_id,
                 contract_id |-> ld.contract_id,
                 link_name   |-> ld.link_name]

(***************************************************************************)
(* The two keys a link definition goes by.  linkdef_hash feeds three       *)
(* strings to SHA-256 without a separator: SHA-256 is taken to be          *)
(* injective, the concatenation is kept.                                   *)
(***************************************************************************)
linkdef_hash(actor_id, contract_id, link_name) == actor_id \o contract_id \o link_name

link_id(contract_id, actor_id, link_name) ==
    contract_id \o <<".">> \o actor_id \o <<".">> \o link_name

HashOf(ld) == linkdef_hash(ld.actor_id, ld.contract_id, ld.link_name)
IdOf(ld) == link_id(ld.contract_id, ld.actor_id, ld.link_name)

Hash == {HashOf(ld) : ld \in ResolvedLink}
Id == {IdOf(ld) : ld \in ResolvedLink}

\* Two definitions are of the same link: the fields both keys are made of.
SameLink(ld1, ld2) == /\ ld1.actor_id = ld2.actor_id
                      /\ ld1.contract_id = ld2.contract_id
                      /\ ld1.link_name = ld2.link_name

\* No two links share a key of either table.
KeysDistinct == \A ld1, ld2 \in ResolvedLink :
                    HashOf(ld1) = HashOf(ld2) \/ IdOf(ld1) = IdOf(ld2) => SameLink(ld1, ld2)
=============================================================================
