------------------------------ MODULE MCScopes ------------------------------
(* Parts of the move to Scopes in one run: the initial state picks the one    *)
(* that moves. People: two people, two photos of different content, pages of  *)
(* one. Sources and states: one Principal with two Instances, an Account and  *)
(* two Scopes, and credentials that also exist for somebody else; the first   *)
(* Instance and its Scope are there already, and the incremental states, which *)
(* share no row with the sources, move in a part of their own. Cutover: one   *)
(* Scope per Provider, as in the plan; a qualified and scheduled unit of each *)
(* kind and the daily chain.                                                  *)
EXTENDS PersonSync, ScopeBinding, Cutover

VARIABLE part

MCExternalIds == 1..2
MCPhotos == 1..2
MCResourceOf == <<"r1", "r2">>
MCRegistry == [p \in {"alice"} |-> [database |-> "a", enabled |-> TRUE]]
MCBindings == {[principal |-> p, scope |-> s, provider |-> "immich", enabled |-> TRUE] :
                  p \in {"alice", "bob"}, s \in Scopes}

\* What the operator has set up with two writes.
MCProvisioned ==
    CreateScope(CreateInstance(NoIdentity, "i1", "immich", TRUE), "s1", "i1", None, TRUE)

MCBindingInit ==
    /\ identity = [d \in Databases |-> MCProvisioned] /\ writes = 2
    /\ rows = [d \in Databases |-> <<>>] /\ bound = [d \in Databases |-> {}]
    /\ decisions = {} /\ spanned = [d \in Databases |-> FALSE]
    /\ state = [d \in Databases |-> [legacy |-> [t \in ProviderTypes |-> None],
                                     scoped |-> [s \in Scopes |-> None]]]
    /\ contexts = {} /\ fetched = {}

MCWriterUnits == <<"nextcloud-incremental", "immich-person", "immich-daily">>
MCChain ==
    [w \in {"nextcloud-incremental", "immich-person", "immich-daily"} |->
        CASE w = "nextcloud-incremental" -> <<"provider.nextcloud.incremental">>
          [] w = "immich-person" -> <<"person.immich.sync">>
          [] w = "immich-daily" -> <<"provider.immich.sync", "person.immich.sync">>]
MCPipelines == {"provider.nextcloud.incremental", "person.immich.sync", "provider.immich.sync"}
MCProviderOf ==
    [p \in MCPipelines |-> IF p = "provider.nextcloud.incremental" THEN "nextcloud" ELSE "immich"]
MCProviderOfScope == [s \in {"nextcloud", "immich"} |-> s]
MCQualification == <<"nextcloud-incremental", "immich-person">>
MCSchedules == <<"nextcloud-incremental", "immich-daily">>

MCInit ==
    /\ part \in {"people", "sources", "states", "cutover"}
    /\ PersonInit /\ MCBindingInit /\ Init
    /\ part = "people" \/ \A a \in Photos : sources["legacy"][a] = "none"

MCNext ==
    \/ part = "people" /\ PersonNext /\ UNCHANGED <<bindingVars, vars, part>>
    \/ part = "sources" /\ (IdentityNext \/ RuntimeNext \/ SourceNext)
       /\ UNCHANGED <<personVars, vars, part>>
    \/ part = "states" /\ (IdentityNext \/ RuntimeNext \/ StateNext)
       /\ UNCHANGED <<personVars, vars, part>>
    \/ part = "cutover" /\ Next /\ UNCHANGED <<personVars, bindingVars, part>>

MCSpec ==
    /\ MCInit /\ [][MCNext]_<<personVars, bindingVars, vars, part>>
    /\ WF_vars(part = "cutover" /\ OperatorStep) /\ SF_vars(part = "cutover" /\ Retry)
=============================================================================
