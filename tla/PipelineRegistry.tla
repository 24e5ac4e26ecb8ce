-------------------------- MODULE PipelineRegistry --------------------------
(* The pipelines the formal runner knows (data_status/registry.py): which     *)
(* enrichment reads what which provider pipeline writes, and which pipelines  *)
(* write the same provider's resources.                                       *)
EXTENDS FiniteSets

ProviderPipeline(key) == [key |-> key, kind |-> "provider_sync", dependencies |-> {}]
Enrichment(key, dependencies) ==
    [key |-> key, kind |-> "enrichment", dependencies |-> dependencies]

PIPELINES ==
    {ProviderPipeline(key) : key \in {
        "provider.nextcloud.sync", "provider.nextcloud.incremental",
        "provider.immich.sync", "provider.immich.incremental", "provider.gmail.sync"}}
    \cup
    {Enrichment("enrichment.nextcloud_text", {"provider.nextcloud.sync"}),
     Enrichment("enrichment.nextcloud_documents", {"provider.nextcloud.sync"}),
     Enrichment("enrichment.file_metadata",
                {"provider.nextcloud.sync", "provider.immich.sync"}),
     Enrichment("enrichment.immich_geo", {"provider.immich.sync"}),
     Enrichment("enrichment.immich_metadata", {"provider.immich.sync"}),
     Enrichment("enrichment.immich_ocr", {"provider.immich.sync"}),
     Enrichment("enrichment.gmail_metadata", {"provider.gmail.sync"})}

OPERATOR_ACTION_PIPELINES ==
    {ProviderPipeline(key) : key \in {
        "provider.nextcloud.bootstrap", "provider.nextcloud.recovery",
        "provider.immich.bootstrap", "provider.immich.recovery"}}

FORMAL_PIPELINES == PIPELINES \cup OPERATOR_ACTION_PIPELINES

MutationGroups ==
    {{"provider.nextcloud.sync", "provider.nextcloud.incremental",
      "provider.nextcloud.bootstrap", "provider.nextcloud.recovery"},
     {"provider.immich.sync", "provider.immich.incremental",
      "provider.immich.bootstrap", "provider.immich.recovery"},
     {"provider.gmail.sync"}}

\* PROVIDER_MUTATION_GROUPS.get(key, (key,)): the groups are named by their
\* full synchronization, the only pipeline that is a dependency.
GroupOf(key) ==
    IF key \in {"provider.nextcloud.sync", "provider.immich.sync", "provider.gmail.sync"}
    THEN CHOOSE group \in MutationGroups : key \in group
    ELSE {key}

Keys(pipelines) == {p.key : p \in pipelines}
DependenciesOf(pipelines, key) ==
    (CHOOSE p \in pipelines : p.key = key).dependencies

\* A cycle is a set of pipelines each of which depends on one of the set.
Acyclic(pipelines) ==
    ~\E cycle \in SUBSET Keys({p \in pipelines : p.dependencies # {}}) :
        /\ cycle # {}
        /\ \A key \in cycle : DependenciesOf(pipelines, key) \cap cycle # {}

\* validate_registry.
ValidRegistry(pipelines) ==
    /\ Cardinality(Keys(pipelines)) = Cardinality(pipelines)
    /\ \A p \in pipelines : p.dependencies \subseteq Keys(pipelines) \ {p.key}
    /\ Acyclic(pipelines)

\* Importing the registry validates it; every pipeline that writes what an
\* enrichment reads is in the group that its watermark is taken over.
ASSUME RegistryIsValid ==
    /\ ValidRegistry(PIPELINES) /\ ValidRegistry(FORMAL_PIPELINES)
    /\ \A group \in MutationGroups : group \subseteq Keys(FORMAL_PIPELINES)
    /\ \A p \in FORMAL_PIPELINES :
         p.kind = "provider_sync" => \E group \in MutationGroups : p.key \in group
=============================================================================
