---------------------------- MODULE MCOperations ----------------------------
(* The two pipelines that bring Immich's changes and an enrichment that reads *)
(* them, as the registry has them.                                            *)
EXTENDS Operations, PipelineRegistry, TLC

CONSTANTS r1, r2

MCPipelines ==
    {"provider.immich.sync", "provider.immich.incremental", "enrichment.immich_ocr"}
MCDependencies == [p \in MCPipelines |-> DependenciesOf(FORMAL_PIPELINES, p)]
MCGroups == [p \in MCPipelines |-> GroupOf(p) \cap MCPipelines]
Symmetry == Permutations({r1, r2})
=============================================================================
