-------------------------- MODULE ScopeTransition --------------------------
(* The one-shot moves of legacy data into a Scope: provenance of the sources   *)
(* (source_provenance.py), people and relations (scoped_derived_transition.py).*)
(* Each is one transaction over the complete plan, refused as a whole unless   *)
(* every row fits. One Provider and the Scope it is mapped to.                 *)
EXTENDS PersonRelations

\* sources[photo] is "none", "active" or "inactive".
SourcesReady(legacy, scoped) ==
    \A a \in Photos : legacy[a] = "none" \/ scoped[a] = "none"

Backfilled(legacy, scoped) ==
    [a \in Photos |-> IF legacy[a] = "none" THEN scoped[a] ELSE legacy[a]]

\* Equality covers the Person and the instant of inactivity.
PersonsReady(legacy, scoped) ==
    \A e \in Known(legacy) : scoped[e] \in {NoRow, legacy[e]}

\* A relation needs a source of the Scope, active or not, with content of the
\* resource, and an observation of the Person in the Scope.
HasResourceEvidence(sources, pair) ==
    \E a \in Photos : sources[a] # "none" /\ ResourceOf[a] = pair[1]
HasPersonEvidence(people, pair) ==
    \E e \in ExternalIds : people[e].person = pair[2]
Evidenced(sources, people, pair) ==
    HasResourceEvidence(sources, pair) /\ HasPersonEvidence(people, pair)

RelationsReady(legacy, scoped, sources, people) ==
    \A p \in Pairs : legacy[p] # NoRelation =>
        Evidenced(sources, people, p) /\ scoped[p] \in {NoRelation, legacy[p]}

\* Mutant: the copy is a new observation, active whatever the legacy row says.
CopiedAsActive(legacy, scoped) ==
    [e \in ExternalIds |-> IF HasRow(scoped[e]) THEN scoped[e]
                           ELSE [legacy[e] EXCEPT !.inactive_at = 0]]

\* The legacy row where there is none of the Scope (rows are never rewritten).
CopiedPersons(legacy, scoped) ==
    [e \in ExternalIds |-> IF HasRow(scoped[e]) THEN scoped[e] ELSE legacy[e]]

CopiedRelations(legacy, scoped) ==
    [p \in Pairs |-> IF scoped[p] # NoRelation THEN scoped[p] ELSE legacy[p]]
=============================================================================
