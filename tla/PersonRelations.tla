-------------------------- MODULE PersonRelations --------------------------
(* Which person is on which photo (resource_person_relation/repository.py).   *)
(* A table maps <<resource, person>> to nothing, to active or to the instant   *)
(* it was found missing. The Provider's pairs are of external identities; they *)
(* count as far as both sides are mapped to a resource and to a Person.       *)
EXTENDS PersonIdentity

CONSTANTS Photos, ResourceOf, MaxPersons

Resources == {ResourceOf[a] : a \in Photos}
Pairs == Resources \X (1..MaxPersons)
NoRelation == -1
Active == 0

\* An unmapped or inactive side leaves the pair out (skipped_unmapped).
Mapped(pairs, photos, personOf) ==
    {<<ResourceOf[pair[1]], personOf[pair[2]]>> :
        pair \in {p \in pairs : p[1] \in photos /\ p[2] \in DOMAIN personOf}}

ActivePairs(table) == {p \in Pairs : table[p] = Active}

\* The upsert of every mapped pair, then the update of the pairs that were
\* active when the table was read and are not mapped; the update looks again
\* at what is active.
ReconcileRelations(table, mapped, existing, now) ==
    [p \in Pairs |->
        IF p \in mapped THEN Active
        ELSE IF p \in existing /\ table[p] = Active THEN now
        ELSE table[p]]
=============================================================================
