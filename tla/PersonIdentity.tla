--------------------------- MODULE PersonIdentity ---------------------------
(* The two tables of people observations (person_identity/repository.py): the *)
(* legacy one, keyed by Provider, and the one keyed by Observation Scope. A   *)
(* table maps an external identity to the Person it stands for and to the     *)
(* instant it was found missing; the display label is left out.               *)
EXTENDS Integers, FiniteSets

CONSTANTS ExternalIds      \* identities of people at the Provider, numbers

\* Persons are numbered as they are created; 0 is no person and no instant.
NoRow == [person |-> 0, inactive_at |-> 0]

HasRow(row) == row.person # 0
IsActive(row) == HasRow(row) /\ row.inactive_at = 0
Known(table) == {e \in ExternalIds : HasRow(table[e])}

\* list_active_person_external_ids.
ActiveIds(table) == {e \in ExternalIds : IsActive(table[e])}

\* The Person of an identity met for the first time, after `allocated` others.
NewPerson(table, identities, allocated, e) ==
    allocated + Cardinality({f \in identities \ Known(table) : f <= e})

\* Mutant: an identity that comes back gets a Person of its own.
ResolveAnew(table, identities, allocated, e) ==
    IF IsActive(table[e]) THEN table[e]
    ELSE [person |-> allocated + Cardinality({f \in identities \ ActiveIds(table) : f <= e}),
          inactive_at |-> 0]

\* _resolve: existing, reactivated or created; the Person of a row stays.
Resolve(table, identities, allocated, e) ==
    IF HasRow(table[e]) THEN [table[e] EXCEPT !.inactive_at = 0]
    ELSE [person |-> NewPerson(table, identities, allocated, e), inactive_at |-> 0]

\* reconcile_inventory: what the snapshot names is resolved, everything else
\* that is active becomes inactive now.
ReconcileInventory(table, identities, allocated, now) ==
    [e \in ExternalIds |->
        IF e \in identities THEN Resolve(table, identities, allocated, e)
        ELSE IF IsActive(table[e]) THEN [table[e] EXCEPT !.inactive_at = now]
        ELSE table[e]]

PersonOf(table) == [e \in ActiveIds(table) |-> table[e].person]
=============================================================================
