----------------------------- MODULE PersonSync -----------------------------
(* People and the photos they are on, from Immich into the tables of one      *)
(* Provider and, after the transition, of its Scope. A synchronization reads   *)
(* the Provider page by page while it may change (person_identity/immich.py,   *)
(* resource_person_relation/immich.py) and commits one snapshot. The legacy    *)
(* commands take no lock; the Scope's run one at a time under the formal lock, *)
(* once the cutover has accepted the copy of the legacy tables.               *)
EXTENDS ScopeTransition

CONSTANTS PageSize,
          MaxChanges,      \* changes at the Provider
          MaxSyncs         \* reconciliations, which are also the instants

ASSUME PersonSyncAssumption ==
    /\ ExternalIds \subseteq Nat \ {0} /\ Photos \subseteq Nat \ {0}
    /\ PageSize \in Nat \ {0} /\ MaxPersons \in Nat
    /\ MaxChanges \in Nat /\ MaxSyncs \in Nat
    /\ DOMAIN ResourceOf = Photos

VARIABLES
    catalog,       \* Immich: its people, and who is tagged on which photo
    tags,
    changes,
    sources,       \* domain -> photo -> its asset source
    people,        \* domain -> table of PersonIdentity
    relations,     \* domain -> table of PersonRelations
    allocated,     \* Persons created so far
    clock,         \* reconciliations so far
    phase,         \* which writers may start
    ps, rs         \* the people and the relation synchronization under way

providerVars == <<catalog, tags, changes>>
tableVars == <<sources, people, relations, allocated, clock>>
personVars == <<providerVars, tableVars, phase, ps, rs>>

Domains == {"legacy", "scope"}
NoPeopleSync == [at |-> "idle", domain |-> "legacy", page |-> 1, total |-> -1,
                 seen |-> {}, always |-> {}, met |-> 0]
NoRelationSync == [at |-> "idle", domain |-> "legacy", todo |-> {}, page |-> 1, pairs |-> {},
                   mapped |-> {}, existing |-> {}, quiet |-> TRUE]

\* The engine has stored the photos before, or has yet to.
PersonInit ==
    /\ catalog = {} /\ tags = {} /\ changes = 0
    /\ \E stored \in {"none", "active"} :
         sources = [legacy |-> [a \in Photos |-> stored], scope |-> [a \in Photos |-> "none"]]
    /\ people = [d \in Domains |-> [e \in ExternalIds |-> NoRow]]
    /\ relations = [d \in Domains |-> [p \in Pairs |-> NoRelation]]
    /\ allocated = 0 /\ clock = 0 /\ phase = "legacy"
    /\ ps = NoPeopleSync /\ rs = NoRelationSync

-----------------------------------------------------------------------------
(* The Provider and the ingestion of its photos (external).                   *)

\* The n-th page of a listing that the Provider keeps in one order.
PageOf(listing, n) ==
    {e \in listing : LET rank == Cardinality({f \in listing : f <= e})
                     IN  (n - 1) * PageSize < rank /\ rank <= n * PageSize}
HasNextPage(listing, n) == n * PageSize < Cardinality(listing)
PhotosOf(e) == {a \in Photos : <<a, e>> \in tags}

\* A change seen by the scans under way: `always` is who was there throughout.
Changed(newCatalog) ==
    /\ changes < MaxChanges /\ changes' = changes + 1
    /\ ps' = IF ps.at = "idle" THEN ps
             ELSE [ps EXCEPT !.always = @ \cap newCatalog, !.met = @ + 1]
    /\ rs' = [rs EXCEPT !.quiet = rs.at = "idle"]

PeopleChange(e) ==
    /\ catalog' = IF e \in catalog THEN catalog \ {e} ELSE catalog \cup {e}
    /\ tags' = {t \in tags : t[2] \in catalog'}
    /\ Changed(catalog')
    /\ UNCHANGED <<tableVars, phase>>

TagChange(a, e) ==
    /\ e \in catalog
    /\ tags' = IF <<a, e>> \in tags THEN tags \ {<<a, e>>} ELSE tags \cup {<<a, e>>}
    /\ Changed(catalog)
    /\ UNCHANGED <<catalog, tableVars, phase>>

MayWrite(d) == phase = d
LockIsFree == \A s \in {ps, rs} : s.at = "idle" \/ s.domain = "legacy"

\* The engine meets a photo, misses it or meets it again.
Ingest(d, a) ==
    /\ MayWrite(d) /\ (d = "scope" => LockIsFree)
    /\ sources' = [sources EXCEPT ![d][a] = IF @ = "active" THEN "inactive" ELSE "active"]
    /\ changes < MaxChanges /\ changes' = changes + 1
    /\ rs' = [rs EXCEPT !.quiet = rs.at = "idle"]
    /\ UNCHANGED <<catalog, tags, people, relations, allocated, clock, phase, ps>>

-----------------------------------------------------------------------------
(* PersonSyncService.sync_once and its scoped twin                             *)

StartPeople(d) ==
    /\ MayWrite(d) /\ ps.at = "idle" /\ (d = "scope" => LockIsFree)
    /\ ps' = [NoPeopleSync EXCEPT !.at = "scanning", !.domain = d, !.always = catalog]
    /\ UNCHANGED <<providerVars, tableVars, phase, rs>>

\* Mutant: pages are read whatever total they report.
PeoplePageAnyTotal ==
    /\ ps.at = "scanning"
    /\ LET page == PageOf(catalog, ps.page)
       IN  /\ page \cap ps.seen = {}
           /\ ps' = [ps EXCEPT !.total = Cardinality(catalog), !.seen = @ \cup page,
                     !.page = IF HasNextPage(catalog, ps.page) THEN @ + 1 ELSE @,
                     !.at = IF HasNextPage(catalog, ps.page) THEN @ ELSE "scanned"]
    /\ UNCHANGED <<providerVars, tableVars, phase, rs>>

\* scan: a page must report the total of the first one and no identity twice.
PeoplePage ==
    /\ ps.at = "scanning"
    /\ LET page == PageOf(catalog, ps.page)
       IN  /\ ps.total \in {-1, Cardinality(catalog)}
           /\ page \cap ps.seen = {}
           /\ ps' = [ps EXCEPT !.total = Cardinality(catalog), !.seen = @ \cup page,
                     !.page = IF HasNextPage(catalog, ps.page) THEN @ + 1 ELSE @,
                     !.at = IF HasNextPage(catalog, ps.page) THEN @ ELSE "scanned"]
    /\ UNCHANGED <<providerVars, tableVars, phase, rs>>

ReconcilePeople ==
    LET d == ps.domain
        created == ps.seen \ Known(people[d])
    IN  /\ ps.at = "scanned"
        /\ clock < MaxSyncs /\ clock' = clock + 1
        /\ people' = [people EXCEPT ![d] = ReconcileInventory(@, ps.seen, allocated, clock')]
        /\ allocated' = allocated + Cardinality(created)
        /\ allocated' <= MaxPersons
        /\ ps' = NoPeopleSync
        /\ rs' = [rs EXCEPT !.quiet = rs.at = "idle" \/ rs.domain # d]
        /\ UNCHANGED <<providerVars, sources, relations, phase>>

\* A failed request, an invalid page or a death: nothing was written.
AbandonPeople ==
    /\ ps.at # "idle" /\ ps' = NoPeopleSync
    /\ UNCHANGED <<providerVars, tableVars, phase, rs>>

-----------------------------------------------------------------------------
(* ResourcePersonRelationSyncService.sync_once and its scoped twin             *)

StartRelations(d) ==
    /\ MayWrite(d) /\ rs.at = "idle" /\ (d = "scope" => LockIsFree)
    /\ rs' = [NoRelationSync EXCEPT !.at = "scanning", !.domain = d,
              !.todo = ActiveIds(people[d])]
    /\ UNCHANGED <<providerVars, tableVars, phase, ps>>

\* Mutant: the first page of a person is taken for all of them.
FirstPageOnly ==
    /\ rs.at = "scanning" /\ rs.todo # {}
    /\ LET e == CHOOSE f \in rs.todo : \A g \in rs.todo : f <= g
       IN  rs' = [rs EXCEPT !.pairs = @ \cup (PageOf(PhotosOf(e), 1) \X {e}), !.todo = @ \ {e}]
    /\ UNCHANGED <<providerVars, tableVars, phase, ps>>

\* scan: the photos of one person after the other, a page per request.
RelationPage ==
    /\ rs.at = "scanning" /\ rs.todo # {}
    /\ LET e == CHOOSE f \in rs.todo : \A g \in rs.todo : f <= g
           more == HasNextPage(PhotosOf(e), rs.page)
       IN  rs' = [rs EXCEPT !.pairs = @ \cup (PageOf(PhotosOf(e), rs.page) \X {e}),
                            !.page = IF more THEN @ + 1 ELSE 1,
                            !.todo = IF more THEN @ ELSE @ \ {e}]
    /\ UNCHANGED <<providerVars, tableVars, phase, ps>>

\* The legacy map of photos is by Provider, whatever the Scope of the source.
ActivePhotos(d) ==
    {a \in Photos : sources[d][a] = "active" \/ (d = "legacy" /\ sources["scope"][a] = "active")}

\* reconcile_*: the maps and the rows are read, with the state of that moment.
ReadRelations ==
    LET d == rs.domain
    IN  /\ rs.at = "scanning" /\ rs.todo = {}
        /\ rs' = [rs EXCEPT !.at = "read", !.existing = ActivePairs(relations[d]),
                  !.mapped = Mapped(rs.pairs, ActivePhotos(d), PersonOf(people[d]))]
        /\ UNCHANGED <<providerVars, tableVars, phase, ps>>

WriteRelations ==
    LET d == rs.domain
    IN  /\ rs.at = "read"
        /\ clock < MaxSyncs /\ clock' = clock + 1
        /\ relations' = [relations EXCEPT ![d] =
                            ReconcileRelations(@, rs.mapped, rs.existing, clock')]
        /\ rs' = NoRelationSync
        /\ UNCHANGED <<providerVars, sources, people, allocated, phase, ps>>

AbandonRelations ==
    /\ rs.at # "idle" /\ rs' = NoRelationSync
    /\ UNCHANGED <<providerVars, tableVars, phase, ps>>

-----------------------------------------------------------------------------
(* The transition. An operator may run its steps at any time; one whose plan  *)
(* is not ready changes nothing.                                              *)

BackfillSources ==
    /\ phase # "scope" /\ SourcesReady(sources["legacy"], sources["scope"])
    /\ sources' = [legacy |-> [a \in Photos |-> "none"],
                   scope |-> Backfilled(sources["legacy"], sources["scope"])]
    /\ UNCHANGED <<providerVars, people, relations, allocated, clock, phase, ps, rs>>

TransitionPersons ==
    /\ phase # "scope" /\ PersonsReady(people["legacy"], people["scope"])
    /\ people' = [people EXCEPT !["scope"] = CopiedPersons(people["legacy"], @)]
    /\ UNCHANGED <<providerVars, sources, relations, allocated, clock, phase, ps, rs>>

TransitionRelations ==
    /\ phase # "scope"
    /\ RelationsReady(relations["legacy"], relations["scope"],
                      sources["scope"], people["scope"])
    /\ relations' = [relations EXCEPT !["scope"] = CopiedRelations(relations["legacy"], @)]
    /\ UNCHANGED <<providerVars, sources, people, allocated, clock, phase, ps, rs>>

\* No legacy timer, service or process is left.
StopLegacy ==
    /\ phase = "legacy" /\ ps.at = "idle" /\ rs.at = "idle"
    /\ phase' = "stopped"
    /\ UNCHANGED <<providerVars, tableVars, ps, rs>>

\* Database.evidence with the expected counts, before the Scope is enabled.
EnableScope ==
    /\ phase = "stopped" /\ phase' = "scope"
    /\ \A a \in Photos : sources["legacy"][a] = "none"
    /\ people["scope"] = people["legacy"]
    /\ relations["scope"] = relations["legacy"]
    /\ \A p \in Pairs : relations["scope"][p] # NoRelation =>
         Evidenced(sources["scope"], people["scope"], p)
    /\ UNCHANGED <<providerVars, tableVars, ps, rs>>

PersonNext ==
    \/ \E e \in ExternalIds : PeopleChange(e)
    \/ \E a \in Photos, e \in ExternalIds : TagChange(a, e)
    \/ \E d \in Domains, a \in Photos : Ingest(d, a)
    \/ \E d \in Domains : StartPeople(d) \/ StartRelations(d)
    \/ PeoplePage \/ ReconcilePeople \/ AbandonPeople
    \/ RelationPage \/ ReadRelations \/ WriteRelations \/ AbandonRelations
    \/ BackfillSources \/ TransitionPersons \/ TransitionRelations
    \/ StopLegacy \/ EnableScope

PersonSpec == PersonInit /\ [][PersonNext]_personVars

-----------------------------------------------------------------------------
(* Properties                                                                 *)

PersonTypeOK ==
    /\ catalog \subseteq ExternalIds /\ tags \subseteq Photos \X catalog
    /\ changes \in 0..MaxChanges
    /\ sources \in [Domains -> [Photos -> {"none", "active", "inactive"}]]
    /\ people \in [Domains -> [ExternalIds ->
                    [person : 0..MaxPersons, inactive_at : 0..MaxSyncs]]]
    /\ relations \in [Domains -> [Pairs -> NoRelation..MaxSyncs]]
    /\ allocated \in 0..MaxPersons /\ clock \in 0..MaxSyncs
    /\ phase \in {"legacy", "stopped", "scope"}
    /\ ps.domain \in Domains /\ ps.seen \subseteq ExternalIds
    /\ rs.domain \in Domains /\ rs.mapped \subseteq Pairs /\ rs.existing \subseteq Pairs

\* A Person is one external identity and an external identity is one Person,
\* however often it disappears and comes back, and on both sides of the
\* transition into the Scope (the identity of PersonRepository._resolve_in_session
\* and ScopedPersonRepository._resolve).
OnePersonPerIdentity ==
    \A c, d \in Domains : \A e \in Known(people[c]), f \in Known(people[d]) :
        people[c][e].person = people[d][f].person <=> e = f

\* Every relation of the Scope has a source of the Scope with content of the
\* resource and an observation of the Person in the Scope, also after the
\* scoped writers have gone on (RELATION_RESOURCE_EVIDENCE and
\* RELATION_PERSON_EVIDENCE of Database.evidence stay true).
RelationsHaveEvidence ==
    \A p \in Pairs : relations["scope"][p] # NoRelation =>
        Evidenced(sources["scope"], people["scope"], p)

\* The people tables of both domains are what they should be.
PeopleWellFormed == PersonTypeOK /\ OnePersonPerIdentity /\ RelationsHaveEvidence

\* A snapshot of the people is right although it is read page by page: without
\* a change of the Provider during the scan the active identities are its
\* people, and a single change makes nobody inactive who was there throughout.
PeopleScanIsSound ==
    [][ReconcilePeople =>
        /\ ps.met = 0 => ActiveIds(people'[ps.domain]) = catalog
        /\ ps.met <= 1 => ps.always \subseteq ActiveIds(people'[ps.domain])]_personVars

\* What the tags say of the photos and people the domain knows.
RelationImage(d) == Mapped(tags, ActivePhotos(d), PersonOf(people[d]))

\* When nothing moved since the relation synchronization began, the active
\* relations are exactly those of the Provider; under the formal lock no active
\* relation is left without an active photo and an active person even if the
\* Provider moved.
RelationsMirror ==
    [][WriteRelations =>
        LET d == rs.domain
            active == {p \in Pairs : relations'[d][p] = Active}
        IN  /\ rs.quiet => active = RelationImage(d)
            /\ d = "scope" => active \subseteq
                 {ResourceOf[a] : a \in ActivePhotos(d)}
                   \X {people[d][e].person : e \in ActiveIds(people[d])}]_personVars

\* A step of the transition copies every legacy row unchanged, keeps the legacy
\* rows and rewrites no row of the Scope, so that it can be repeated.
TransitionsCopy ==
    [][/\ TransitionPersons =>
            /\ people'["legacy"] = people["legacy"]
            /\ \A e \in Known(people["legacy"]) : people'["scope"][e] = people["legacy"][e]
            /\ \A e \in Known(people["scope"]) : people'["scope"][e] = people["scope"][e]
       /\ TransitionRelations =>
            /\ relations'["legacy"] = relations["legacy"]
            /\ \A p \in Pairs : relations["legacy"][p] # NoRelation =>
                 relations'["scope"][p] = relations["legacy"][p]
            /\ \A p \in Pairs : relations["scope"][p] # NoRelation =>
                 relations'["scope"][p] = relations["scope"][p]
      ]_personVars
=============================================================================
