---------------------------- MODULE ScopeBinding ----------------------------
(* Every Principal has a Personal DB of its own, and whatever writes into it  *)
(* or reads a Provider for it is bound to one Observation Scope of that DB:   *)
(* ingestion (scoped_ingestion), remote enrichment (observation/scoped_access)*)
(* and resource access (resource_access/scoped). A second UUID of the same    *)
(* value in another DB is another Scope.                                      *)
EXTENDS ProviderIdentity, Integers, FiniteSets, Sequences

CONSTANTS
    Registry,        \* principal -> its database and whether it is enabled
    Bindings,        \* (principal, scope, provider, enabled): credentials
    ExternalObjects,
    MaxIdentityWrites, MaxSources, MaxVersion, MaxContexts, MaxDecisions   \* bounds

ASSUME ScopeBindingAssumption ==
    /\ MaxIdentityWrites \in Nat /\ MaxSources \in Nat /\ MaxVersion \in Nat /\ MaxContexts \in Nat
    /\ MaxDecisions \in Nat
    /\ None \notin Scopes \cup Accounts
    /\ None \notin [type : ProviderTypes, enabled : BOOLEAN]
    /\ None \notin [instance : Instances, enabled : BOOLEAN]
    /\ None \notin [instance : Instances, account : Accounts \cup {None}, enabled : BOOLEAN]
    /\ None \notin [database : {Registry[p].database : p \in DOMAIN Registry}, scope : Scopes,
                    instance : Instances, account : Accounts \cup {None}, type : ProviderTypes]
    /\ \A p, q \in DOMAIN Registry : Registry[p].database = Registry[q].database => p = q
    /\ \A a, b \in Bindings : a.principal = b.principal /\ a.scope = b.scope => a = b

VARIABLES
    identity,      \* database -> its Provider identities
    rows,          \* database -> its asset sources, in the order they were created
    decisions,     \* what Matcher.match decided and no transaction has executed yet
    state,         \* database -> legacy and scoped incremental state
    contexts,      \* the live ingestion runtimes
    fetched,       \* the last read from a Provider: for whom, with which credentials
    writes,
    bound,         \* history: the Scopes each source was ever stored under
    spanned        \* history: a backfill met a decision of a legacy writer on a source

sourceVars == <<rows, decisions, bound, spanned>>
bindingVars == <<identity, sourceVars, state, contexts, fetched, writes>>

Principals == DOMAIN Registry
Databases == {Registry[p].database : p \in Principals}

\* PrincipalDatabaseRouter.resolve.
Routed(p) == Registry[p].enabled
DatabaseOf(p) == Registry[p].database

BindingInit ==
    /\ identity = [d \in Databases |-> NoIdentity]
    /\ rows = [d \in Databases |-> <<>>] /\ bound = [d \in Databases |-> {}]
    /\ decisions = {} /\ spanned = [d \in Databases |-> FALSE]
    /\ state = [d \in Databases |-> [legacy |-> [t \in ProviderTypes |-> None],
                                     scoped |-> [s \in Scopes |-> None]]]
    /\ contexts = {} /\ fetched = {} /\ writes = 0

-----------------------------------------------------------------------------
(* The operator's identities                                                  *)

Administer(d, newIdentity) ==
    /\ writes < MaxIdentityWrites /\ writes' = writes + 1
    /\ identity' = [identity EXCEPT ![d] = newIdentity]
    /\ UNCHANGED <<sourceVars, state, contexts, fetched>>

AdminInstance(d, i, type, on) ==
    /\ CanCreateInstance(identity[d], i)
    /\ Administer(d, CreateInstance(identity[d], i, type, on))

AdminAccount(d, c, i, on) ==
    /\ CanCreateAccount(identity[d], c, i)
    /\ Administer(d, CreateAccount(identity[d], c, i, on))

AdminScope(d, s, i, c, on) ==
    /\ CanCreateScope(identity[d], s, i, c)
    /\ Administer(d, CreateScope(identity[d], s, i, c, on))

SetEnabled(d) ==
    \/ \E i \in Instances : /\ identity[d].instances[i] # None
                            /\ Administer(d, SetInstanceEnabled(identity[d], i,
                                             ~identity[d].instances[i].enabled))
    \/ \E c \in Accounts : /\ identity[d].accounts[c] # None
                           /\ Administer(d, SetAccountEnabled(identity[d], c,
                                            ~identity[d].accounts[c].enabled))
    \/ \E s \in Scopes : /\ identity[d].scopes[s] # None
                         /\ Administer(d, SetScopeEnabled(identity[d], s,
                                          ~identity[d].scopes[s].enabled))

-----------------------------------------------------------------------------
(* Ingestion                                                                  *)

\* ScopedIngestionRuntimeFactory.build.
Build(p, s, provider) ==
    LET db == identity[DatabaseOf(p)]
    IN  /\ Routed(p) /\ IsUsable(db, s, provider)
        /\ Cardinality(contexts) < MaxContexts
        /\ contexts' = contexts \cup
             {[database |-> DatabaseOf(p), scope |-> s, instance |-> db.scopes[s].instance,
               account |-> db.scopes[s].account, type |-> provider]}
        /\ UNCHANGED <<identity, sourceVars, state, fetched, writes>>

\* What a runtime had decided when it ended, or died, is decided no more.
Close(ctx) ==
    /\ contexts' = contexts \ {ctx}
    /\ decisions' = {dec \in decisions : dec.writer # ctx}
    /\ UNCHANGED <<identity, rows, bound, spanned, state, fetched, writes>>

Row(provider, object, scope) == [provider |-> provider, object |-> object, scope |-> scope]
Identity(row) == IF row.scope = None THEN <<row.provider, row.object>> ELSE <<row.scope, row.object>>

\* The Matcher reads a source, or finds none (id 0), and decides. What it
\* decided carries the source as it was read; a legacy writer is None.
Decide(d, writer, id, source) ==
    /\ Cardinality(decisions) < MaxDecisions
    /\ decisions' = decisions \cup {[database |-> d, writer |-> writer, id |-> id, source |-> source]}
    /\ UNCHANGED <<identity, rows, bound, spanned, state, contexts, fetched, writes>>

\* find_source of a legacy writer: the source without Scope; when there is none,
\* one of a single Scope is overlooked and several are refused.
MatchLegacy(d, provider, object) ==
    LET same == {i \in DOMAIN rows[d] : rows[d][i].provider = provider /\ rows[d][i].object = object}
        legacy == {i \in same : rows[d][i].scope = None}
    IN  \/ \E i \in legacy : Decide(d, None, i, rows[d][i])
        \/ /\ legacy = {} /\ Cardinality(same) <= 1
           /\ Decide(d, None, 0, Row(provider, object, None))

\* find_source_in_scope of a runtime.
MatchScoped(ctx, object) ==
    LET d == ctx.database
        found == {i \in DOMAIN rows[d] : rows[d][i].scope = ctx.scope /\ rows[d][i].object = object}
    IN  \/ \E i \in found : Decide(d, ctx, i, rows[d][i])
        \/ found = {} /\ Decide(d, ctx, 0, Row(ctx.type, object, None))

\* An exception, or the death of a legacy run.
Abandon(dec) ==
    /\ decisions' = decisions \ {dec}
    /\ UNCHANGED <<identity, rows, bound, spanned, state, contexts, fetched, writes>>

\* _bind_action: another Provider or another Scope is refused (nothing that the
\* runtime's own Matcher decided is), and the Scope of the runtime is what is
\* written; a legacy writer writes the Scope it has read.
Bound(ctx, row) == row.provider = ctx.type /\ row.scope \in {None, ctx.scope}
Written(dec) == IF dec.writer = None THEN dec.source ELSE [dec.source EXCEPT !.scope = dec.writer.scope]

\* PostgreSQLRepository checks a source of a Scope once more.
Storable(db, row) == row.scope # None => MapsTo(db, row.provider, row.scope)

Accepted(dec) ==
    /\ dec.writer # None => Bound(dec.writer, dec.source)
    /\ Storable(identity[dec.database], Written(dec))

\* The unique indexes of the sources with and without Scope.
Distinct(sources) == \A i, j \in DOMAIN sources : Identity(sources[i]) = Identity(sources[j]) => i = j

WriteRows(d, sources) ==
    /\ Distinct(sources)
    /\ rows' = [rows EXCEPT ![d] = sources]
    /\ bound' = [bound EXCEPT ![d] =
                    @ \cup {<<i, sources[i].scope>> : i \in {j \in DOMAIN sources : sources[j].scope # None}}]
    /\ UNCHANGED <<identity, state, contexts, fetched, writes>>

\* CREATE_SOURCE, of a runtime or of a legacy writer.
CreateSource(dec) ==
    LET d == dec.database IN
    /\ dec.id = 0 /\ Accepted(dec) /\ Len(rows[d]) < MaxSources
    /\ WriteRows(d, Append(rows[d], Written(dec)))
    /\ decisions' = decisions \ {dec} /\ UNCHANGED spanned

\* UPDATE_SOURCE writes the Scope too, whatever it has become since the source
\* was read. (DEACTIVATE_SOURCE passes the same checks and leaves it alone.)
UpdateSource(dec) ==
    LET d == dec.database IN
    /\ dec.id # 0 /\ Accepted(dec)
    /\ WriteRows(d, [rows[d] EXCEPT ![dec.id].scope = Written(dec).scope])
    /\ decisions' = decisions \ {dec} /\ UNCHANGED spanned

Rescoped(d, plan) == [i \in DOMAIN rows[d] |-> [rows[d][i] EXCEPT !.scope = plan[rows[d][i].provider]]]

\* Mutant: a source of another Scope is moved to the mapped one.
BackfillRebinding(d, plan) ==
    /\ DOMAIN plan # {} /\ \A i \in DOMAIN rows[d] : rows[d][i].provider \in DOMAIN plan
    /\ \A t \in DOMAIN plan : MapsTo(identity[d], t, plan[t])
    /\ WriteRows(d, Rescoped(d, plan))
    /\ spanned' = [spanned EXCEPT ![d] = @ \/ \E dec \in decisions :
                     dec.database = d /\ dec.writer = None /\ dec.id # 0]
    /\ UNCHANGED decisions

\* _source_observation_scope_plan: every Provider of a source is mapped, every
\* mapped Scope observes its Provider, every source is without Scope or of its
\* target, and the targets are distinct.
Backfill(d, plan) ==
    /\ DOMAIN plan # {} /\ \A i \in DOMAIN rows[d] : rows[d][i].provider \in DOMAIN plan
    /\ \A t \in DOMAIN plan : MapsTo(identity[d], t, plan[t])
    /\ \A i \in DOMAIN rows[d] : rows[d][i].scope \in {None, plan[rows[d][i].provider]}
    /\ WriteRows(d, Rescoped(d, plan))
    /\ spanned' = [spanned EXCEPT ![d] = @ \/ \E dec \in decisions :
                     dec.database = d /\ dec.writer = None /\ dec.id # 0]
    /\ UNCHANGED decisions

-----------------------------------------------------------------------------
(* Incremental state of a Scope (scope_sync_state) and its copy               *)

NewState == [version |-> 0, required |-> FALSE]

\* The legacy incremental run of a Provider writes its row (IncrementalSync).
LegacyAdvance(d, provider) ==
    LET row == state[d].legacy[provider]
    IN  /\ row # None => row.version < MaxVersion
        /\ \E required \in BOOLEAN :
             state' = [state EXCEPT ![d].legacy[provider] =
                IF row = None THEN NewState
                ELSE [version |-> row.version + 1, required |-> required]]
        /\ UNCHANGED <<identity, sourceVars, contexts, fetched, writes>>

\* get_or_create: the row of an existing Scope.
CreateState(ctx) ==
    LET d == ctx.database
    IN  /\ identity[d].scopes[ctx.scope] # None /\ state[d].scoped[ctx.scope] = None
        /\ state' = [state EXCEPT ![d].scoped[ctx.scope] = NewState]
        /\ UNCHANGED <<identity, sourceVars, contexts, fetched, writes>>

\* _cas: the version a run read, and for a checkpoint or a recovery also the
\* latch it expects; a mark expects no latch.
CompareAndSwap(ctx, expected, latch, required) ==
    LET d == ctx.database
        row == state[d].scoped[ctx.scope]
    IN  /\ row # None /\ row.version = expected /\ expected < MaxVersion
        /\ required \/ row.required = latch
        /\ state' = [state EXCEPT ![d].scoped[ctx.scope] =
                        [version |-> expected + 1, required |-> required]]
        /\ UNCHANGED <<identity, sourceVars, contexts, fetched, writes>>

\* Mutant: a row of the Scope is overwritten.
CopyOver(d, plan) ==
    /\ DOMAIN plan # {}
    /\ DOMAIN plan = {t \in ProviderTypes : state[d].legacy[t] # None}
    /\ \A t \in DOMAIN plan : MapsTo(identity[d], t, plan[t])
    /\ state' = [state EXCEPT ![d].scoped =
                    [s \in Scopes |-> IF \E t \in DOMAIN plan : plan[t] = s
                                      THEN state[d].legacy[CHOOSE t \in DOMAIN plan : plan[t] = s]
                                      ELSE @[s]]]
    /\ UNCHANGED <<identity, sourceVars, contexts, fetched, writes>>

\* copy_legacy_states_to_scopes: every and only existing rows, to Scopes of the
\* Provider; an existing row of the Scope must be equivalent. (A Scope is of one
\* Provider, so no two rows of one mechanism meet.)
CopyStates(d, plan) ==
    /\ DOMAIN plan # {}
    /\ DOMAIN plan = {t \in ProviderTypes : state[d].legacy[t] # None}
    /\ \A t \in DOMAIN plan :
         /\ MapsTo(identity[d], t, plan[t])
         /\ state[d].scoped[plan[t]] \in {None, state[d].legacy[t]}
    /\ state' = [state EXCEPT ![d].scoped =
                    [s \in Scopes |-> IF \E t \in DOMAIN plan : plan[t] = s
                                      THEN state[d].legacy[CHOOSE t \in DOMAIN plan : plan[t] = s]
                                      ELSE @[s]]]
    /\ UNCHANGED <<identity, sourceVars, contexts, fetched, writes>>

-----------------------------------------------------------------------------
(* Reading a Provider for a source                                            *)

\* ProviderAccessBindingRegistry.resolve.
BindingFor(p, s, provider) ==
    {b \in Bindings : b.principal = p /\ b.scope = s /\ b.enabled /\ b.provider = provider}

\* ScopedEnrichmentAccessResolver.resolve, and _validated_binding alike: a source
\* without provenance is never read remotely.
Readable(d, row) ==
    row.scope # None /\ IsUsable(identity[d], row.scope, row.provider)

\* One remote read, for an answer or for an extractor.
Fetch(p, row) ==
    LET d == DatabaseOf(p)
    IN  /\ Routed(p) /\ Readable(d, row)
        /\ \E b \in BindingFor(p, row.scope, row.provider) :
             fetched' = {[principal |-> p, row |-> row, binding |-> b]}
        /\ UNCHANGED <<identity, sourceVars, state, contexts, writes>>

IdentityNext ==
    \/ \E d \in Databases, i \in Instances, on \in BOOLEAN :
         \/ \E t \in ProviderTypes : AdminInstance(d, i, t, on)
         \/ \E c \in Accounts : AdminAccount(d, c, i, on)
         \/ \E s \in Scopes, c \in Accounts \cup {None} : AdminScope(d, s, i, c, on)
    \/ \E d \in Databases : SetEnabled(d)

RuntimeNext ==
    \/ \E p \in Principals, s \in Scopes, t \in ProviderTypes : Build(p, s, t)
    \/ \E ctx \in contexts : Close(ctx)

SourceNext ==
    \/ \E ctx \in contexts, o \in ExternalObjects : MatchScoped(ctx, o)
    \/ \E d \in Databases, t \in ProviderTypes, o \in ExternalObjects : MatchLegacy(d, t, o)
    \/ \E dec \in decisions : CreateSource(dec) \/ UpdateSource(dec) \/ Abandon(dec)
    \/ \E d \in Databases, ts \in SUBSET ProviderTypes :
         \E plan \in [ts -> Scopes] : Backfill(d, plan)
    \/ \E p \in Principals : \E i \in DOMAIN rows[DatabaseOf(p)] :
         Fetch(p, rows[DatabaseOf(p)][i])

StateNext ==
    \/ \E ctx \in contexts :
         \/ CreateState(ctx)
         \/ \E v \in 0..MaxVersion, latch, required \in BOOLEAN :
              CompareAndSwap(ctx, v, latch, required)
    \/ \E d \in Databases, t \in ProviderTypes : LegacyAdvance(d, t)
    \/ \E d \in Databases, ts \in SUBSET ProviderTypes :
         \E plan \in [ts -> Scopes] : CopyStates(d, plan)

BindingNext == IdentityNext \/ RuntimeNext \/ SourceNext \/ StateNext

BindingSpec == BindingInit /\ [][BindingNext]_bindingVars

-----------------------------------------------------------------------------
(* Properties                                                                 *)

BindingTypeOK ==
    /\ \A d \in Databases :
         /\ \A i \in Instances : identity[d].instances[i] = None
              \/ identity[d].instances[i] \in [type : ProviderTypes, enabled : BOOLEAN]
         /\ \A s \in Scopes : identity[d].scopes[s] = None
              \/ identity[d].scopes[s] \in [instance : Instances, account : Accounts \cup {None},
                                            enabled : BOOLEAN]
         /\ \A i \in DOMAIN rows[d] :
              rows[d][i] \in [provider : ProviderTypes, object : ExternalObjects,
                              scope : Scopes \cup {None}]
    /\ writes \in 0..MaxIdentityWrites /\ Cardinality(contexts) <= MaxContexts

\* A source with provenance is of the Provider that its Scope observes, in the
\* DB it is stored in, whoever wrote it: a scoped runtime built long ago, the
\* backfill, or one after the other; and no identity is stored twice
\* (SOURCE_WRONG_SCOPE and DUPLICATE_SOURCE of Database.evidence).
SourcesMatchTheirScope ==
    \A d \in Databases :
        /\ \A i \in DOMAIN rows[d] : Storable(identity[d], rows[d][i])
        /\ Distinct(rows[d])

\* What a runtime was built with stays true as long as it lives: Scope,
\* Instance and Account belong together, although it never looks again
\* (ObservationContext). That they are still enabled is not promised.
ContextsStayConsistent ==
    \A ctx \in contexts :
        LET db == identity[ctx.database]
        IN  /\ MapsTo(db, ctx.type, ctx.scope)
            /\ db.scopes[ctx.scope].instance = ctx.instance
            /\ ctx.account # None => db.accounts[ctx.account].instance = ctx.instance

\* No Provider is read with the credentials of another Principal or of another
\* Scope than the one the source was observed in.
CredentialsStayWithTheirScope ==
    \A f \in fetched :
        /\ f.binding.principal = f.principal
        /\ f.binding.scope = f.row.scope
        /\ MapsTo(identity[DatabaseOf(f.principal)], f.binding.provider, f.row.scope)

\* A source that was ever stored under a Scope stays in it: no decision on a
\* source read earlier, and no backfill, takes its provenance away or moves it to
\* another Scope. This rests on the rule that the legacy writer has ended before
\* the backfill: the code does not enforce it, and an update decided before a
\* backfill and executed after it writes "no Scope" over what the backfill wrote.
ProvenanceStays ==
    \A d \in Databases : ~spanned[d] =>
        \A i \in DOMAIN rows[d], s \in Scopes : <<i, s>> \in bound[d] => rows[d][i].scope = s

\* Sources, runtimes and credentials belong to one Scope, and stay with it.
ScopeIsolation ==
    /\ BindingTypeOK
    /\ SourcesMatchTheirScope /\ ProvenanceStays
    /\ ContextsStayConsistent /\ CredentialsStayWithTheirScope

\* The state of a Scope never goes back: a copy starts it and leaves every row
\* that has moved on alone, a swap adds one (STATE_REGRESSION).
ScopedStateAdvances ==
    [][\A d \in Databases, s \in Scopes :
         state[d].scoped[s] # None =>
            \/ state'[d].scoped[s] = state[d].scoped[s]
            \/ state'[d].scoped[s].version = state[d].scoped[s].version + 1]_bindingVars
=============================================================================
