---------------------------- MODULE Scopes_proofs ----------------------------
(***************************************************************************)
(* Proofs about the move to Scopes, for any registry of Principals,        *)
(* credentials, Instances, Accounts and Scopes, any people and photos, and *)
(* any units, schedules and faults: what is bound to a Scope stays in it,  *)
(* a cutover earns every step, and people, their relations and the copies  *)
(* of both are what the Provider and the legacy tables say.                *)
(***************************************************************************)
EXTENDS PersonSync, ScopeBinding, Cutover, SequenceLemmas, FiniteSetTheorems, WellFoundedInduction, SequenceTheorems,
        TLAPS

-----------------------------------------------------------------------------
(* The identities of one DB: they refer to each other and only grow.       *)

InstanceRows == [type : ProviderTypes, enabled : BOOLEAN]
AccountRows == [instance : Instances, enabled : BOOLEAN]
ScopeRows == [instance : Instances, account : Accounts \cup {None}, enabled : BOOLEAN]

Identities == [instances : [Instances -> InstanceRows \cup {None}],
               accounts : [Accounts -> AccountRows \cup {None}],
               scopes : [Scopes -> ScopeRows \cup {None}]]

\* An Account is one of its Instance, a Scope one of its Instance and Account.
Referenced(db) ==
    /\ \A c \in Accounts : db.accounts[c] # None => db.instances[db.accounts[c].instance] # None
    /\ \A s \in Scopes : db.scopes[s] # None =>
         /\ db.instances[db.scopes[s].instance] # None
         /\ db.scopes[s].account # None =>
              /\ db.accounts[db.scopes[s].account] # None
              /\ db.accounts[db.scopes[s].account].instance = db.scopes[s].instance

\* A row stays, and with it everything but being enabled.
Grown(db, new) ==
    /\ \A i \in Instances : db.instances[i] # None =>
         new.instances[i] # None /\ new.instances[i].type = db.instances[i].type
    /\ \A c \in Accounts : db.accounts[c] # None =>
         new.accounts[c] # None /\ new.accounts[c].instance = db.accounts[c].instance
    /\ \A s \in Scopes : db.scopes[s] # None =>
         /\ new.scopes[s] # None
         /\ new.scopes[s].instance = db.scopes[s].instance
         /\ new.scopes[s].account = db.scopes[s].account

Sound(db) == db \in Identities /\ Referenced(db)

\* No row is None.
LEMMA RowsAreNotNone ==
  /\ None \notin InstanceRows /\ None \notin AccountRows /\ None \notin ScopeRows
  /\ None \notin Scopes /\ None \notin Accounts
BY ScopeBindingAssumption DEF InstanceRows, AccountRows, ScopeRows

LEMMA EmptyIsSound == Sound(NoIdentity)
BY DEF Sound, Identities, Referenced, NoIdentity

\* A new Instance refers to nothing.
LEMMA InstanceGrows ==
  ASSUME NEW db, Sound(db), NEW i \in Instances, NEW type \in ProviderTypes,
         NEW on \in BOOLEAN, CanCreateInstance(db, i)
  PROVE  LET new == CreateInstance(db, i, type, on) IN Sound(new) /\ Grown(db, new)
<1> DEFINE row == [type |-> type, enabled |-> on]
           new == CreateInstance(db, i, type, on)
<1>1. row \in InstanceRows /\ row # None
  BY RowsAreNotNone DEF InstanceRows
<1> HIDE DEF row
<1>2. /\ new.instances = [db.instances EXCEPT ![i] = row]
      /\ new.accounts = db.accounts /\ new.scopes = db.scopes /\ new \in Identities
  BY <1>1 DEF Sound, Identities, CreateInstance, row
<1> HIDE DEF new
<1>3. \A j \in Instances : db.instances[j] # None =>
        new.instances[j] = db.instances[j] /\ new.instances[j] # None
  BY <1>1, <1>2 DEF Sound, Identities, CanCreateInstance
<1>4. /\ \A c \in Accounts : db.accounts[c] # None => db.accounts[c].instance \in Instances
      /\ \A s \in Scopes : db.scopes[s] # None => db.scopes[s].instance \in Instances
  BY DEF Sound, Identities, AccountRows, ScopeRows
<1>5. Referenced(new)
  BY <1>2, <1>3, <1>4 DEF Sound, Referenced
<1>6. Grown(db, new)
  BY <1>2, <1>3 DEF Grown
<1> QED
  BY <1>2, <1>5, <1>6 DEF Sound, new

\* A new Account is one of an existing Instance.
LEMMA AccountGrows ==
  ASSUME NEW db, Sound(db), NEW c \in Accounts, NEW i \in Instances,
         NEW on \in BOOLEAN, CanCreateAccount(db, c, i)
  PROVE  LET new == CreateAccount(db, c, i, on) IN Sound(new) /\ Grown(db, new)
<1> DEFINE row == [instance |-> i, enabled |-> on]
           new == CreateAccount(db, c, i, on)
<1>1. row \in AccountRows /\ row # None /\ row.instance = i
  BY RowsAreNotNone DEF AccountRows
<1> HIDE DEF row
<1>2. /\ new.accounts = [db.accounts EXCEPT ![c] = row]
      /\ new.instances = db.instances /\ new.scopes = db.scopes /\ new \in Identities
  BY <1>1 DEF Sound, Identities, CreateAccount, row
<1> HIDE DEF new
<1>3. /\ new.accounts[c] = row
      /\ \A a \in Accounts : a # c => new.accounts[a] = db.accounts[a]
  BY <1>2 DEF Sound, Identities
<1>4. db.accounts[c] = None /\ db.instances[i] # None
  BY DEF CanCreateAccount
<1>5. \A s \in Scopes : db.scopes[s] # None /\ db.scopes[s].account # None =>
        db.scopes[s].account \in Accounts
  BY DEF Sound, Identities, ScopeRows
<1>6. Referenced(new)
  BY <1>1, <1>2, <1>3, <1>4, <1>5 DEF Sound, Referenced
<1>7. Grown(db, new)
  BY <1>2, <1>3, <1>4 DEF Grown
<1> QED
  BY <1>2, <1>6, <1>7 DEF Sound, new

\* A new Scope is one of an existing Instance, and so is its Account.
LEMMA ScopeGrows ==
  ASSUME NEW db, Sound(db), NEW s \in Scopes, NEW i \in Instances,
         NEW c \in Accounts \cup {None}, NEW on \in BOOLEAN, CanCreateScope(db, s, i, c)
  PROVE  LET new == CreateScope(db, s, i, c, on) IN Sound(new) /\ Grown(db, new)
<1> DEFINE row == [instance |-> i, account |-> c, enabled |-> on]
           new == CreateScope(db, s, i, c, on)
<1>1. row \in ScopeRows /\ row # None /\ row.instance = i /\ row.account = c
  BY RowsAreNotNone DEF ScopeRows
<1> HIDE DEF row
<1>2. /\ new.scopes = [db.scopes EXCEPT ![s] = row]
      /\ new.instances = db.instances /\ new.accounts = db.accounts /\ new \in Identities
  BY <1>1 DEF Sound, Identities, CreateScope, row
<1> HIDE DEF new
<1>3. /\ new.scopes[s] = row
      /\ \A t \in Scopes : t # s => new.scopes[t] = db.scopes[t]
  BY <1>2 DEF Sound, Identities
<1>4. Referenced(new)
  BY <1>1, <1>2, <1>3 DEF Sound, Referenced, CanCreateScope
<1>5. Grown(db, new)
  BY <1>2, <1>3 DEF Grown, CanCreateScope
<1> QED
  BY <1>2, <1>4, <1>5 DEF Sound, new

\* Enabling and disabling touch nothing else.
LEMMA EnablingGrows ==
  ASSUME NEW db, Sound(db), NEW on \in BOOLEAN
  PROVE  /\ \A i \in Instances : db.instances[i] # None =>
              LET new == SetInstanceEnabled(db, i, on) IN Sound(new) /\ Grown(db, new)
         /\ \A c \in Accounts : db.accounts[c] # None =>
              LET new == SetAccountEnabled(db, c, on) IN Sound(new) /\ Grown(db, new)
         /\ \A s \in Scopes : db.scopes[s] # None =>
              LET new == SetScopeEnabled(db, s, on) IN Sound(new) /\ Grown(db, new)
<1>1. ASSUME NEW i \in Instances, db.instances[i] # None
      PROVE  LET new == SetInstanceEnabled(db, i, on) IN Sound(new) /\ Grown(db, new)
  <2> DEFINE new == SetInstanceEnabled(db, i, on)
             row == [db.instances[i] EXCEPT !.enabled = on]
  <2>1. row \in InstanceRows /\ row.type = db.instances[i].type /\ row # None
    BY <1>1, RowsAreNotNone DEF Sound, Identities, InstanceRows
  <2> HIDE DEF row
  <2>2. /\ new.instances = [db.instances EXCEPT ![i] = row]
        /\ new.accounts = db.accounts /\ new.scopes = db.scopes /\ new \in Identities
    BY <2>1 DEF Sound, Identities, SetInstanceEnabled, row
  <2> HIDE DEF new
  <2>3. /\ new.instances[i] = row
        /\ \A j \in Instances : j # i => new.instances[j] = db.instances[j]
    BY <2>2 DEF Sound, Identities
  <2>4. /\ \A c \in Accounts : db.accounts[c] # None => db.accounts[c].instance \in Instances
        /\ \A s \in Scopes : db.scopes[s] # None => db.scopes[s].instance \in Instances
    BY DEF Sound, Identities, AccountRows, ScopeRows
  <2>5. Referenced(new) /\ Grown(db, new)
    BY <2>1, <2>2, <2>3, <2>4 DEF Sound, Referenced, Grown
  <2> QED
    BY <2>2, <2>5 DEF Sound, new
<1>2. ASSUME NEW c \in Accounts, db.accounts[c] # None
      PROVE  LET new == SetAccountEnabled(db, c, on) IN Sound(new) /\ Grown(db, new)
  <2> DEFINE new == SetAccountEnabled(db, c, on)
             row == [db.accounts[c] EXCEPT !.enabled = on]
  <2>1. row \in AccountRows /\ row.instance = db.accounts[c].instance /\ row # None
    BY <1>2, RowsAreNotNone DEF Sound, Identities, AccountRows
  <2> HIDE DEF row
  <2>2. /\ new.accounts = [db.accounts EXCEPT ![c] = row]
        /\ new.instances = db.instances /\ new.scopes = db.scopes /\ new \in Identities
    BY <2>1 DEF Sound, Identities, SetAccountEnabled, row
  <2> HIDE DEF new
  <2>3. /\ new.accounts[c] = row
        /\ \A a \in Accounts : a # c => new.accounts[a] = db.accounts[a]
    BY <2>2 DEF Sound, Identities
  <2>4. \A s \in Scopes : db.scopes[s] # None /\ db.scopes[s].account # None =>
          db.scopes[s].account \in Accounts
    BY DEF Sound, Identities, ScopeRows
  <2>5. Referenced(new) /\ Grown(db, new)
    BY <1>2, <2>1, <2>2, <2>3, <2>4 DEF Sound, Referenced, Grown
  <2> QED
    BY <2>2, <2>5 DEF Sound, new
<1>3. ASSUME NEW s \in Scopes, db.scopes[s] # None
      PROVE  LET new == SetScopeEnabled(db, s, on) IN Sound(new) /\ Grown(db, new)
  <2> DEFINE new == SetScopeEnabled(db, s, on)
             row == [db.scopes[s] EXCEPT !.enabled = on]
  <2>1. /\ row \in ScopeRows /\ row # None
        /\ row.instance = db.scopes[s].instance /\ row.account = db.scopes[s].account
    BY <1>3, RowsAreNotNone DEF Sound, Identities, ScopeRows
  <2> HIDE DEF row
  <2>2. /\ new.scopes = [db.scopes EXCEPT ![s] = row]
        /\ new.instances = db.instances /\ new.accounts = db.accounts /\ new \in Identities
    BY <2>1 DEF Sound, Identities, SetScopeEnabled, row
  <2> HIDE DEF new
  <2>3. /\ new.scopes[s] = row
        /\ \A t \in Scopes : t # s => new.scopes[t] = db.scopes[t]
    BY <2>2 DEF Sound, Identities
  <2>4. Referenced(new) /\ Grown(db, new)
    BY <1>3, <2>1, <2>2, <2>3 DEF Sound, Referenced, Grown
  <2> QED
    BY <2>2, <2>4 DEF Sound, new
<1> QED
  BY <1>1, <1>2, <1>3

\* What a Scope observes never changes.
LEMMA MappingStays ==
  ASSUME NEW db, NEW new, Sound(db), Grown(db, new),
         NEW type, NEW s \in Scopes, MapsTo(db, type, s)
  PROVE  MapsTo(new, type, s)
<1>1. db.scopes[s] # None /\ db.scopes[s].instance \in Instances
  BY DEF MapsTo, Sound, Identities, ScopeRows
<1> QED
  BY <1>1 DEF MapsTo, TypeOf, Grown, Sound, Referenced

-----------------------------------------------------------------------------
(* The inductive invariant.                                                *)

SourceRows == [provider : ProviderTypes, object : ExternalObjects, scope : Scopes \cup {None}]
Contexts == [database : Databases, scope : Scopes, instance : Instances,
             account : Accounts \cup {None}, type : ProviderTypes]
Fetches == [principal : Principals, row : SourceRows, binding : Bindings]
Decisions == [database : Databases, writer : Contexts \cup {None}, id : Nat, source : SourceRows]

BindingTypes ==
    /\ identity \in [Databases -> Identities]
    /\ rows \in [Databases -> Seq(SourceRows)]
    /\ decisions \subseteq Decisions
    /\ bound \in [Databases -> SUBSET (Nat \X Scopes)]
    /\ spanned \in [Databases -> BOOLEAN]
    /\ contexts \subseteq Contexts /\ IsFiniteSet(contexts)
    /\ fetched \subseteq Fetches
    /\ writes \in 0..MaxIdentityWrites /\ Cardinality(contexts) <= MaxContexts

IdentitiesRefer == \A d \in Databases : Referenced(identity[d])

\* A runtime still holds what its Scope says.
ContextsRecordTheirScope ==
    \A ctx \in contexts :
        LET db == identity[ctx.database]
        IN  /\ MapsTo(db, ctx.type, ctx.scope)
            /\ db.scopes[ctx.scope].instance = ctx.instance
            /\ db.scopes[ctx.scope].account = ctx.account

FetchedHadScope == \A f \in fetched : f.row.scope # None

\* A decision on a source is about one that is there, of the same Provider, and,
\* unless a backfill met a legacy decision, of the Scope that the writer writes.
DecisionsFollowRows ==
    \A dec \in decisions :
        /\ dec.writer # None => dec.writer.database = dec.database
        /\ dec.id # 0 =>
             /\ dec.id \in DOMAIN rows[dec.database]
             /\ rows[dec.database][dec.id].provider = dec.source.provider
             /\ dec.writer = None => dec.source.scope = None
             /\ ~spanned[dec.database] =>
                  rows[dec.database][dec.id].scope
                    = IF dec.writer = None THEN None ELSE dec.writer.scope

BoundIsOfRows ==
    \A d \in Databases, i \in Nat, s \in Scopes : <<i, s>> \in bound[d] => i \in DOMAIN rows[d]

BindInv ==
    /\ BindingTypes /\ IdentitiesRefer
    /\ SourcesMatchTheirScope /\ ContextsRecordTheirScope
    /\ FetchedHadScope /\ CredentialsStayWithTheirScope
    /\ DecisionsFollowRows /\ BoundIsOfRows /\ ProvenanceStays

LEMMA DatabaseOfPrincipal == ASSUME NEW p \in Principals PROVE DatabaseOf(p) \in Databases
BY DEF DatabaseOf, Databases, Principals

LEMMA BindInitHolds == BindingInit => BindInv
<1> SUFFICES ASSUME BindingInit PROVE BindInv
  OBVIOUS
<1>1. IsFiniteSet({}) /\ Cardinality({}) = 0
  BY FS_EmptySet
<1>2. BindingTypes
  BY <1>1, EmptyIsSound, ScopeBindingAssumption DEF BindingInit, BindingTypes, Sound
<1>3. IdentitiesRefer
  BY EmptyIsSound DEF BindingInit, IdentitiesRefer, Sound
<1>4. SourcesMatchTheirScope
  BY DEF BindingInit, SourcesMatchTheirScope, Distinct
<1>5. DecisionsFollowRows /\ BoundIsOfRows /\ ProvenanceStays
  BY DEF BindingInit, DecisionsFollowRows, BoundIsOfRows, ProvenanceStays
<1> QED
  BY <1>2, <1>3, <1>4, <1>5 DEF BindingInit, BindInv, ContextsRecordTheirScope, FetchedHadScope,
       CredentialsStayWithTheirScope

-----------------------------------------------------------------------------
(* The operator's writes: everything bound before stays bound.             *)

LEMMA AdministerStep ==
  ASSUME BindInv, NEW d \in Databases, NEW db, Sound(db), Grown(identity[d], db),
         Administer(d, db)
  PROVE  BindInv'
<1>1. /\ identity' = [identity EXCEPT ![d] = db]
      /\ writes < MaxIdentityWrites /\ writes' = writes + 1
      /\ UNCHANGED <<sourceVars, contexts, fetched>>
  BY DEF Administer
<1>2. BindingTypes'
  BY <1>1, ScopeBindingAssumption DEF BindInv, BindingTypes, Sound, sourceVars
<1>3. /\ identity'[d] = db
      /\ \A e \in Databases : e # d => identity'[e] = identity[e]
  BY <1>1 DEF BindInv, BindingTypes
<1>4. IdentitiesRefer'
  BY <1>3 DEF IdentitiesRefer, BindInv, Sound
<1>5. \A e \in Databases : Sound(identity[e])
  BY DEF BindInv, BindingTypes, IdentitiesRefer, Sound
<1>6. ASSUME NEW e \in Databases, NEW type, NEW s \in Scopes, MapsTo(identity[e], type, s)
      PROVE  MapsTo(identity'[e], type, s)
  BY <1>3, <1>5, <1>6, MappingStays
<1>7. ASSUME NEW e \in Databases, NEW s \in Scopes, identity[e].scopes[s] # None
      PROVE  /\ identity'[e].scopes[s].instance = identity[e].scopes[s].instance
             /\ identity'[e].scopes[s].account = identity[e].scopes[s].account
  BY <1>3, <1>7 DEF Grown
<1>8. SourcesMatchTheirScope'
  <2>1. ASSUME NEW e \in Databases, NEW i \in DOMAIN rows[e]
        PROVE  Storable(identity'[e], rows[e][i])
    <3>1. rows[e][i] \in SourceRows
      BY DEF BindInv, BindingTypes
    <3>2. rows[e][i].scope # None => rows[e][i].scope \in Scopes
      BY <3>1 DEF SourceRows
    <3>3. Storable(identity[e], rows[e][i])
      BY DEF BindInv, SourcesMatchTheirScope
    <3> QED
      BY <1>6, <3>2, <3>3 DEF Storable
  <2> QED
    BY <1>1, <2>1 DEF BindInv, SourcesMatchTheirScope, sourceVars
<1>9. ContextsRecordTheirScope'
  <2>1. ASSUME NEW ctx \in contexts
        PROVE  /\ MapsTo(identity'[ctx.database], ctx.type, ctx.scope)
               /\ identity'[ctx.database].scopes[ctx.scope].instance = ctx.instance
               /\ identity'[ctx.database].scopes[ctx.scope].account = ctx.account
    <3>1. ctx.database \in Databases /\ ctx.scope \in Scopes
      BY DEF BindInv, BindingTypes, Contexts
    <3>2. MapsTo(identity[ctx.database], ctx.type, ctx.scope)
      BY DEF BindInv, ContextsRecordTheirScope
    <3>3. identity[ctx.database].scopes[ctx.scope] # None
      BY <3>2 DEF MapsTo
    <3> QED
      BY <1>6, <1>7, <3>1, <3>2, <3>3 DEF BindInv, ContextsRecordTheirScope
  <2> QED
    BY <1>1, <2>1 DEF ContextsRecordTheirScope
<1>10. FetchedHadScope' /\ CredentialsStayWithTheirScope'
  <2>1. ASSUME NEW f \in fetched
        PROVE  MapsTo(identity'[DatabaseOf(f.principal)], f.binding.provider, f.row.scope)
    <3>1. f.principal \in Principals /\ f.row.scope \in Scopes
      BY DEF BindInv, BindingTypes, Fetches, SourceRows, FetchedHadScope
    <3>2. MapsTo(identity[DatabaseOf(f.principal)], f.binding.provider, f.row.scope)
      BY DEF BindInv, CredentialsStayWithTheirScope
    <3> QED
      BY <1>6, <3>1, <3>2, DatabaseOfPrincipal
  <2> QED
    BY <1>1, <2>1 DEF BindInv, FetchedHadScope, CredentialsStayWithTheirScope
<1>11. (DecisionsFollowRows /\ BoundIsOfRows /\ ProvenanceStays)'
  BY <1>1 DEF BindInv, DecisionsFollowRows, BoundIsOfRows, ProvenanceStays, sourceVars
<1> QED
  BY <1>2, <1>4, <1>8, <1>9, <1>10, <1>11 DEF BindInv

LEMMA OperatorStepBinds ==
  ASSUME BindInv,
         \/ \E d \in Databases, i \in Instances, on \in BOOLEAN :
              \/ \E t \in ProviderTypes : AdminInstance(d, i, t, on)
              \/ \E c \in Accounts : AdminAccount(d, c, i, on)
              \/ \E s \in Scopes, c \in Accounts \cup {None} : AdminScope(d, s, i, c, on)
         \/ \E d \in Databases : SetEnabled(d)
  PROVE  BindInv'
<1>1. \A d \in Databases : Sound(identity[d])
  BY DEF BindInv, BindingTypes, IdentitiesRefer, Sound
<1>2. ASSUME NEW d \in Databases, NEW i \in Instances, NEW on \in BOOLEAN,
             NEW t \in ProviderTypes, AdminInstance(d, i, t, on)
      PROVE  BindInv'
  BY <1>1, <1>2, InstanceGrows, AdministerStep DEF AdminInstance
<1>3. ASSUME NEW d \in Databases, NEW i \in Instances, NEW on \in BOOLEAN,
             NEW c \in Accounts, AdminAccount(d, c, i, on)
      PROVE  BindInv'
  BY <1>1, <1>3, AccountGrows, AdministerStep DEF AdminAccount
<1>4. ASSUME NEW d \in Databases, NEW i \in Instances, NEW on \in BOOLEAN,
             NEW s \in Scopes, NEW c \in Accounts \cup {None}, AdminScope(d, s, i, c, on)
      PROVE  BindInv'
  BY <1>1, <1>4, ScopeGrows, AdministerStep DEF AdminScope
<1>5. ASSUME NEW d \in Databases, SetEnabled(d)
      PROVE  BindInv'
  <2>1. CASE \E i \in Instances :
               /\ identity[d].instances[i] # None
               /\ Administer(d, SetInstanceEnabled(identity[d], i,
                                                   ~identity[d].instances[i].enabled))
    BY <1>1, <2>1, EnablingGrows, AdministerStep
  <2>2. CASE \E c \in Accounts :
               /\ identity[d].accounts[c] # None
               /\ Administer(d, SetAccountEnabled(identity[d], c,
                                                  ~identity[d].accounts[c].enabled))
    BY <1>1, <2>2, EnablingGrows, AdministerStep
  <2>3. CASE \E s \in Scopes :
               /\ identity[d].scopes[s] # None
               /\ Administer(d, SetScopeEnabled(identity[d], s,
                                                ~identity[d].scopes[s].enabled))
    BY <1>1, <2>3, EnablingGrows, AdministerStep
  <2> QED
    BY <1>5, <2>1, <2>2, <2>3 DEF SetEnabled
<1> QED
  BY <1>2, <1>3, <1>4, <1>5

-----------------------------------------------------------------------------
(* Ingestion and remote reads.                                             *)

\* A runtime is built from the rows of its Scope.
LEMMA BuildStep ==
  ASSUME BindInv, NEW p \in Principals, NEW s \in Scopes, NEW t \in ProviderTypes,
         Build(p, s, t)
  PROVE  BindInv'
<1> DEFINE d == DatabaseOf(p)
           ctx == [database |-> d, scope |-> s, instance |-> identity[d].scopes[s].instance,
                   account |-> identity[d].scopes[s].account, type |-> t]
<1>1. /\ IsUsable(identity[d], s, t) /\ Cardinality(contexts) < MaxContexts
      /\ contexts' = contexts \cup {ctx}
      /\ UNCHANGED <<identity, rows, decisions, bound, spanned, fetched, writes>>
  BY DEF Build, sourceVars
<1>2. d \in Databases
  BY DatabaseOfPrincipal
<1>3. MapsTo(identity[d], t, s)
  BY <1>1 DEF IsUsable, MapsTo
<1>4. ctx \in Contexts
  BY <1>2, <1>3 DEF Contexts, BindInv, BindingTypes, Identities, ScopeRows, MapsTo
<1>5. BindingTypes'
  <2>1. IsFiniteSet(contexts) /\ Cardinality(contexts) \in Nat
    BY FS_CardinalityType DEF BindInv, BindingTypes
  <2>2. /\ IsFiniteSet(contexts \cup {ctx})
        /\ Cardinality(contexts \cup {ctx}) \in {Cardinality(contexts), Cardinality(contexts) + 1}
    BY <2>1, FS_AddElement
  <2> QED
    BY <1>1, <1>4, <2>1, <2>2, ScopeBindingAssumption DEF BindInv, BindingTypes
<1>6. ContextsRecordTheirScope'
  BY <1>1, <1>3 DEF BindInv, ContextsRecordTheirScope
<1> QED
  BY <1>1, <1>5, <1>6 DEF BindInv, IdentitiesRefer, SourcesMatchTheirScope, FetchedHadScope,
       CredentialsStayWithTheirScope, DecisionsFollowRows, BoundIsOfRows, ProvenanceStays

LEMMA CloseStep ==
  ASSUME BindInv, NEW ctx \in contexts, Close(ctx)
  PROVE  BindInv'
<1>1. /\ contexts' = contexts \ {ctx} /\ decisions' \subseteq decisions
      /\ UNCHANGED <<identity, rows, bound, spanned, fetched, writes>>
  BY DEF Close
<1>2. BindingTypes'
  <2>1. IsFiniteSet(contexts \ {ctx}) /\ Cardinality(contexts \ {ctx}) = Cardinality(contexts) - 1
    BY FS_RemoveElement DEF BindInv, BindingTypes
  <2>2. Cardinality(contexts) \in Nat
    BY FS_CardinalityType DEF BindInv, BindingTypes
  <2> QED
    BY <1>1, <2>1, <2>2, ScopeBindingAssumption DEF BindInv, BindingTypes
<1> QED
  BY <1>1, <1>2 DEF BindInv, IdentitiesRefer, SourcesMatchTheirScope, FetchedHadScope,
       CredentialsStayWithTheirScope, ContextsRecordTheirScope,
       DecisionsFollowRows, BoundIsOfRows, ProvenanceStays

\* A decision is about what is stored at that moment.
LEMMA DecideStep ==
  ASSUME BindInv, NEW d \in Databases, NEW w \in Contexts \cup {None}, NEW i \in Nat,
         NEW source \in SourceRows, Decide(d, w, i, source),
         w # None => w.database = d,
         i # 0 => /\ i \in DOMAIN rows[d] /\ source = rows[d][i]
                  /\ source.scope = IF w = None THEN None ELSE w.scope
  PROVE  BindInv'
<1> DEFINE dec == [database |-> d, writer |-> w, id |-> i, source |-> source]
<1>1. /\ decisions' = decisions \cup {dec}
      /\ UNCHANGED <<identity, rows, bound, spanned, contexts, fetched, writes>>
  BY DEF Decide
<1>2. dec \in Decisions
  BY DEF Decisions
<1>3. BindingTypes'
  BY <1>1, <1>2 DEF BindInv, BindingTypes
<1>4. DecisionsFollowRows'
  BY <1>1 DEF BindInv, DecisionsFollowRows
<1> QED
  BY <1>1, <1>3, <1>4 DEF BindInv, IdentitiesRefer, SourcesMatchTheirScope, FetchedHadScope,
       CredentialsStayWithTheirScope, ContextsRecordTheirScope, BoundIsOfRows, ProvenanceStays

LEMMA MatchStep ==
  ASSUME BindInv,
         \/ \E ctx \in contexts, o \in ExternalObjects : MatchScoped(ctx, o)
         \/ \E d \in Databases, t \in ProviderTypes, o \in ExternalObjects : MatchLegacy(d, t, o)
  PROVE  BindInv'
<1>1. ASSUME NEW ctx \in contexts, NEW o \in ExternalObjects, MatchScoped(ctx, o)
      PROVE  BindInv'
  <2>1. ctx \in Contexts /\ ctx # None /\ ctx.database \in Databases
    BY ScopeBindingAssumption DEF BindInv, BindingTypes, Contexts, Databases, Principals
  <2>2. CASE \E i \in DOMAIN rows[ctx.database] :
               /\ rows[ctx.database][i].scope = ctx.scope
               /\ Decide(ctx.database, ctx, i, rows[ctx.database][i])
    <3>1. PICK i \in DOMAIN rows[ctx.database] :
               /\ rows[ctx.database][i].scope = ctx.scope
               /\ Decide(ctx.database, ctx, i, rows[ctx.database][i])
      BY <2>2
    <3>2. i \in Nat /\ rows[ctx.database][i] \in SourceRows
      BY <2>1 DEF BindInv, BindingTypes
    <3> QED
      BY <2>1, <3>1, <3>2, DecideStep
  <2>3. CASE Decide(ctx.database, ctx, 0, Row(ctx.type, o, None))
    <3>1. Row(ctx.type, o, None) \in SourceRows
      BY <2>1 DEF Contexts, SourceRows, Row
    <3> QED
      BY <2>1, <2>3, <3>1, DecideStep
  <2> QED
    BY <1>1, <2>2, <2>3 DEF MatchScoped
<1>2. ASSUME NEW d \in Databases, NEW t \in ProviderTypes, NEW o \in ExternalObjects,
             MatchLegacy(d, t, o)
      PROVE  BindInv'
  <2>1. CASE \E i \in DOMAIN rows[d] : rows[d][i].scope = None /\ Decide(d, None, i, rows[d][i])
    <3>1. PICK i \in DOMAIN rows[d] : rows[d][i].scope = None /\ Decide(d, None, i, rows[d][i])
      BY <2>1
    <3>2. i \in Nat /\ rows[d][i] \in SourceRows
      BY DEF BindInv, BindingTypes
    <3> QED
      BY <3>1, <3>2, DecideStep
  <2>2. CASE Decide(d, None, 0, Row(t, o, None))
    <3>1. Row(t, o, None) \in SourceRows
      BY DEF SourceRows, Row
    <3> QED
      BY <2>2, <3>1, DecideStep
  <2> QED
    BY <1>2, <2>1, <2>2 DEF MatchLegacy
<1> QED
  BY <1>1, <1>2

LEMMA AbandonStep ==
  ASSUME BindInv, NEW dec \in decisions, Abandon(dec)
  PROVE  BindInv'
<1>1. decisions' \subseteq decisions /\ UNCHANGED <<identity, rows, bound, spanned, contexts, fetched, writes>>
  BY DEF Abandon
<1>2. BindingTypes'
  BY <1>1 DEF BindInv, BindingTypes
<1> QED
  BY <1>1, <1>2 DEF BindInv, IdentitiesRefer, SourcesMatchTheirScope, FetchedHadScope,
       CredentialsStayWithTheirScope, ContextsRecordTheirScope,
       DecisionsFollowRows, BoundIsOfRows, ProvenanceStays

\* What WriteRows does to the sources of its database and to those of others.
LEMMA WrittenRows ==
  ASSUME BindInv, NEW d \in Databases, NEW new \in Seq(SourceRows), WriteRows(d, new),
         \A i \in DOMAIN new : Storable(identity[d], new[i]),
         DOMAIN rows[d] \subseteq DOMAIN new,
         decisions' \subseteq decisions, spanned' \in [Databases -> BOOLEAN]
  PROVE  /\ rows'[d] = new /\ \A e \in Databases : e # d => rows'[e] = rows[e] /\ bound'[e] = bound[e]
         /\ \A i \in Nat, s \in Scopes : <<i, s>> \in bound'[d] =>
              <<i, s>> \in bound[d] \/ (i \in DOMAIN new /\ new[i].scope = s)
         /\ BindingTypes' /\ IdentitiesRefer' /\ SourcesMatchTheirScope'
         /\ ContextsRecordTheirScope' /\ FetchedHadScope' /\ CredentialsStayWithTheirScope'
         /\ BoundIsOfRows'
<1> DEFINE fresh == {<<i, new[i].scope>> : i \in {j \in DOMAIN new : new[j].scope # None}}
<1>1. /\ Distinct(new) /\ rows' = [rows EXCEPT ![d] = new]
      /\ bound' = [bound EXCEPT ![d] = @ \cup fresh]
      /\ UNCHANGED <<identity, contexts, fetched, writes>>
  BY DEF WriteRows
<1>2. fresh \in SUBSET (Nat \X Scopes)
  <2>1. ASSUME NEW i \in DOMAIN new, new[i].scope # None
        PROVE  i \in Nat /\ new[i].scope \in Scopes
    <3>1. i \in Nat /\ new[i] \in SourceRows
      OBVIOUS
    <3> QED
      BY <2>1, <3>1 DEF SourceRows
  <2> QED
    BY <2>1
<1>3. \A i \in Nat, s \in Scopes : <<i, s>> \in fresh => i \in DOMAIN new /\ new[i].scope = s
  OBVIOUS
<1> HIDE DEF fresh
<1>4. /\ rows'[d] = new /\ bound'[d] = bound[d] \cup fresh
      /\ \A e \in Databases : e # d => rows'[e] = rows[e] /\ bound'[e] = bound[e]
  BY <1>1 DEF BindInv, BindingTypes
<1>5. BindingTypes'
  BY <1>1, <1>2, <1>4 DEF BindInv, BindingTypes
<1>6. SourcesMatchTheirScope'
  BY <1>1, <1>4 DEF BindInv, SourcesMatchTheirScope
<1>7. BoundIsOfRows'
  BY <1>3, <1>4 DEF BindInv, BoundIsOfRows
<1> QED
  BY <1>1, <1>3, <1>4, <1>5, <1>6, <1>7 DEF BindInv, IdentitiesRefer, FetchedHadScope,
       CredentialsStayWithTheirScope, ContextsRecordTheirScope

\* A decision writes a source of its Provider, under the Scope of its writer.
LEMMA WrittenIs ==
  ASSUME BindInv, NEW dec \in decisions
  PROVE  /\ dec.database \in Databases /\ dec.id \in Nat /\ Written(dec) \in SourceRows
         /\ Written(dec).provider = dec.source.provider
         /\ dec.id # 0 => Written(dec).scope = IF dec.writer = None THEN None ELSE dec.writer.scope
<1>1. dec \in Decisions
  BY DEF BindInv, BindingTypes
<1>2. CASE dec.writer = None
  BY <1>1, <1>2 DEF Decisions, Written, BindInv, DecisionsFollowRows
<1>3. CASE dec.writer # None
  <2>1. dec.writer.scope \in Scopes /\ dec.source \in SourceRows
    BY <1>1, <1>3 DEF Decisions, Contexts
  <2>2. Written(dec) = [dec.source EXCEPT !.scope = dec.writer.scope]
    BY <1>3 DEF Written
  <2> QED
    BY <1>1, <1>3, <2>1, <2>2 DEF Decisions, SourceRows
<1> QED
  BY <1>2, <1>3

\* A new source comes after those that are there, and they stay as they are.
LEMMA CreateSourceStep ==
  ASSUME BindInv, NEW dec \in decisions, CreateSource(dec)
  PROVE  BindInv'
<1> DEFINE d == dec.database
           new == Append(rows[d], Written(dec))
<1>1. /\ Storable(identity[d], Written(dec)) /\ WriteRows(d, new)
      /\ decisions' \subseteq decisions /\ spanned' = spanned
  BY DEF CreateSource, Accepted
<1>2. d \in Databases /\ Written(dec) \in SourceRows /\ rows[d] \in Seq(SourceRows)
  BY WrittenIs DEF BindInv, BindingTypes
<1>3. /\ new \in Seq(SourceRows) /\ DOMAIN rows[d] \subseteq DOMAIN new
      /\ \A i \in DOMAIN rows[d] : new[i] = rows[d][i]
      /\ \A i \in DOMAIN new : i \in DOMAIN rows[d] \/ new[i] = Written(dec)
  BY <1>2
<1>4. \A i \in DOMAIN new : Storable(identity[d], new[i])
  BY <1>1, <1>2, <1>3 DEF BindInv, SourcesMatchTheirScope
<1>5. spanned' \in [Databases -> BOOLEAN]
  BY <1>1 DEF BindInv, BindingTypes
<1> HIDE DEF new
<1>6. /\ rows'[d] = new /\ \A e \in Databases : e # d => rows'[e] = rows[e] /\ bound'[e] = bound[e]
      /\ \A i \in Nat, s \in Scopes : <<i, s>> \in bound'[d] =>
           <<i, s>> \in bound[d] \/ (i \in DOMAIN new /\ new[i].scope = s)
      /\ BindingTypes' /\ IdentitiesRefer' /\ SourcesMatchTheirScope'
      /\ ContextsRecordTheirScope' /\ FetchedHadScope' /\ CredentialsStayWithTheirScope'
      /\ BoundIsOfRows'
  BY <1>1, <1>2, <1>3, <1>4, <1>5, WrittenRows
<1>7. \A e \in Databases : \A i \in DOMAIN rows[e] : i \in DOMAIN rows'[e] /\ rows'[e][i] = rows[e][i]
  BY <1>3, <1>6
<1>8. DecisionsFollowRows'
  <2>1. ASSUME NEW other \in decisions'
        PROVE  other \in decisions /\ other.database \in Databases
    BY <1>1 DEF BindInv, BindingTypes, Decisions
  <2> QED
    BY <1>1, <1>7, <2>1 DEF BindInv, DecisionsFollowRows
<1>9. ProvenanceStays'
  <2>1. ASSUME NEW e \in Databases, ~spanned[e], NEW i \in DOMAIN rows'[e], NEW s \in Scopes,
               <<i, s>> \in bound'[e]
        PROVE  rows'[e][i].scope = s
    <3>1. i \in Nat
      BY <1>6 DEF BindingTypes
    <3>2. CASE <<i, s>> \in bound[e]
      <4>1. i \in DOMAIN rows[e]
        BY <3>1, <3>2 DEF BindInv, BoundIsOfRows
      <4> QED
        BY <1>7, <2>1, <3>2, <4>1 DEF BindInv, ProvenanceStays
    <3>3. CASE <<i, s>> \notin bound[e]
      BY <1>6, <2>1, <3>1, <3>3
    <3> QED
      BY <3>2, <3>3
  <2> QED
    BY <1>1, <2>1 DEF ProvenanceStays
<1> QED
  BY <1>6, <1>8, <1>9 DEF BindInv

\* Unless a backfill met a legacy decision, an update writes the Scope that the
\* source has.
LEMMA UpdateSourceStep ==
  ASSUME BindInv, NEW dec \in decisions, UpdateSource(dec)
  PROVE  BindInv'
<1> DEFINE d == dec.database
           k == dec.id
           scope == Written(dec).scope
           new == [rows[d] EXCEPT ![k].scope = scope]
<1>1. /\ k # 0 /\ Storable(identity[d], Written(dec)) /\ WriteRows(d, new)
      /\ decisions' \subseteq decisions /\ spanned' = spanned
  BY DEF UpdateSource, Accepted
<1>2. /\ d \in Databases /\ k \in DOMAIN rows[d] /\ rows[d] \in Seq(SourceRows)
      /\ Written(dec) \in SourceRows /\ Written(dec).provider = rows[d][k].provider
      /\ ~spanned[d] => scope = rows[d][k].scope
  BY <1>1, WrittenIs DEF BindInv, BindingTypes, DecisionsFollowRows
<1>3. scope \in Scopes \cup {None} /\ rows[d][k] \in SourceRows
  <2>1. rows[d][k] \in SourceRows
    BY <1>2
  <2> QED
    BY <1>2, <2>1 DEF SourceRows
<1>4. [rows[d][k] EXCEPT !.scope = scope] \in SourceRows
  BY <1>3 DEF SourceRows
<1>5. /\ new \in Seq(SourceRows) /\ DOMAIN new = DOMAIN rows[d]
      /\ new[k] = [rows[d][k] EXCEPT !.scope = scope]
      /\ \A i \in DOMAIN new : i # k => new[i] = rows[d][i]
  BY <1>2, <1>4
<1>6. /\ new[k].scope = scope /\ new[k].provider = rows[d][k].provider
      /\ \A i \in DOMAIN new : new[i].provider = rows[d][i].provider
  BY <1>3, <1>5 DEF SourceRows
<1>7. ~spanned[d] => \A i \in DOMAIN new : new[i].scope = rows[d][i].scope
  BY <1>2, <1>5, <1>6
<1>8. \A i \in DOMAIN new : Storable(identity[d], new[i])
  <2>1. Storable(identity[d], new[k])
    BY <1>1, <1>2, <1>6 DEF Storable
  <2> QED
    BY <1>2, <1>5, <2>1 DEF BindInv, SourcesMatchTheirScope
<1>9. spanned' \in [Databases -> BOOLEAN]
  BY <1>1 DEF BindInv, BindingTypes
<1> HIDE DEF new
<1>10. /\ rows'[d] = new /\ \A e \in Databases : e # d => rows'[e] = rows[e] /\ bound'[e] = bound[e]
       /\ \A i \in Nat, s \in Scopes : <<i, s>> \in bound'[d] =>
            <<i, s>> \in bound[d] \/ (i \in DOMAIN new /\ new[i].scope = s)
       /\ BindingTypes' /\ IdentitiesRefer' /\ SourcesMatchTheirScope'
       /\ ContextsRecordTheirScope' /\ FetchedHadScope' /\ CredentialsStayWithTheirScope'
       /\ BoundIsOfRows'
  BY <1>1, <1>2, <1>5, <1>8, <1>9, WrittenRows
<1>11. \A e \in Databases : /\ DOMAIN rows'[e] = DOMAIN rows[e]
                            /\ \A i \in DOMAIN rows[e] :
                                 /\ rows'[e][i].provider = rows[e][i].provider
                                 /\ ~spanned[e] => rows'[e][i].scope = rows[e][i].scope
  BY <1>5, <1>6, <1>7, <1>10
<1>12. DecisionsFollowRows'
  <2>1. ASSUME NEW other \in decisions'
        PROVE  other \in decisions /\ other.database \in Databases
    BY <1>1 DEF BindInv, BindingTypes, Decisions
  <2> QED
    BY <1>1, <1>11, <2>1 DEF BindInv, DecisionsFollowRows
<1>13. ProvenanceStays'
  <2>1. ASSUME NEW e \in Databases, ~spanned[e], NEW i \in DOMAIN rows'[e], NEW s \in Scopes,
               <<i, s>> \in bound'[e]
        PROVE  rows'[e][i].scope = s
    <3>1. i \in Nat /\ i \in DOMAIN rows[e]
      BY <1>10, <1>11 DEF BindingTypes
    <3>2. CASE <<i, s>> \in bound[e]
      BY <1>11, <2>1, <3>1, <3>2 DEF BindInv, ProvenanceStays
    <3>3. CASE <<i, s>> \notin bound[e]
      BY <1>10, <2>1, <3>1, <3>3
    <3> QED
      BY <3>2, <3>3
  <2> QED
    BY <1>1, <2>1 DEF ProvenanceStays
<1> QED
  BY <1>10, <1>12, <1>13 DEF BindInv

\* Every source is moved to the Scope its Provider maps to; no two meet, and none
\* leaves a Scope.
LEMMA BackfillStep ==
  ASSUME BindInv, NEW d \in Databases, NEW ts \in SUBSET ProviderTypes,
         NEW plan \in [ts -> Scopes], Backfill(d, plan)
  PROVE  BindInv'
<1> DEFINE new == Rescoped(d, plan)
           met == \E dec \in decisions : dec.database = d /\ dec.writer = None /\ dec.id # 0
<1>1. /\ \A i \in DOMAIN rows[d] : rows[d][i].provider \in ts
      /\ \A t \in ts : MapsTo(identity[d], t, plan[t])
      /\ \A i \in DOMAIN rows[d] : rows[d][i].scope \in {None, plan[rows[d][i].provider]}
      /\ WriteRows(d, new) /\ decisions' = decisions
      /\ spanned' = [spanned EXCEPT ![d] = @ \/ met]
  BY DEF Backfill
<1>2. rows[d] \in Seq(SourceRows)
  BY DEF BindInv, BindingTypes
<1>3. \A i \in DOMAIN rows[d] :
        /\ [rows[d][i] EXCEPT !.scope = plan[rows[d][i].provider]] \in SourceRows
        /\ rows[d][i] \in SourceRows
  <2>1. \A i \in DOMAIN rows[d] : rows[d][i] \in SourceRows
    BY <1>2
  <2> QED
    BY <1>1, <2>1 DEF SourceRows
<1>4. /\ new \in Seq(SourceRows) /\ DOMAIN new = DOMAIN rows[d]
      /\ \A i \in DOMAIN new : new[i] = [rows[d][i] EXCEPT !.scope = plan[rows[d][i].provider]]
  BY <1>2, <1>3 DEF Rescoped
<1>5. \A i \in DOMAIN new :
        /\ new[i].provider = rows[d][i].provider /\ new[i].scope = plan[rows[d][i].provider]
        /\ rows[d][i].scope # None => new[i].scope = rows[d][i].scope
  BY <1>1, <1>3, <1>4 DEF SourceRows
<1>6. \A i \in DOMAIN new : Storable(identity[d], new[i])
  BY <1>1, <1>4, <1>5 DEF Storable
<1>7. /\ spanned' \in [Databases -> BOOLEAN]
      /\ \A e \in Databases : ~spanned'[e] => ~spanned[e]
      /\ ~spanned'[d] => ~met
  BY <1>1 DEF BindInv, BindingTypes
<1> HIDE DEF new
<1>8. /\ rows'[d] = new /\ \A e \in Databases : e # d => rows'[e] = rows[e] /\ bound'[e] = bound[e]
      /\ \A i \in Nat, s \in Scopes : <<i, s>> \in bound'[d] =>
           <<i, s>> \in bound[d] \/ (i \in DOMAIN new /\ new[i].scope = s)
      /\ BindingTypes' /\ IdentitiesRefer' /\ SourcesMatchTheirScope'
      /\ ContextsRecordTheirScope' /\ FetchedHadScope' /\ CredentialsStayWithTheirScope'
      /\ BoundIsOfRows'
  BY <1>1, <1>4, <1>6, <1>7, WrittenRows
<1>9. \A e \in Databases : /\ DOMAIN rows'[e] = DOMAIN rows[e]
                           /\ \A i \in DOMAIN rows[e] :
                                /\ rows'[e][i].provider = rows[e][i].provider
                                /\ rows[e][i].scope # None => rows'[e][i].scope = rows[e][i].scope
  BY <1>4, <1>5, <1>8
<1>10. DecisionsFollowRows'
  <2>1. ASSUME NEW dec \in decisions
        PROVE  /\ dec.writer # None => dec.writer.database = dec.database
               /\ dec.id # 0 =>
                    /\ dec.id \in DOMAIN rows'[dec.database]
                    /\ rows'[dec.database][dec.id].provider = dec.source.provider
                    /\ dec.writer = None => dec.source.scope = None
                    /\ ~spanned'[dec.database] =>
                         rows'[dec.database][dec.id].scope
                           = IF dec.writer = None THEN None ELSE dec.writer.scope
    <3>1. dec \in Decisions /\ dec.database \in Databases
      BY DEF BindInv, BindingTypes, Decisions
    <3>2. dec.writer # None => dec.writer.scope # None
      BY <3>1, RowsAreNotNone DEF Decisions, Contexts
    <3>3. CASE dec.writer # None
      BY <1>7, <1>9, <3>1, <3>2, <3>3 DEF BindInv, DecisionsFollowRows
    <3>4. CASE dec.writer = None /\ dec.database = d /\ dec.id # 0
      BY <1>7, <1>9, <3>1, <3>4 DEF BindInv, DecisionsFollowRows
    <3>5. CASE dec.writer = None /\ dec.database # d
      BY <1>7, <1>8, <3>1, <3>5 DEF BindInv, DecisionsFollowRows
    <3>6. CASE dec.writer = None /\ dec.id = 0
      BY <3>6
    <3> QED
      BY <3>3, <3>4, <3>5, <3>6
  <2> QED
    BY <1>1, <2>1 DEF DecisionsFollowRows
<1>11. ProvenanceStays'
  <2>1. ASSUME NEW e \in Databases, ~spanned'[e], NEW i \in DOMAIN rows'[e], NEW s \in Scopes,
               <<i, s>> \in bound'[e]
        PROVE  rows'[e][i].scope = s
    <3>1. i \in Nat /\ i \in DOMAIN rows[e] /\ ~spanned[e]
      BY <1>7, <1>8, <1>9, <2>1 DEF BindingTypes
    <3>2. CASE <<i, s>> \in bound[e]
      <4>1. rows[e][i].scope = s /\ s # None
        BY <3>1, <3>2, RowsAreNotNone DEF BindInv, ProvenanceStays
      <4> QED
        BY <1>9, <3>1, <4>1
    <3>3. CASE <<i, s>> \notin bound[e]
      BY <1>8, <2>1, <3>1, <3>3
    <3> QED
      BY <3>2, <3>3
  <2> QED
    BY <2>1 DEF ProvenanceStays
<1> QED
  BY <1>8, <1>10, <1>11 DEF BindInv

\* A remote read takes a binding of the Principal and of the source's Scope.
LEMMA FetchStep ==
  ASSUME BindInv, NEW p \in Principals, NEW i \in DOMAIN rows[DatabaseOf(p)],
         Fetch(p, rows[DatabaseOf(p)][i])
  PROVE  BindInv'
<1> DEFINE row == rows[DatabaseOf(p)][i]
<1>1. PICK b \in BindingFor(p, row.scope, row.provider) :
        fetched' = {[principal |-> p, row |-> row, binding |-> b]}
  BY DEF Fetch
<1>2. /\ Readable(DatabaseOf(p), row)
      /\ UNCHANGED <<identity, rows, decisions, bound, spanned, contexts, writes>>
  BY DEF Fetch, sourceVars
<1>3. /\ b \in Bindings /\ b.principal = p /\ b.scope = row.scope /\ b.provider = row.provider
  BY DEF BindingFor
<1>4. DatabaseOf(p) \in Databases /\ row \in SourceRows
  BY DatabaseOfPrincipal DEF BindInv, BindingTypes
<1>5. row.scope # None /\ MapsTo(identity[DatabaseOf(p)], b.provider, row.scope)
  BY <1>2, <1>3 DEF Readable, IsUsable, MapsTo
<1>6. BindingTypes'
  BY <1>1, <1>2, <1>3, <1>4 DEF BindInv, BindingTypes, Fetches
<1>7. FetchedHadScope' /\ CredentialsStayWithTheirScope'
  BY <1>1, <1>2, <1>3, <1>5 DEF FetchedHadScope, CredentialsStayWithTheirScope
<1> QED
  BY <1>2, <1>6, <1>7 DEF BindInv, IdentitiesRefer, SourcesMatchTheirScope,
       ContextsRecordTheirScope, DecisionsFollowRows, BoundIsOfRows, ProvenanceStays

\* Incremental state is none of them.
LEMMA StateStep ==
  ASSUME BindInv, UNCHANGED <<identity, sourceVars, contexts, fetched, writes>>
  PROVE  BindInv'
BY DEF BindInv, BindingTypes, IdentitiesRefer, SourcesMatchTheirScope, FetchedHadScope,
     CredentialsStayWithTheirScope, ContextsRecordTheirScope,
     DecisionsFollowRows, BoundIsOfRows, ProvenanceStays, sourceVars

LEMMA BindNextHolds == BindInv /\ [BindingNext]_bindingVars => BindInv'
<1> SUFFICES ASSUME BindInv, [BindingNext]_bindingVars PROVE BindInv'
  OBVIOUS
<1>1. CASE IdentityNext
  BY <1>1, OperatorStepBinds DEF IdentityNext
<1>2. CASE RuntimeNext
  BY <1>2, BuildStep, CloseStep DEF RuntimeNext
<1>3. CASE SourceNext
  <2>1. CASE \/ \E ctx \in contexts, o \in ExternalObjects : MatchScoped(ctx, o)
             \/ \E d \in Databases, t \in ProviderTypes, o \in ExternalObjects : MatchLegacy(d, t, o)
    BY <2>1, MatchStep
  <2>2. CASE \E dec \in decisions : CreateSource(dec) \/ UpdateSource(dec) \/ Abandon(dec)
    BY <2>2, CreateSourceStep, UpdateSourceStep, AbandonStep
  <2>3. CASE \E d \in Databases, ts \in SUBSET ProviderTypes :
               \E plan \in [ts -> Scopes] : Backfill(d, plan)
    BY <2>3, BackfillStep
  <2>4. CASE \E p \in Principals : \E i \in DOMAIN rows[DatabaseOf(p)] :
               Fetch(p, rows[DatabaseOf(p)][i])
    BY <2>4, FetchStep
  <2> QED
    BY <1>3, <2>1, <2>2, <2>3, <2>4 DEF SourceNext
<1>4. CASE StateNext
  BY <1>4, StateStep DEF StateNext, CreateState, CompareAndSwap, LegacyAdvance, CopyStates
<1>5. CASE UNCHANGED bindingVars
  BY <1>5, StateStep DEF bindingVars
<1> QED
  BY <1>1, <1>2, <1>3, <1>4, <1>5 DEF BindingNext

\* What a runtime holds is consistent because the rows of its Scope are.
LEMMA BindInvIsolates == BindInv => ScopeIsolation
<1> SUFFICES ASSUME BindInv PROVE ScopeIsolation
  OBVIOUS
<1>1. BindingTypeOK
  <2>1. ASSUME NEW d \in Databases
        PROVE  /\ \A i \in Instances : identity[d].instances[i] \in InstanceRows \cup {None}
               /\ \A s \in Scopes : identity[d].scopes[s] \in ScopeRows \cup {None}
               /\ \A i \in DOMAIN rows[d] : rows[d][i] \in SourceRows
    BY DEF BindInv, BindingTypes, Identities
  <2>2. writes \in 0..MaxIdentityWrites /\ Cardinality(contexts) <= MaxContexts
    BY DEF BindInv, BindingTypes
  <2> QED
    BY <2>1, <2>2 DEF InstanceRows, ScopeRows, SourceRows, BindingTypeOK
<1>2. ContextsStayConsistent
  <2>1. ASSUME NEW ctx \in contexts, ctx.account # None
        PROVE  identity[ctx.database].accounts[ctx.account].instance = ctx.instance
    <3>1. ctx.database \in Databases /\ ctx.scope \in Scopes
      BY DEF BindInv, BindingTypes, Contexts
    <3>2. Referenced(identity[ctx.database])
      BY <3>1 DEF BindInv, IdentitiesRefer
    <3> QED
      BY <2>1, <3>1, <3>2 DEF BindInv, Referenced, ContextsRecordTheirScope, MapsTo
  <2> QED
    BY <2>1 DEF BindInv, ContextsRecordTheirScope, ContextsStayConsistent
<1> QED
  BY <1>1, <1>2 DEF BindInv, ScopeIsolation

\* A source stays with the Provider of its Scope and in the Scope it was bound
\* to, a runtime with the Account and Instance it was built for, and a remote
\* read with the credentials of its Principal and Scope, however decisions on
\* sources read earlier, the operator's changes, the backfill and remote reads
\* interleave (ScopeBoundRepository, PostgreSQLRepository._execute_update_source,
\* ObservationContext, ProviderAccessBindingRegistry). Where a backfill met a
\* decision of a legacy writer on a source, the source may lose its Scope again.
THEOREM ScopesAreIsolated == BindingSpec => []ScopeIsolation
<1>1. BindingInit => BindInv
  BY BindInitHolds
<1>2. BindInv /\ [BindingNext]_bindingVars => BindInv'
  BY BindNextHolds
<1>3. BindInv => ScopeIsolation
  BY BindInvIsolates
<1> QED
  BY <1>1, <1>2, <1>3, PTL DEF BindingSpec

-----------------------------------------------------------------------------
(* The incremental state of a Scope.                                       *)

StateRows == [version : Nat, required : BOOLEAN]
StateTypes ==
    state \in [Databases -> [legacy : [ProviderTypes -> StateRows \cup {None}],
                             scoped : [Scopes -> StateRows \cup {None}]]]

\* What a step may do to the rows of Scopes.
Advanced ==
    \A d \in Databases, s \in Scopes :
        state[d].scoped[s] # None =>
            \/ state'[d].scoped[s] = state[d].scoped[s]
            \/ state'[d].scoped[s].version = state[d].scoped[s].version + 1

LEMMA LegacyAdvanceStep ==
  ASSUME StateTypes, NEW d \in Databases, NEW t \in ProviderTypes, LegacyAdvance(d, t)
  PROVE  StateTypes' /\ Advanced
<1> DEFINE row == state[d].legacy[t]
<1>1. PICK required \in BOOLEAN :
        state' = [state EXCEPT ![d].legacy[t] =
                    IF row = None THEN NewState
                    ELSE [version |-> row.version + 1, required |-> required]]
  BY DEF LegacyAdvance
<1> DEFINE new == IF row = None THEN NewState
                  ELSE [version |-> row.version + 1, required |-> required]
<1>2. new \in StateRows
  BY DEF StateTypes, StateRows, NewState
<1>3. state' = [state EXCEPT ![d].legacy[t] = new]
  BY <1>1
<1> HIDE DEF new
<1>4. StateTypes'
  BY <1>2, <1>3 DEF StateTypes
<1>5. \A e \in Databases : state'[e].scoped = state[e].scoped
  BY <1>3 DEF StateTypes
<1> QED
  BY <1>4, <1>5 DEF Advanced

\* A row of a Scope is made or swapped.
LEMMA ScopeRowStep ==
  ASSUME StateTypes, NEW d \in Databases, NEW s \in Scopes, NEW new \in StateRows,
         state' = [state EXCEPT ![d].scoped[s] = new],
         state[d].scoped[s] # None => new.version = state[d].scoped[s].version + 1
  PROVE  StateTypes' /\ Advanced
<1>1. StateTypes'
  BY DEF StateTypes
<1>2. \A e \in Databases, t \in Scopes :
        state'[e].scoped[t] = IF e = d /\ t = s THEN new ELSE state[e].scoped[t]
  BY DEF StateTypes
<1> QED
  BY <1>1, <1>2 DEF Advanced

LEMMA CreateStateStep ==
  ASSUME StateTypes, BindInv, NEW ctx \in contexts, CreateState(ctx)
  PROVE  StateTypes' /\ Advanced
<1>1. ctx.database \in Databases /\ ctx.scope \in Scopes
  BY DEF BindInv, BindingTypes, Contexts
<1>2. NewState \in StateRows
  BY DEF NewState, StateRows
<1> QED
  BY <1>1, <1>2, ScopeRowStep DEF CreateState

LEMMA CompareAndSwapStep ==
  ASSUME StateTypes, BindInv, NEW ctx \in contexts, NEW v \in 0..MaxVersion,
         NEW latch \in BOOLEAN, NEW required \in BOOLEAN,
         CompareAndSwap(ctx, v, latch, required)
  PROVE  StateTypes' /\ Advanced
<1> DEFINE new == [version |-> v + 1, required |-> required]
<1>1. ctx.database \in Databases /\ ctx.scope \in Scopes
  BY DEF BindInv, BindingTypes, Contexts
<1>2. new \in StateRows /\ new.version = v + 1
  BY ScopeBindingAssumption DEF StateRows
<1>3. /\ state[ctx.database].scoped[ctx.scope].version = v
      /\ state' = [state EXCEPT ![ctx.database].scoped[ctx.scope] = new]
  BY DEF CompareAndSwap
<1> HIDE DEF new
<1> QED
  BY <1>1, <1>2, <1>3, ScopeRowStep

\* A row that the Scope already has is the one that is copied.
LEMMA CopyStatesStep ==
  ASSUME StateTypes, NEW d \in Databases, NEW ts \in SUBSET ProviderTypes,
         NEW plan \in [ts -> Scopes], CopyStates(d, plan)
  PROVE  StateTypes' /\ Advanced
<1> DEFINE from(s) == CHOOSE t \in ts : plan[t] = s
           copied == [s \in Scopes |-> IF \E t \in ts : plan[t] = s
                                       THEN state[d].legacy[from(s)] ELSE state[d].scoped[s]]
<1>1. DOMAIN plan = ts
  OBVIOUS
<1>2. state' = [state EXCEPT ![d].scoped = copied]
  BY <1>1 DEF CopyStates
<1>3. \A t \in ts : state[d].scoped[plan[t]] \in {None, state[d].legacy[t]}
  BY <1>1 DEF CopyStates
<1>4. \A s \in Scopes : (\E t \in ts : plan[t] = s) => from(s) \in ts /\ plan[from(s)] = s
  OBVIOUS
<1> HIDE DEF from
<1>5. copied \in [Scopes -> StateRows \cup {None}]
  BY <1>4 DEF StateTypes
<1>6. \A s \in Scopes : state[d].scoped[s] # None => copied[s] = state[d].scoped[s]
  BY <1>3, <1>4
<1> HIDE DEF copied
<1>7. StateTypes'
  BY <1>2, <1>5 DEF StateTypes
<1>8. \A e \in Databases : state'[e].scoped = IF e = d THEN copied ELSE state[e].scoped
  BY <1>2 DEF StateTypes
<1> QED
  BY <1>6, <1>7, <1>8 DEF Advanced

LEMMA StateSame ==
  ASSUME StateTypes, UNCHANGED state
  PROVE  StateTypes' /\ Advanced
BY DEF StateTypes, Advanced

LEMMA StateMoves ==
  ASSUME StateTypes, BindInv, [BindingNext]_bindingVars
  PROVE  StateTypes' /\ Advanced
<1>1. CASE IdentityNext
  BY <1>1, StateSame DEF IdentityNext, AdminInstance, AdminAccount, AdminScope, SetEnabled, Administer
<1>2. CASE RuntimeNext
  BY <1>2, StateSame DEF RuntimeNext, Build, Close
<1>3. CASE SourceNext
  <2>1. UNCHANGED state
    BY <1>3 DEF SourceNext, MatchScoped, MatchLegacy, Decide, Abandon, CreateSource, UpdateSource,
         Backfill, WriteRows, Fetch
  <2> QED
    BY <2>1, StateSame
<1>4. CASE StateNext
  <2>1. CASE \E ctx \in contexts : CreateState(ctx)
    BY <2>1, CreateStateStep
  <2>2. CASE \E ctx \in contexts, v \in 0..MaxVersion, latch, required \in BOOLEAN :
               CompareAndSwap(ctx, v, latch, required)
    BY <2>2, CompareAndSwapStep
  <2>3. CASE \E d \in Databases, t \in ProviderTypes : LegacyAdvance(d, t)
    BY <2>3, LegacyAdvanceStep
  <2>4. CASE \E d \in Databases, ts \in SUBSET ProviderTypes :
               \E plan \in [ts -> Scopes] : CopyStates(d, plan)
    BY <2>4, CopyStatesStep
  <2> QED
    BY <1>4, <2>1, <2>2, <2>3, <2>4 DEF StateNext
<1>5. CASE UNCHANGED bindingVars
  BY <1>5, StateSame DEF bindingVars
<1> QED
  BY <1>1, <1>2, <1>3, <1>4, <1>5 DEF BindingNext

\* The state of a Scope starts once and then advances one swap at a time,
\* whatever is copied from the legacy state, however often and however late
\* (scope_sync_state._cas, copy_legacy_states_to_scopes).
THEOREM ScopedStatesAdvance == BindingSpec => ScopedStateAdvances
<1>1. BindingInit => BindInv /\ StateTypes
  BY BindInitHolds DEF BindingInit, StateTypes
<1>2. BindInv /\ StateTypes /\ [BindingNext]_bindingVars =>
        BindInv' /\ StateTypes' /\ [Advanced]_bindingVars
  BY BindNextHolds, StateMoves
<1>3. ScopedStateAdvances <=> [][Advanced]_bindingVars
  BY PTL DEF ScopedStateAdvances, Advanced
<1> QED
  BY <1>1, <1>2, <1>3, PTL DEF BindingSpec

-----------------------------------------------------------------------------
(* The writer units: who is under the formal lock has the only open row.   *)

UnderLock == {"targets", "execute", "finish"}
LedgerRows == [key : Pipelines, status : Statuses, started : {Instant},
               finished : {Instant, Unset}, error : Errors \cup {Unset}]
Processes == [at : Stages, step : Nat, rows : Seq(Nat), left : SUBSET DOMAIN ProviderOfScope,
              failed : BOOLEAN, result : {"none", "success", "failed"}]

WriterTypes ==
    /\ sync \in Units \cup {"operator", Nobody} /\ enabled \subseteq DOMAIN ProviderOfScope
    /\ ledger \in Seq(LedgerRows) /\ writer \in [Units -> Processes]

WritersLock == \A w \in Units : writer[w].at \in UnderLock <=> sync = w

\* The rows of an activation: one per pipeline begun, all before the last completed.
HasRows(p, chain, table) ==
    /\ p.at = "inactive" => p.step = 0 /\ Len(p.rows) = 0
    /\ p.at # "inactive" => p.step \in 1..Len(chain)
    /\ p.at = "waiting" => Len(p.rows) = p.step - 1
    /\ p.at \in UnderLock => Len(p.rows) = p.step /\ table[p.rows[p.step]].status = "running"
    /\ \A k \in 1..Len(p.rows) :
         /\ p.rows[k] \in 1..Len(table)
         /\ k < p.step => table[p.rows[k]].status = "completed"

WriterInv ==
    /\ WriterTypes /\ WritersLock
    /\ \A w \in Units : HasRows(writer[w], Chain[w], ledger)

\* What was completed stays completed.
LedgerKept ==
    /\ Len(ledger) <= Len(ledger')
    /\ \A i \in 1..Len(ledger) :
         /\ ledger'[i].key = ledger[i].key
         /\ ledger[i].status = "completed" => ledger'[i].status = "completed"

LEMMA NamesAreDistinct ==
  /\ Nobody \notin Units /\ "operator" \notin Units /\ Nobody # "operator"
BY CutoverAssumption

LEMMA ChainIs == ASSUME NEW w \in Units PROVE Chain[w] \in Seq(Pipelines) /\ Len(Chain[w]) > 0
BY CutoverAssumption

LEMMA InactiveIs ==
  ASSUME NEW result \in {"none", "success", "failed"}
  PROVE  /\ Inactive(result) \in Processes /\ Inactive(result).at = "inactive"
         /\ Inactive(result).step = 0 /\ Inactive(result).rows = <<>>
BY DEF Inactive, Processes, Stages

LEMMA ActivatedIs ==
  /\ Activated \in Processes /\ Activated.at = "waiting"
  /\ Activated.step = 1 /\ Activated.rows = <<>>
<1> DEFINE p == Inactive("none")
<1>1. p \in Processes /\ p.rows = <<>>
  BY InactiveIs
<1>2. Activated = [p EXCEPT !.at = "waiting", !.step = 1]
  BY DEF Activated
<1> HIDE DEF p
<1> QED
  BY <1>1, <1>2 DEF Processes, Stages

-----------------------------------------------------------------------------
(* The ledger.                                                             *)

LEMMA BeginRunIs ==
  ASSUME NEW table \in Seq(LedgerRows), NEW key \in Pipelines
  PROVE  /\ BeginRun(table, key, Instant) \in Seq(LedgerRows)
         /\ Len(BeginRun(table, key, Instant)) = Len(table) + 1
         /\ \A i \in 1..Len(table) : BeginRun(table, key, Instant)[i] = table[i]
         /\ BeginRun(table, key, Instant)[Len(table) + 1].status = "running"
<1> DEFINE row == [key |-> key, status |-> "running", started |-> Instant, finished |-> Unset,
                   error |-> Unset]
<1>1. row \in LedgerRows /\ row.status = "running"
  BY DEF LedgerRows, Statuses
<1>2. BeginRun(table, key, Instant) = Append(table, row)
  BY DEF BeginRun
<1> HIDE DEF row
<1> QED
  BY <1>1, <1>2

LEMMA FinishIs ==
  ASSUME NEW table \in Seq(LedgerRows), NEW i \in 1..Len(table),
         NEW new, new \in {CompleteRun(table, i, Instant), FailRun(table, i, Instant)}
  PROVE  /\ new \in Seq(LedgerRows) /\ Len(new) = Len(table)
         /\ \A j \in 1..Len(table) : new[j].key = table[j].key
         /\ \A j \in 1..Len(table) : j # i => new[j] = table[j]
         /\ new = CompleteRun(table, i, Instant) => new[i].status = "completed"
<1>1. table[i] \in LedgerRows
  OBVIOUS
<1>2. PICK row : /\ new = [table EXCEPT ![i] = row]
                 /\ row \in LedgerRows /\ row.key = table[i].key
                 /\ new = CompleteRun(table, i, Instant) => row.status = "completed"
  <2>1. CASE new = CompleteRun(table, i, Instant)
    <3> DEFINE row == Finished(table[i], "completed", Unset, Instant)
    <3>1. row \in LedgerRows /\ row.key = table[i].key /\ row.status = "completed"
      BY <1>1 DEF Finished, LedgerRows, Statuses
    <3>2. new = [table EXCEPT ![i] = row]
      BY <2>1 DEF CompleteRun
    <3> HIDE DEF row
    <3> QED
      BY <3>1, <3>2
  <2>2. CASE new = FailRun(table, i, Instant) /\ new # CompleteRun(table, i, Instant)
    <3> DEFINE row == Finished(table[i], "failed", "execution_failed", Instant)
    <3>1. row \in LedgerRows /\ row.key = table[i].key
      BY <1>1 DEF Finished, LedgerRows, Statuses, Errors
    <3>2. new = [table EXCEPT ![i] = row]
      BY <2>2 DEF FailRun
    <3> HIDE DEF row
    <3> QED
      BY <2>2, <3>1, <3>2
  <2> QED
    BY <2>1, <2>2
<1>3. new \in Seq(LedgerRows) /\ Len(new) = Len(table)
  BY <1>2, ExceptSeq
<1>4. \A j \in 1..Len(table) : new[j] = IF j = i THEN row ELSE table[j]
  BY <1>2
<1> QED
  BY <1>2, <1>3, <1>4

LEMMA FailInterruptedIs ==
  ASSUME NEW table \in Seq(LedgerRows), NEW key
  PROVE  LET new == FailInterruptedRun(table, key, Instant)
         IN  /\ new \in Seq(LedgerRows) /\ Len(new) = Len(table)
             /\ \A j \in 1..Len(table) :
                  /\ new[j].key = table[j].key
                  /\ table[j].status = "completed" => new[j] = table[j]
<1> DEFINE new == FailInterruptedRun(table, key, Instant)
           Failed(j) == Finished(table[j], "failed", "interrupted_previous_run", Instant)
<1>1. DOMAIN new = 1..Len(table) /\ DOMAIN table = 1..Len(table) /\ Len(table) \in Nat
  BY DEF FailInterruptedRun
<1>2. ASSUME NEW j \in DOMAIN table
      PROVE  table[j] \in LedgerRows /\ Failed(j) \in LedgerRows /\ Failed(j).key = table[j].key
  <2> DEFINE row == table[j]
             failed == Finished(row, "failed", "interrupted_previous_run", Instant)
  <2>1. row \in LedgerRows
    OBVIOUS
  <2> HIDE DEF row
  <2>2. failed \in LedgerRows /\ failed.key = row.key
    BY <2>1 DEF Finished, LedgerRows, Statuses, Errors
  <2> QED
    BY <2>1, <2>2 DEF row
<1>3. ASSUME NEW j \in DOMAIN table
      PROVE  new[j] = IF table[j].key = key /\ table[j].status = "running"
                      THEN Failed(j) ELSE table[j]
  BY DEF FailInterruptedRun, Running
<1> HIDE DEF new, Failed
<1>4. new \in [1..Len(table) -> LedgerRows]
  <2>1. \A j \in 1..Len(table) : new[j] \in LedgerRows
    BY <1>1, <1>2, <1>3
  <2>2. new = [j \in DOMAIN new |-> new[j]]
    BY DEF new, FailInterruptedRun
  <2> QED
    BY <1>1, <2>1, <2>2
<1>5. new \in Seq(LedgerRows) /\ Len(new) = Len(table)
  BY <1>1, <1>4, SeqDef, LenProperties
<1> QED
  BY <1>1, <1>2, <1>3, <1>5 DEF new

\* A success counts for good.
LEMMA SuccessesStay ==
  ASSUME ledger \in Seq(LedgerRows), ledger' \in Seq(LedgerRows), LedgerKept,
         NEW key, Successes(ledger, key) # {}
  PROVE  Successes(ledger', key) # {}
<1>1. PICK i \in 1..Len(ledger) : ledger[i].key = key /\ ledger[i].status = "completed"
  BY DEF Successes, RowsOf
<1>2. i \in 1..Len(ledger') /\ ledger'[i].key = key /\ ledger'[i].status = "completed"
  BY <1>1 DEF LedgerKept
<1> QED
  BY <1>2 DEF Successes, RowsOf

-----------------------------------------------------------------------------
(* The steps of a unit.                                                    *)

LEMMA RowsKept ==
  ASSUME NEW p \in Processes, NEW chain, NEW table \in Seq(LedgerRows),
         NEW new \in Seq(LedgerRows), HasRows(p, chain, table), p.at \notin UnderLock,
         Len(table) <= Len(new),
         \A i \in 1..Len(table) : table[i].status = "completed" => new[i].status = "completed"
  PROVE  HasRows(p, chain, new)
<1>1. \A k \in 1..Len(p.rows) : p.rows[k] \in 1..Len(table) /\ p.rows[k] \in 1..Len(new)
  BY DEF HasRows
<1> QED
  BY <1>1 DEF HasRows

LEMMA WriterSame ==
  ASSUME WriterInv, UNCHANGED <<ledger, writer>>, enabled' \subseteq DOMAIN ProviderOfScope,
         \/ sync' = sync
         \/ sync \in {"operator", Nobody} /\ sync' \in {"operator", Nobody}
  PROVE  WriterInv' /\ LedgerKept
<1>1. WriterTypes' /\ WritersLock'
  BY NamesAreDistinct DEF WriterInv, WriterTypes, WritersLock
<1>2. LedgerKept
  BY DEF LedgerKept, WriterInv, WriterTypes
<1> QED
  BY <1>1, <1>2 DEF WriterInv

\* The unit's process becomes another one, and the ledger is as it was.
LEMMA WriterMoves ==
  ASSUME WriterInv, NEW w \in Units, NEW p \in Processes, writer' = [writer EXCEPT ![w] = p],
         UNCHANGED <<enabled, ledger>>, HasRows(p, Chain[w], ledger),
         \/ sync' = sync /\ (p.at \in UnderLock <=> writer[w].at \in UnderLock)
         \/ p.at \notin UnderLock /\ sync' = IF sync = w THEN Nobody ELSE sync
  PROVE  WriterInv' /\ LedgerKept
<1>1. /\ writer'[w] = p /\ \A v \in Units : v # w => writer'[v] = writer[v]
      /\ writer' \in [Units -> Processes]
  BY DEF WriterInv, WriterTypes
<1>2. sync' \in Units \cup {"operator", Nobody}
  BY DEF WriterInv, WriterTypes
<1>3. WriterTypes'
  BY <1>1, <1>2 DEF WriterInv, WriterTypes
<1>4. WritersLock'
  BY <1>1, NamesAreDistinct DEF WriterInv, WritersLock
<1>5. \A v \in Units : HasRows(writer'[v], Chain[v], ledger')
  BY <1>1 DEF WriterInv
<1>6. LedgerKept
  BY DEF LedgerKept, WriterInv, WriterTypes
<1> QED
  BY <1>3, <1>4, <1>5, <1>6 DEF WriterInv

LEMMA EndsStep ==
  ASSUME WriterInv, NEW w \in Units, NEW result \in {"none", "success", "failed"},
         Ends(w, result), UNCHANGED <<enabled, ledger>>
  PROVE  WriterInv' /\ LedgerKept /\ (\A v \in Units : writer'[v].at = "execute" => writer[v].at = "execute")
         /\ (sync = "operator" => sync' = "operator")
<1> DEFINE p == Inactive(result)
<1>1. writer' = [writer EXCEPT ![w] = p] /\ sync' = IF sync = w THEN Nobody ELSE sync
  BY DEF Ends
<1>2. p \in Processes /\ p.at = "inactive" /\ p.step = 0 /\ p.rows = <<>>
  BY InactiveIs
<1> HIDE DEF p
<1>3. HasRows(p, Chain[w], ledger) /\ p.at \notin UnderLock
  BY <1>2 DEF HasRows, UnderLock
<1>4. WriterInv' /\ LedgerKept
  BY <1>1, <1>2, <1>3, WriterMoves
<1>5. \A v \in Units : writer'[v].at = "execute" => writer[v].at = "execute"
  BY <1>1, <1>2 DEF WriterInv, WriterTypes
<1> QED
  BY <1>1, <1>4, <1>5, NamesAreDistinct

LEMMA ActivateStep ==
  ASSUME WriterInv, NEW w \in Units, ~Busy(w), writer' = [writer EXCEPT ![w] = Activated],
         UNCHANGED <<sync, enabled, ledger>>
  PROVE  WriterInv' /\ LedgerKept /\ (\A v \in Units : writer'[v].at = "execute" => writer[v].at = "execute")
<1> DEFINE p == Activated
<1>1. p \in Processes /\ p.at = "waiting" /\ p.step = 1 /\ p.rows = <<>>
  BY ActivatedIs
<1>2. writer' = [writer EXCEPT ![w] = p]
  OBVIOUS
<1> HIDE DEF p
<1>3. HasRows(p, Chain[w], ledger) /\ p.at \notin UnderLock
  BY <1>1, ChainIs DEF HasRows, UnderLock
<1>4. writer[w].at \notin UnderLock
  BY DEF Busy, UnderLock
<1>5. WriterInv' /\ LedgerKept
  BY <1>1, <1>2, <1>3, <1>4, WriterMoves
<1>6. \A v \in Units : writer'[v].at = "execute" => writer[v].at = "execute"
  BY <1>1, <1>2 DEF WriterInv, WriterTypes
<1> QED
  BY <1>5, <1>6

LEMMA WriterSteps ==
  ASSUME WriterInv, NEW w \in Units, WriterStep(w)
  PROVE  /\ WriterInv' /\ LedgerKept /\ enabled' = enabled
         /\ sync = "operator" => sync' = "operator"
         /\ enabled = {} => \A v \in Units : writer'[v].at = "execute" => writer[v].at = "execute"
<1> DEFINE Enters == \A v \in Units : writer'[v].at = "execute" => writer[v].at = "execute"
<1>0. /\ writer \in [Units -> Processes] /\ writer[w] \in Processes /\ ledger \in Seq(LedgerRows)
      /\ HasRows(writer[w], Chain[w], ledger) /\ (writer[w].at \in UnderLock <=> sync = w)
      /\ writer[w].step \in Nat /\ writer[w].rows \in Seq(Nat) /\ Len(ledger) \in Nat
      /\ Len(writer[w].rows) \in Nat
  BY DEF WriterInv, WriterTypes, WritersLock, Processes
<1>1. CASE WaitTimeout(w)
  BY <1>1, EndsStep DEF WaitTimeout
<1>2. CASE BeginPipeline(w)
  <2> DEFINE recovered == FailInterruptedRun(ledger, Key(w), Instant)
             new == BeginRun(recovered, Key(w), Instant)
             p == [writer[w] EXCEPT !.at = "targets", !.failed = FALSE,
                                    !.rows = Append(writer[w].rows, Len(new))]
  <2>1. /\ writer[w].at = "waiting" /\ sync = Nobody /\ ledger' = new /\ sync' = w
        /\ writer' = [writer EXCEPT ![w] = p] /\ enabled' = enabled
    BY <1>2 DEF BeginPipeline
  <2>2. Key(w) \in Pipelines /\ writer[w].step \in 1..Len(Chain[w])
    BY <1>0, <2>1, ChainIs DEF Key, HasRows
  <2>3. /\ recovered \in Seq(LedgerRows) /\ Len(recovered) = Len(ledger)
        /\ \A j \in 1..Len(ledger) :
             /\ recovered[j].key = ledger[j].key
             /\ ledger[j].status = "completed" => recovered[j] = ledger[j]
    BY <1>0, FailInterruptedIs
  <2> HIDE DEF recovered
  <2>4. /\ new \in Seq(LedgerRows) /\ Len(new) = Len(ledger) + 1
        /\ \A i \in 1..Len(ledger) : new[i] = recovered[i]
        /\ new[Len(ledger) + 1].status = "running"
    BY <2>2, <2>3, BeginRunIs
  <2> HIDE DEF new
  <2>5. /\ p \in Processes /\ p.at = "targets" /\ p.step = writer[w].step
        /\ p.rows = Append(writer[w].rows, Len(new))
    <3> DEFINE q == writer[w]
               open == Append(q.rows, Len(new))
    <3>1. q \in Processes /\ open \in Seq(Nat)
      BY <1>0, <2>4
    <3> HIDE DEF q, open
    <3>2. p = [q EXCEPT !.at = "targets", !.failed = FALSE, !.rows = open]
      BY DEF p, q, open
    <3>3. /\ p \in Processes /\ p.at = "targets" /\ p.step = q.step /\ p.rows = open
      BY <3>1, <3>2 DEF Processes, Stages
    <3> QED
      BY <3>3 DEF q, open
  <2> HIDE DEF p
  <2>6. LedgerKept
    BY <1>0, <2>1, <2>3, <2>4 DEF LedgerKept
  <2>7. HasRows(p, Chain[w], new)
    <3>1. /\ Len(writer[w].rows) = writer[w].step - 1 /\ p.step \in 1..Len(Chain[w])
          /\ \A k \in 1..Len(writer[w].rows) :
               /\ writer[w].rows[k] \in 1..Len(ledger)
               /\ k < writer[w].step => ledger[writer[w].rows[k]].status = "completed"
      BY <1>0, <2>1, <2>2, <2>5 DEF HasRows
    <3>2. /\ Len(p.rows) = p.step /\ p.rows[p.step] = Len(ledger) + 1
          /\ \A k \in 1..Len(writer[w].rows) : p.rows[k] = writer[w].rows[k]
      BY <1>0, <2>4, <2>5, <3>1
    <3>3. \A k \in 1..Len(p.rows) :
            /\ p.rows[k] \in 1..Len(new)
            /\ k < p.step => new[p.rows[k]].status = "completed"
      <4> TAKE k \in 1..Len(p.rows)
      <4>1. Len(p.rows) = Len(writer[w].rows) + 1 /\ k \in Nat
        BY <1>0, <2>5, <3>1, <3>2
      <4>2. CASE k \in 1..Len(writer[w].rows)
        <5>1. /\ p.rows[k] \in 1..Len(ledger) /\ ledger[p.rows[k]].status = "completed"
              /\ p.rows[k] \in 1..Len(new)
          <6>1. k < writer[w].step /\ p.rows[k] = writer[w].rows[k]
            BY <1>0, <3>1, <3>2, <4>2
          <6>2. p.rows[k] \in 1..Len(ledger) /\ ledger[p.rows[k]].status = "completed"
            BY <3>1, <4>2, <6>1
          <6> QED
            BY <1>0, <2>4, <6>2
        <5> QED
          BY <2>3, <2>4, <5>1
      <4>3. CASE k = p.step
        BY <1>0, <2>4, <3>2, <4>3
      <4> QED
        BY <1>0, <3>2, <4>1, <4>2, <4>3
    <3> QED
      BY <2>4, <2>5, <3>1, <3>2, <3>3 DEF HasRows, UnderLock
  <2>8. /\ writer'[w] = p /\ \A v \in Units : v # w => writer'[v] = writer[v]
        /\ writer' \in [Units -> Processes]
    BY <1>0, <2>1, <2>5
  <2>9. \A v \in Units : HasRows(writer'[v], Chain[v], ledger')
    <3> TAKE v \in Units
    <3>1. CASE v = w
      BY <2>1, <2>7, <2>8, <3>1
    <3>2. CASE v # w
      <4>1. writer[v].at \notin UnderLock
        BY <2>1, NamesAreDistinct DEF WriterInv, WritersLock
      <4>2. writer[v] \in Processes /\ HasRows(writer[v], Chain[v], ledger)
        BY <1>0 DEF WriterInv
      <4>3. \A i \in 1..Len(ledger) : ledger[i].status = "completed" => new[i].status = "completed"
        BY <2>3, <2>4
      <4> QED
        BY <1>0, <2>1, <2>4, <2>8, <3>2, <4>1, <4>2, <4>3, RowsKept
    <3> QED
      BY <3>1, <3>2
  <2>10. WriterTypes' /\ WritersLock'
    BY <2>1, <2>4, <2>5, <2>8, NamesAreDistinct DEF WriterInv, WriterTypes, WritersLock, UnderLock
  <2> QED
    BY <2>1, <2>5, <2>6, <2>8, <2>9, <2>10, NamesAreDistinct DEF WriterInv
<1>3. CASE ReadTargets(w)
  <2> DEFINE targets == {s \in enabled : ProviderOfScope[s] = ProviderOf[Key(w)]}
             p == [writer[w] EXCEPT !.at = IF targets = {} THEN "finish" ELSE "execute",
                                    !.left = targets, !.failed = (targets = {})]
  <2>1. writer[w].at = "targets" /\ writer' = [writer EXCEPT ![w] = p]
        /\ UNCHANGED <<sync, enabled, ledger>>
    BY <1>3 DEF ReadTargets
  <2>2. targets \in SUBSET DOMAIN ProviderOfScope /\ (enabled = {} => targets = {})
    BY DEF WriterInv, WriterTypes
  <2> HIDE DEF targets
  <2>3. /\ p \in Processes /\ p.at \in {"finish", "execute"} /\ p.step = writer[w].step
        /\ p.rows = writer[w].rows /\ (targets = {} => p.at = "finish")
    BY <1>0, <2>2 DEF Processes, Stages
  <2> HIDE DEF p
  <2>4. HasRows(p, Chain[w], ledger) /\ p.at \in UnderLock /\ writer[w].at \in UnderLock
    BY <1>0, <2>1, <2>3 DEF HasRows, UnderLock
  <2>5. WriterInv' /\ LedgerKept
    BY <2>1, <2>3, <2>4, WriterMoves
  <2>6. enabled = {} => Enters
    BY <1>0, <2>1, <2>2, <2>3
  <2> QED
    BY <2>1, <2>5, <2>6
<1>4. CASE ExecuteScope(w)
  <2>1. PICK s \in writer[w].left, ok \in BOOLEAN :
          writer' = [writer EXCEPT ![w].left = @ \ {s}, ![w].failed = @ \/ ~ok,
                            ![w].at = IF writer[w].left = {s} THEN "finish" ELSE @]
    BY <1>4 DEF ExecuteScope
  <2> DEFINE p == [writer[w] EXCEPT !.left = @ \ {s}, !.failed = @ \/ ~ok,
                            !.at = IF writer[w].left = {s} THEN "finish" ELSE @]
  <2>2. /\ writer[w].at = "execute" /\ writer' = [writer EXCEPT ![w] = p]
        /\ UNCHANGED <<sync, enabled, ledger>>
    BY <1>4, <2>1 DEF ExecuteScope
  <2>3. /\ p \in Processes /\ p.at \in {"finish", "execute"} /\ p.step = writer[w].step
        /\ p.rows = writer[w].rows
    BY <1>0, <2>2 DEF Processes, Stages
  <2> HIDE DEF p
  <2>4. HasRows(p, Chain[w], ledger) /\ p.at \in UnderLock /\ writer[w].at \in UnderLock
    BY <1>0, <2>2, <2>3 DEF HasRows, UnderLock
  <2>5. WriterInv' /\ LedgerKept
    BY <2>2, <2>3, <2>4, WriterMoves
  <2>6. Enters
    BY <1>0, <2>2, <2>3
  <2> QED
    BY <2>2, <2>5, <2>6
<1>5. CASE FinishPipeline(w)
  <2> DEFINE i == OpenRow(w)
  <2>1. /\ writer[w].at = "finish" /\ enabled' = enabled /\ sync = w /\ i \in 1..Len(ledger)
        /\ Len(writer[w].rows) = writer[w].step /\ i = writer[w].rows[writer[w].step]
        /\ writer[w].step \in 1..Len(Chain[w])
    BY <1>0, <1>5 DEF FinishPipeline, HasRows, UnderLock, OpenRow
  <2>2. ledger' = (IF writer[w].failed THEN FailRun(ledger, i, Instant)
                                       ELSE CompleteRun(ledger, i, Instant))
    BY <1>5 DEF FinishPipeline
  <2>3. PICK next \in Processes :
          /\ writer' = [writer EXCEPT ![w] = next] /\ sync' = Nobody
          /\ \/ /\ ~writer[w].failed /\ writer[w].step < Len(Chain[w])
                /\ next.at = "waiting" /\ next.step = writer[w].step + 1
                /\ next.rows = writer[w].rows
             \/ next.at = "inactive" /\ next.step = 0 /\ next.rows = <<>>
    <3>1. CASE ~writer[w].failed /\ writer[w].step < Len(Chain[w])
      <4> DEFINE next == [writer[w] EXCEPT !.at = "waiting", !.step = @ + 1]
      <4>1. /\ next \in Processes /\ next.at = "waiting" /\ next.step = writer[w].step + 1
            /\ next.rows = writer[w].rows
        <5> DEFINE q == writer[w]
        <5>1. q \in Processes /\ q.step + 1 \in Nat
          BY <1>0
        <5>2. next = [q EXCEPT !.at = "waiting", !.step = q.step + 1]
          OBVIOUS
        <5> HIDE DEF q, next
        <5>3. /\ next \in Processes /\ next.at = "waiting" /\ next.step = q.step + 1
              /\ next.rows = q.rows
          BY <5>1, <5>2 DEF Processes, Stages
        <5> QED
          BY <5>3 DEF q
      <4>2. writer' = [writer EXCEPT ![w] = next] /\ sync' = Nobody
        BY <1>5, <3>1 DEF FinishPipeline
      <4> HIDE DEF next
      <4> QED
        BY <3>1, <4>1, <4>2
    <3>2. CASE ~(~writer[w].failed /\ writer[w].step < Len(Chain[w]))
      <4> DEFINE result == IF writer[w].failed THEN "failed" ELSE "success"
                 next == Inactive(result)
      <4>1. writer' = [writer EXCEPT ![w] = next] /\ sync' = Nobody
        BY <1>5, <2>1, <3>2 DEF FinishPipeline, Ends
      <4>2. next \in Processes /\ next.at = "inactive" /\ next.step = 0 /\ next.rows = <<>>
        BY InactiveIs
      <4> HIDE DEF next
      <4> QED
        BY <4>1, <4>2
    <3> QED
      BY <3>1, <3>2
  <2> HIDE DEF i
  <2>4. /\ ledger' \in Seq(LedgerRows) /\ Len(ledger') = Len(ledger)
        /\ \A j \in 1..Len(ledger) : ledger'[j].key = ledger[j].key
        /\ \A j \in 1..Len(ledger) : j # i => ledger'[j] = ledger[j]
        /\ ~writer[w].failed => ledger'[i].status = "completed"
    BY <1>0, <2>1, <2>2, FinishIs
  <2>5. ledger[i].status = "running"
    BY <1>0, <2>1 DEF HasRows, UnderLock
  <2>6. LedgerKept
    BY <1>0, <2>4, <2>5 DEF LedgerKept
  <2>7. /\ writer'[w] = next /\ \A v \in Units : v # w => writer'[v] = writer[v]
        /\ writer' \in [Units -> Processes]
    BY <1>0, <2>3
  <2>8. HasRows(next, Chain[w], ledger')
    <3>1. CASE next.at = "inactive" /\ next.step = 0 /\ next.rows = <<>>
      BY <3>1 DEF HasRows, UnderLock
    <3>2. CASE ~writer[w].failed /\ next.at = "waiting" /\ next.step = writer[w].step + 1
               /\ next.rows = writer[w].rows /\ writer[w].step < Len(Chain[w])
      <4>1. \A k \in 1..Len(writer[w].rows) :
              /\ writer[w].rows[k] \in 1..Len(ledger)
              /\ k < writer[w].step => ledger[writer[w].rows[k]].status = "completed"
        BY <1>0 DEF HasRows
      <4>2. next.step \in 1..Len(Chain[w]) /\ Len(next.rows) = next.step - 1
        BY <1>0, <2>1, <3>2, ChainIs
      <4>3. \A k \in 1..Len(next.rows) :
              /\ next.rows[k] \in 1..Len(ledger')
              /\ ledger'[next.rows[k]].status = "completed"
        <5> TAKE k \in 1..Len(next.rows)
        <5>1. k \in 1..writer[w].step /\ next.rows[k] \in 1..Len(ledger)
          BY <2>1, <3>2, <4>1
        <5>2. CASE next.rows[k] = i
          BY <2>4, <3>2, <5>1, <5>2
        <5>3. CASE next.rows[k] # i
          <6>1. k < writer[w].step
            BY <1>0, <2>1, <3>2, <5>1, <5>3
          <6> QED
            BY <2>1, <2>4, <3>2, <4>1, <5>1, <5>3, <6>1
        <5> QED
          BY <5>2, <5>3
      <4> QED
        BY <3>2, <4>2, <4>3 DEF HasRows, UnderLock
    <3> QED
      BY <2>3, <3>1, <3>2
  <2>9. \A v \in Units : HasRows(writer'[v], Chain[v], ledger')
    <3> TAKE v \in Units
    <3>1. CASE v = w
      BY <2>7, <2>8, <3>1
    <3>2. CASE v # w
      <4>1. writer[v].at \notin UnderLock
        BY <2>1, <3>2 DEF WriterInv, WritersLock
      <4>2. writer[v] \in Processes /\ HasRows(writer[v], Chain[v], ledger)
        BY <1>0 DEF WriterInv
      <4>3. \A j \in 1..Len(ledger) : ledger[j].status = "completed" => ledger'[j].status = "completed"
        BY <2>6 DEF LedgerKept
      <4> QED
        BY <1>0, <2>4, <2>7, <3>2, <4>1, <4>2, <4>3, RowsKept
    <3> QED
      BY <3>1, <3>2
  <2>10. next.at \notin UnderLock
    BY <2>3 DEF UnderLock
  <2>11. WriterTypes'
    BY <2>1, <2>3, <2>4, <2>7 DEF WriterInv, WriterTypes
  <2>12. WritersLock'
    BY <2>1, <2>3, <2>7, <2>10, NamesAreDistinct DEF WriterInv, WritersLock
  <2>13. Enters
    BY <2>3, <2>7
  <2> QED
    BY <2>1, <2>6, <2>9, <2>11, <2>12, <2>13, NamesAreDistinct DEF WriterInv
<1> QED
  BY <1>1, <1>2, <1>3, <1>4, <1>5 DEF WriterStep

-----------------------------------------------------------------------------
(* The operator: what each step of apply and of abort may count on.        *)

Steps == Applying \cup {"idle", "preflight", "aborting", "stop timers", "stop units", "lock",
                        "disable", "confirm", "conclude"}
Operators == [at : Steps, i : Nat, rows : Nat, problems : SUBSET {"journal", "stop", "identity"},
              original : BOOLEAN]
Journals == [phase : Phases, qualified : 0..Len(Qualification)]

OperatorTypes ==
    /\ op \in Operators /\ journal \in Journals
    /\ timers \in [Scheduled -> {"absent", "disabled", "enabled"}]
    /\ installed \in {"no", "partly", "yes"} /\ report \in {"none", "PASS", "PAUSED", "FAIL"}

\* What a step does to Scopes and timers it does under the formal lock.
OperatorsLock ==
    op.at \in {"mkdir", "prepare", "install", "enable", "baseline", "schedules", "pass", "done",
               "disable", "confirm"} => sync = "operator"

JournalTellsStep ==
    /\ op.at = "mkdir" => journal.phase = "absent"
    /\ op.at = "prepare" => journal.phase = "empty"
    /\ op.at \in {"install", "enable", "baseline", "qualify", "wait", "recheck", "final"} =>
         journal.phase = "PREPARED"
    /\ op.at \in {"schedules", "pass"} => journal.phase = "ACTIVATING"
    /\ op.at = "done" => journal.phase = "PASS"

Earned(table, n) == \A i \in 1..n : Successes(table, Chain[Qualification[i]][1]) # {}
TimerRuns == \E w \in Scheduled : timers[w] = "enabled"

QualifiedByStep ==
    /\ journal.phase \in {"absent", "empty"} \/ op.at \in {"install", "enable", "baseline"} =>
         journal.qualified = 0
    /\ op.at \in {"qualify", "wait", "recheck"} =>
         op.i \in 1..Len(Qualification) /\ journal.qualified = op.i - 1
    /\ op.at \in {"final", "schedules", "pass", "done"} =>
         journal.qualified = Len(Qualification)
    /\ op.at = "schedules" => op.i \in 1..Len(Schedules)
    /\ Earned(ledger, journal.qualified)
    /\ TimerRuns => journal.qualified = Len(Qualification)

\* How far an abort without problems has come.
AbortAdvances ==
    /\ op.at = "stop timers" => op.i \in 1..Len(Schedules)
    /\ op.at = "stop timers" /\ op.problems = {} =>
         \A j \in 1..(op.i - 1) : timers[Schedules[j]] # "enabled"
    /\ op.at = "stop units" => op.i \in 1..Len(WriterUnits)
    /\ op.at \in {"stop units", "lock", "disable", "confirm", "conclude"} /\ op.problems = {} =>
         ~TimerRuns
    /\ op.at = "conclude" /\ op.problems = {} => Quiet
    /\ journal.phase = "ABORTED" => Quiet
    /\ report = "PAUSED" => op.at = "idle" /\ journal.phase = "ABORTED"

OperatorInv ==
    /\ OperatorTypes /\ OperatorsLock /\ JournalTellsStep /\ JournalPrecedesMutation
    /\ QualifiedByStep /\ AbortAdvances

NoneEnters == \A v \in Units : writer'[v].at = "execute" => writer[v].at = "execute"

LEMMA ListsAre ==
  /\ Qualification \in Seq(Units) /\ Schedules \in Seq(Units) /\ WriterUnits \in Seq(Units)
  /\ Len(Qualification) \in Nat \ {0} /\ Len(Schedules) \in Nat \ {0}
  /\ Len(WriterUnits) \in Nat \ {0}
  /\ \A i \in 1..Len(Schedules) : Schedules[i] \in Scheduled
  /\ \A w \in Scheduled : \E i \in 1..Len(Schedules) : w = Schedules[i]
  /\ \A i \in 1..Len(Qualification) : Qualification[i] \in Units
  /\ \A i \in 1..Len(WriterUnits) : WriterUnits[i] \in Units
  /\ Scheduled \subseteq Units
<1>1. \A s \in {WriterUnits, Qualification, Schedules} : s \in Seq(Units) /\ s # <<>>
  BY CutoverAssumption
<1>2. \A s \in Seq(Units) : Len(s) \in Nat /\ (s # <<>> => Len(s) # 0) /\ DOMAIN s = 1..Len(s)
                            /\ \A i \in 1..Len(s) : s[i] \in Units
  BY EmptySeq
<1> QED
  BY <1>1, <1>2 DEF Scheduled

LEMMA LengthsAre ==
  /\ Len(Qualification) \in Nat \ {0} /\ Len(Schedules) \in Nat \ {0}
  /\ Len(WriterUnits) \in Nat \ {0}
BY ListsAre

LEMMA EarnedStays ==
  ASSUME ledger \in Seq(LedgerRows), ledger' \in Seq(LedgerRows), LedgerKept, NEW n \in Nat,
         Earned(ledger, n)
  PROVE  Earned(ledger', n)
BY SuccessesStay DEF Earned

\* Nothing is enabled, so the host stays as quiet as it was.
LEMMA QuietStays ==
  ASSUME Quiet, NoneEnters, enabled' = {}, TimerRuns' => TimerRuns
  PROVE  Quiet'
BY DEF Quiet, NoneEnters, TimerRuns

\* Steps of others leave what the operator counts on.
LEMMA OthersStep ==
  ASSUME OperatorInv, WriterInv, WriterInv', LedgerKept, UNCHANGED opVars, enabled' = enabled,
         sync = "operator" => sync' = "operator", enabled = {} => NoneEnters
  PROVE  OperatorInv'
<1>1. UNCHANGED <<op, journal, installed, timers, report>>
  BY DEF opVars
<1>2. OperatorTypes' /\ OperatorsLock' /\ JournalTellsStep' /\ JournalPrecedesMutation'
  BY <1>1 DEF OperatorInv, OperatorTypes, OperatorsLock, JournalTellsStep,
     JournalPrecedesMutation, SchedulesAre
<1>3. Earned(ledger', journal.qualified)
  BY EarnedStays DEF OperatorInv, OperatorTypes, QualifiedByStep, Journals, WriterInv, WriterTypes
<1>4. QualifiedByStep'
  BY <1>1, <1>3 DEF OperatorInv, QualifiedByStep, TimerRuns, Earned
<1>5. Quiet => Quiet'
  BY <1>1, QuietStays DEF Quiet, TimerRuns
<1>6. AbortAdvances'
  BY <1>1, <1>5 DEF OperatorInv, AbortAdvances, TimerRuns
<1> QED
  BY <1>2, <1>4, <1>6 DEF OperatorInv

CutoverInv == WriterInv /\ OperatorInv


LEMMA HasProblem ==
  ASSUME NEW o \in Operators, NEW what \in {"journal", "stop", "identity"},
         NEW p, p = [o EXCEPT !.problems = @ \cup {what}]
  PROVE  p \in Operators /\ p.at = o.at /\ p.i = o.i /\ p.problems # {}
BY DEF Operators

LEMMA InRange ==
  \A n \in Nat : \A i \in 1..n : i \in Nat /\ i + 1 \in Nat /\ (i # n => i + 1 \in 1..n)
OBVIOUS

LEMMA AfterTimerIs ==
  ASSUME op \in Operators, op.at = "stop timers", op.i \in 1..Len(Schedules)
  PROVE  /\ AfterTimer \in Operators /\ AfterTimer.problems = op.problems
         /\ op.i = Len(Schedules) => AfterTimer.at = "stop units" /\ AfterTimer.i = 1
         /\ op.i # Len(Schedules) =>
              /\ AfterTimer.at = "stop timers" /\ AfterTimer.i = op.i + 1
              /\ AfterTimer.i \in 1..Len(Schedules)
<1>0. "stop units" \in Steps
  BY DEF Steps
<1>1. op.i + 1 \in Nat /\ (op.i # Len(Schedules) => op.i + 1 \in 1..Len(Schedules))
  BY LengthsAre, InRange
<1>2. CASE op.i = Len(Schedules)
  <2> DEFINE p == [op EXCEPT !.at = "stop units", !.i = 1]
  <2>1. p \in Operators /\ p.at = "stop units" /\ p.i = 1 /\ p.problems = op.problems
    BY <1>0, <1>1 DEF Operators
  <2> QED
    BY <1>2, <2>1 DEF AfterTimer
<1>3. CASE op.i # Len(Schedules)
  <2> DEFINE p == [op EXCEPT !.i = op.i + 1]
  <2>1. AfterTimer = p /\ op.i + 1 \in 1..Len(Schedules)
    BY <1>1, <1>3 DEF AfterTimer
  <2>2. p \in Operators /\ p.at = op.at /\ p.i = op.i + 1 /\ p.problems = op.problems
    BY <1>1 DEF Operators
  <2> HIDE DEF p
  <2> QED
    BY <1>3, <2>1, <2>2
<1> QED
  BY <1>2, <1>3

LEMMA AfterUnitIs ==
  ASSUME op \in Operators, op.at = "stop units", op.i \in 1..Len(WriterUnits)
  PROVE  /\ AfterUnit \in Operators /\ AfterUnit.problems = op.problems
         /\ \/ AfterUnit.at = "lock"
            \/ AfterUnit.at = "stop units" /\ AfterUnit.i \in 1..Len(WriterUnits)
<1>0. "lock" \in Steps
  BY DEF Steps
<1>1. op.i + 1 \in Nat /\ (op.i # Len(WriterUnits) => op.i + 1 \in 1..Len(WriterUnits))
  BY LengthsAre, InRange
<1>2. CASE op.i = Len(WriterUnits)
  <2> DEFINE p == [op EXCEPT !.at = "lock", !.i = 0]
  <2>1. p \in Operators /\ p.at = "lock" /\ p.problems = op.problems
    BY <1>0, <1>1 DEF Operators
  <2> QED
    BY <1>2, <2>1 DEF AfterUnit
<1>3. CASE op.i # Len(WriterUnits)
  <2> DEFINE p == [op EXCEPT !.i = op.i + 1]
  <2>1. AfterUnit = p /\ op.i + 1 \in 1..Len(WriterUnits)
    BY <1>1, <1>3 DEF AfterUnit
  <2>2. p \in Operators /\ p.at = op.at /\ p.i = op.i + 1 /\ p.problems = op.problems
    BY <1>1 DEF Operators
  <2> HIDE DEF p
  <2> QED
    BY <2>1, <2>2
<1> QED
  BY <1>2, <1>3

\* The steps of apply, up to the report.
LEMMA ApplySteps ==
  ASSUME CutoverInv,
         Apply \/ Preflight \/ MakeStateDirectory \/ SavePrepared \/ Install
         \/ CompareBaseline \/ Qualified \/ Recheck \/ FinalCheck \/ EnableSchedule
         \/ SavePass \/ Return \/ Verify
  PROVE  CutoverInv' /\ LedgerKept
<1> USE DEF writerVars, Now, Goto, Reported, Release, NoOperator
<1>1. CASE Apply
  <2>1. WriterInv' /\ LedgerKept
    BY <1>1, WriterSame DEF CutoverInv, WriterInv, WriterTypes, Apply, writerVars
  <2>2. OperatorTypes' /\ OperatorsLock'
    BY <1>1 DEF CutoverInv, OperatorInv, OperatorTypes, OperatorsLock, Operators, Steps,
       Applying, Journals, Phases, Apply, writerVars
  <2>3. JournalTellsStep' /\ JournalPrecedesMutation'
    BY <1>1 DEF CutoverInv, OperatorInv, OperatorTypes, Operators, JournalTellsStep,
       JournalPrecedesMutation, Journals, SchedulesAre, Apply, writerVars
  <2>4. QualifiedByStep'
    BY <1>1, ListsAre DEF CutoverInv, OperatorInv, OperatorTypes, Operators, JournalTellsStep,
       QualifiedByStep, Journals, Earned, TimerRuns, SchedulesAre, Apply, writerVars
  <2>5. AbortAdvances'
    BY <1>1, ListsAre DEF CutoverInv, OperatorInv, OperatorTypes, Operators, JournalTellsStep,
       AbortAdvances, Journals, TimerRuns, Quiet, SchedulesAre, Apply, writerVars
  <2> QED
    BY <2>1, <2>2, <2>3, <2>4, <2>5 DEF CutoverInv, OperatorInv
<1>2. CASE Preflight
  <2>0. op \in Operators /\ Len(ledger) \in Nat
    BY DEF CutoverInv, OperatorInv, OperatorTypes, WriterInv, WriterTypes
  <2>a. UNCHANGED <<enabled, ledger, writer, journal, installed, timers>> /\ op.at = "preflight"
    BY <1>2 DEF Preflight
  <2>1. CASE /\ sync = Nobody /\ journal.phase = "absent" /\ sync' = "operator" /\ report' = report
             /\ op' = [op EXCEPT !.at = "mkdir", !.rows = Len(ledger)]
    <3>1. op' \in Operators /\ op'.at = "mkdir"
      BY <2>0, <2>1 DEF Operators, Steps, Applying
    <3>2. WriterInv' /\ LedgerKept
      BY <2>a, <2>1, WriterSame DEF CutoverInv, WriterInv, WriterTypes
    <3>3. OperatorTypes' /\ OperatorsLock' /\ JournalTellsStep' /\ JournalPrecedesMutation'
      BY <2>a, <2>1, <3>1 DEF CutoverInv, OperatorInv, OperatorTypes, OperatorsLock,
         JournalTellsStep, JournalPrecedesMutation, SchedulesAre
    <3>4. QualifiedByStep' /\ AbortAdvances'
      BY <2>a, <2>1, <3>1 DEF CutoverInv, OperatorInv, QualifiedByStep, AbortAdvances, Earned,
         TimerRuns, Quiet
    <3> QED
      BY <3>2, <3>3, <3>4 DEF CutoverInv, OperatorInv
  <2>2. CASE op' = NoOperator /\ report' = "FAIL" /\ sync' = sync
    <3>1. op' \in Operators /\ op'.at = "idle"
      BY <2>2 DEF Operators, Steps, Applying
    <3>2. WriterInv' /\ LedgerKept
      BY <2>a, <2>2, WriterSame DEF CutoverInv, WriterInv, WriterTypes
    <3>3. OperatorTypes' /\ OperatorsLock' /\ JournalTellsStep' /\ JournalPrecedesMutation'
      BY <2>a, <2>2, <3>1 DEF CutoverInv, OperatorInv, OperatorTypes, OperatorsLock,
         JournalTellsStep, JournalPrecedesMutation, SchedulesAre
    <3>4. QualifiedByStep' /\ AbortAdvances'
      BY <2>a, <2>2, <3>1 DEF CutoverInv, OperatorInv, QualifiedByStep, AbortAdvances, Earned,
         TimerRuns, Quiet
    <3> QED
      BY <3>2, <3>3, <3>4 DEF CutoverInv, OperatorInv
  <2> QED
    BY <1>2, <2>1, <2>2 DEF Preflight
<1>3. CASE MakeStateDirectory
  <2>1. WriterInv' /\ LedgerKept
    BY <1>3, WriterSame DEF CutoverInv, WriterInv, WriterTypes, MakeStateDirectory, writerVars
  <2>2. OperatorTypes' /\ OperatorsLock'
    BY <1>3 DEF CutoverInv, OperatorInv, OperatorTypes, OperatorsLock, Operators, Steps,
       Applying, Journals, Phases, MakeStateDirectory, writerVars
  <2>3. JournalTellsStep' /\ JournalPrecedesMutation'
    BY <1>3 DEF CutoverInv, OperatorInv, OperatorTypes, Operators, JournalTellsStep,
       JournalPrecedesMutation, Journals, SchedulesAre, MakeStateDirectory, writerVars
  <2>4. QualifiedByStep'
    BY <1>3, ListsAre DEF CutoverInv, OperatorInv, OperatorTypes, Operators, JournalTellsStep,
       QualifiedByStep, Journals, Earned, TimerRuns, SchedulesAre, MakeStateDirectory,
       writerVars
  <2>5. AbortAdvances'
    BY <1>3, ListsAre DEF CutoverInv, OperatorInv, OperatorTypes, Operators, JournalTellsStep,
       AbortAdvances, Journals, TimerRuns, Quiet, SchedulesAre, MakeStateDirectory, writerVars
  <2> QED
    BY <2>1, <2>2, <2>3, <2>4, <2>5 DEF CutoverInv, OperatorInv
<1>4. CASE SavePrepared
  <2>1. WriterInv' /\ LedgerKept
    BY <1>4, WriterSame DEF CutoverInv, WriterInv, WriterTypes, SavePrepared, writerVars
  <2>2. OperatorTypes' /\ OperatorsLock'
    BY <1>4 DEF CutoverInv, OperatorInv, OperatorTypes, OperatorsLock, Operators, Steps,
       Applying, Journals, Phases, SavePrepared, writerVars
  <2>3. JournalTellsStep' /\ JournalPrecedesMutation'
    BY <1>4 DEF CutoverInv, OperatorInv, OperatorTypes, Operators, JournalTellsStep,
       JournalPrecedesMutation, Journals, SchedulesAre, SavePrepared, writerVars
  <2>4. QualifiedByStep'
    BY <1>4, ListsAre DEF CutoverInv, OperatorInv, OperatorTypes, Operators, JournalTellsStep,
       QualifiedByStep, Journals, Earned, TimerRuns, SchedulesAre, SavePrepared, writerVars
  <2>5. AbortAdvances'
    BY <1>4, ListsAre DEF CutoverInv, OperatorInv, OperatorTypes, Operators, JournalTellsStep,
       AbortAdvances, Journals, TimerRuns, Quiet, SchedulesAre, SavePrepared, writerVars
  <2> QED
    BY <2>1, <2>2, <2>3, <2>4, <2>5 DEF CutoverInv, OperatorInv
<1>5. CASE Install
  <2>1. WriterInv' /\ LedgerKept
    BY <1>5, WriterSame DEF CutoverInv, WriterInv, WriterTypes, Install, writerVars
  <2>2. OperatorTypes' /\ OperatorsLock'
    BY <1>5 DEF CutoverInv, OperatorInv, OperatorTypes, OperatorsLock, Operators, Steps,
       Applying, Journals, Phases, Install, writerVars
  <2>3. JournalTellsStep' /\ JournalPrecedesMutation'
    BY <1>5 DEF CutoverInv, OperatorInv, OperatorTypes, Operators, JournalTellsStep,
       JournalPrecedesMutation, Journals, SchedulesAre, Install, writerVars
  <2>4. QualifiedByStep'
    BY <1>5, ListsAre DEF CutoverInv, OperatorInv, OperatorTypes, Operators, JournalTellsStep,
       QualifiedByStep, Journals, Earned, TimerRuns, SchedulesAre, Install, writerVars
  <2>5. AbortAdvances'
    BY <1>5, ListsAre DEF CutoverInv, OperatorInv, OperatorTypes, Operators, JournalTellsStep,
       AbortAdvances, Journals, TimerRuns, Quiet, SchedulesAre, Install, writerVars
  <2> QED
    BY <2>1, <2>2, <2>3, <2>4, <2>5 DEF CutoverInv, OperatorInv
<1>6. CASE CompareBaseline
  <2>0. Len(ledger) \in Nat
    BY DEF CutoverInv, WriterInv, WriterTypes
  <2>1. WriterInv' /\ LedgerKept
    BY <1>6, <2>0, WriterSame DEF CutoverInv, WriterInv, WriterTypes, CompareBaseline,
       writerVars, Evidence
  <2>2. OperatorTypes' /\ OperatorsLock'
    BY <1>6, <2>0 DEF CutoverInv, OperatorInv, OperatorTypes, OperatorsLock, Operators, Steps,
       Applying, Journals, Phases, CompareBaseline, writerVars, Evidence
  <2>3. JournalTellsStep' /\ JournalPrecedesMutation'
    BY <1>6, <2>0 DEF CutoverInv, OperatorInv, OperatorTypes, Operators, JournalTellsStep,
       JournalPrecedesMutation, Journals, SchedulesAre, CompareBaseline, writerVars, Evidence
  <2>4. QualifiedByStep'
    BY <1>6, <2>0, ListsAre DEF CutoverInv, OperatorInv, OperatorTypes, Operators,
       JournalTellsStep, QualifiedByStep, Journals, Earned, TimerRuns, SchedulesAre,
       CompareBaseline, writerVars, Evidence
  <2>5. AbortAdvances'
    BY <1>6, <2>0, ListsAre DEF CutoverInv, OperatorInv, OperatorTypes, Operators,
       JournalTellsStep, AbortAdvances, Journals, TimerRuns, Quiet, SchedulesAre,
       CompareBaseline, writerVars, Evidence
  <2> QED
    BY <2>1, <2>2, <2>3, <2>4, <2>5 DEF CutoverInv, OperatorInv
<1>7. CASE Qualified
  <2>1. WriterInv' /\ LedgerKept
    BY <1>7, WriterSame DEF CutoverInv, WriterInv, WriterTypes, Qualified, writerVars
  <2>2. OperatorTypes' /\ OperatorsLock'
    BY <1>7 DEF CutoverInv, OperatorInv, OperatorTypes, OperatorsLock, Operators, Steps,
       Applying, Journals, Phases, Qualified, writerVars
  <2>3. JournalTellsStep' /\ JournalPrecedesMutation'
    BY <1>7 DEF CutoverInv, OperatorInv, OperatorTypes, Operators, JournalTellsStep,
       JournalPrecedesMutation, Journals, SchedulesAre, Qualified, writerVars
  <2>4. QualifiedByStep'
    BY <1>7, ListsAre DEF CutoverInv, OperatorInv, OperatorTypes, Operators, JournalTellsStep,
       QualifiedByStep, Journals, Earned, TimerRuns, SchedulesAre, Qualified, writerVars
  <2>5. AbortAdvances'
    BY <1>7, ListsAre DEF CutoverInv, OperatorInv, OperatorTypes, Operators, JournalTellsStep,
       AbortAdvances, Journals, TimerRuns, Quiet, SchedulesAre, Qualified, writerVars
  <2> QED
    BY <2>1, <2>2, <2>3, <2>4, <2>5 DEF CutoverInv, OperatorInv
<1>8. CASE Recheck
  <2>0. Len(ledger) \in Nat
    BY DEF CutoverInv, WriterInv, WriterTypes
  <2>1. WriterInv' /\ LedgerKept
    BY <1>8, <2>0, WriterSame DEF CutoverInv, WriterInv, WriterTypes, Recheck, writerVars,
       Evidence, ExactlyCompleted, AddedRows
  <2>2. OperatorTypes' /\ OperatorsLock'
    <3>1. /\ op \in Operators /\ op.i \in 1..Len(Qualification)
          /\ op' = [op EXCEPT !.at = IF op.i = Len(Qualification) THEN "final" ELSE "qualify",
                              !.i = @ + 1, !.rows = Len(ledger)]
          /\ journal' = [journal EXCEPT !.qualified = op.i] /\ journal \in Journals
          /\ UNCHANGED <<sync, timers, installed, report>>
      BY <1>8 DEF CutoverInv, OperatorInv, OperatorTypes, QualifiedByStep, Recheck, writerVars
    <3>2. op' \in Operators /\ op'.at \in {"final", "qualify"}
      <4> DEFINE at == IF op.i = Len(Qualification) THEN "final" ELSE "qualify"
      <4>1. at \in Steps /\ at \in {"final", "qualify"} /\ op.i + 1 \in Nat
        BY <3>1, ListsAre DEF Steps, Applying
      <4>2. op' = [op EXCEPT !.at = at, !.i = op.i + 1, !.rows = Len(ledger)]
        BY <3>1
      <4> HIDE DEF at
      <4>3. [op EXCEPT !.at = at, !.i = op.i + 1, !.rows = Len(ledger)] \in Operators
            /\ [op EXCEPT !.at = at, !.i = op.i + 1, !.rows = Len(ledger)].at = at
        BY <2>0, <3>1, <4>1 DEF Operators
      <4> QED
        BY <4>1, <4>2, <4>3
    <3>3. journal' \in Journals
      BY <3>1, LengthsAre DEF Journals
    <3> QED
      BY <3>1, <3>2, <3>3 DEF CutoverInv, OperatorInv, OperatorTypes, OperatorsLock
  <2>3. JournalTellsStep' /\ JournalPrecedesMutation'
    BY <1>8, <2>0 DEF CutoverInv, OperatorInv, OperatorTypes, Operators, JournalTellsStep,
       JournalPrecedesMutation, Journals, SchedulesAre, Recheck, writerVars, Evidence,
       ExactlyCompleted, AddedRows
  <2>4. QualifiedByStep'
    <3>1. /\ op.i \in 1..Len(Qualification) /\ journal.qualified = op.i - 1
          /\ journal'.qualified = op.i /\ ledger' = ledger /\ timers' = timers
          /\ journal'.phase = "PREPARED" /\ journal.phase = "PREPARED"
          /\ op'.i = op.i + 1 /\ op'.at = IF op.i = Len(Qualification) THEN "final" ELSE "qualify"
      BY <1>8 DEF CutoverInv, OperatorInv, OperatorTypes, Operators, Journals, QualifiedByStep,
         JournalTellsStep, Recheck, writerVars
    <3>2. ledger[op.rows + 1].key = Chain[Qualification[op.i]][1] /\ op.rows + 1 \in 1..Len(ledger)
          /\ ledger[op.rows + 1].status = "completed"
      BY <1>8, <2>0 DEF CutoverInv, OperatorInv, OperatorTypes, Operators, Recheck, ExactlyCompleted,
         AddedRows
    <3>3. Successes(ledger, Chain[Qualification[op.i]][1]) # {}
      BY <3>2 DEF Successes, RowsOf, CutoverInv, WriterInv, WriterTypes
    <3>4. Earned(ledger, op.i)
      <4>1. op.i \in Nat /\ \A j \in 1..op.i : j \in 1..(op.i - 1) \/ j = op.i
        BY <3>1, ListsAre
      <4>2. Earned(ledger, op.i - 1)
        BY <3>1 DEF CutoverInv, OperatorInv, QualifiedByStep
      <4> QED
        BY <3>3, <4>1, <4>2 DEF Earned
    <3>5. ~TimerRuns'
      BY <1>8, <3>1 DEF Recheck, SchedulesAre, TimerRuns
    <3> QED
      BY <3>1, <3>4, <3>5, ListsAre DEF QualifiedByStep, Earned
  <2>5. AbortAdvances'
    BY <1>8, <2>0, ListsAre DEF CutoverInv, OperatorInv, OperatorTypes, Operators,
       JournalTellsStep, AbortAdvances, Journals, TimerRuns, Quiet, SchedulesAre, Recheck,
       writerVars, Evidence, ExactlyCompleted, AddedRows
  <2> QED
    BY <2>1, <2>2, <2>3, <2>4, <2>5 DEF CutoverInv, OperatorInv
<1>9. CASE FinalCheck
  <2>1. WriterInv' /\ LedgerKept
    BY <1>9, WriterSame DEF CutoverInv, WriterInv, WriterTypes, FinalCheck, writerVars
  <2>2. OperatorTypes' /\ OperatorsLock'
    BY <1>9 DEF CutoverInv, OperatorInv, OperatorTypes, OperatorsLock, Operators, Steps,
       Applying, Journals, Phases, FinalCheck, writerVars
  <2>3. JournalTellsStep' /\ JournalPrecedesMutation'
    BY <1>9 DEF CutoverInv, OperatorInv, OperatorTypes, Operators, JournalTellsStep,
       JournalPrecedesMutation, Journals, SchedulesAre, FinalCheck, writerVars
  <2>4. QualifiedByStep'
    BY <1>9, ListsAre DEF CutoverInv, OperatorInv, OperatorTypes, Operators, JournalTellsStep,
       QualifiedByStep, Journals, Earned, TimerRuns, SchedulesAre, FinalCheck, writerVars
  <2>5. AbortAdvances'
    BY <1>9, ListsAre DEF CutoverInv, OperatorInv, OperatorTypes, Operators, JournalTellsStep,
       AbortAdvances, Journals, TimerRuns, Quiet, SchedulesAre, FinalCheck, writerVars
  <2> QED
    BY <2>1, <2>2, <2>3, <2>4, <2>5 DEF CutoverInv, OperatorInv
<1>10. CASE EnableSchedule
  <2>a. op.i \in 1..Len(Schedules) /\ Schedules[op.i] \in Scheduled
    BY <1>10, ListsAre DEF EnableSchedule, CutoverInv, OperatorInv, QualifiedByStep
  <2>1. WriterInv' /\ LedgerKept
    BY <1>10, <2>a, WriterSame DEF CutoverInv, WriterInv, WriterTypes, EnableSchedule,
       writerVars
  <2>2. OperatorTypes' /\ OperatorsLock'
    <3>1. /\ op \in Operators /\ op.at = "schedules" /\ op.i \in Nat
          /\ op' = [op EXCEPT !.at = IF op.i = Len(Schedules) THEN "pass" ELSE @, !.i = @ + 1]
          /\ timers' = [timers EXCEPT ![Schedules[op.i]] = "enabled"]
          /\ UNCHANGED <<sync, journal, installed, report>>
      BY <1>10 DEF CutoverInv, OperatorInv, OperatorTypes, Operators, EnableSchedule, writerVars
    <3>2. op' \in Operators /\ op'.at \in {"pass", "schedules"}
      <4> DEFINE at == IF op.i = Len(Schedules) THEN "pass" ELSE "schedules"
      <4>1. at \in Steps /\ at \in {"pass", "schedules"} /\ op.i + 1 \in Nat
        BY <3>1 DEF Steps, Applying
      <4>2. op' = [op EXCEPT !.at = at, !.i = op.i + 1]
        BY <3>1
      <4> HIDE DEF at
      <4>3. [op EXCEPT !.at = at, !.i = op.i + 1] \in Operators
            /\ [op EXCEPT !.at = at, !.i = op.i + 1].at = at
        BY <3>1, <4>1 DEF Operators
      <4> QED
        BY <4>1, <4>2, <4>3
    <3> QED
      BY <2>a, <3>1, <3>2 DEF CutoverInv, OperatorInv, OperatorTypes, OperatorsLock
  <2>3. JournalTellsStep' /\ JournalPrecedesMutation'
    BY <1>10, <2>a DEF CutoverInv, OperatorInv, OperatorTypes, Operators, JournalTellsStep,
       JournalPrecedesMutation, Journals, SchedulesAre, EnableSchedule, writerVars
  <2>4. QualifiedByStep'
    BY <1>10, <2>a, ListsAre DEF CutoverInv, OperatorInv, OperatorTypes, Operators,
       JournalTellsStep, QualifiedByStep, Journals, Earned, TimerRuns, SchedulesAre,
       EnableSchedule, writerVars
  <2>5. AbortAdvances'
    BY <1>10, <2>a, ListsAre DEF CutoverInv, OperatorInv, OperatorTypes, Operators,
       JournalTellsStep, AbortAdvances, Journals, TimerRuns, Quiet, SchedulesAre,
       EnableSchedule, writerVars
  <2> QED
    BY <2>1, <2>2, <2>3, <2>4, <2>5 DEF CutoverInv, OperatorInv
<1>11. CASE SavePass
  <2>1. WriterInv' /\ LedgerKept
    BY <1>11, WriterSame DEF CutoverInv, WriterInv, WriterTypes, SavePass, writerVars
  <2>2. OperatorTypes' /\ OperatorsLock'
    BY <1>11 DEF CutoverInv, OperatorInv, OperatorTypes, OperatorsLock, Operators, Steps,
       Applying, Journals, Phases, SavePass, writerVars
  <2>3. JournalTellsStep' /\ JournalPrecedesMutation'
    BY <1>11 DEF CutoverInv, OperatorInv, OperatorTypes, Operators, JournalTellsStep,
       JournalPrecedesMutation, Journals, SchedulesAre, SavePass, writerVars
  <2>4. QualifiedByStep'
    BY <1>11, ListsAre DEF CutoverInv, OperatorInv, OperatorTypes, Operators, JournalTellsStep,
       QualifiedByStep, Journals, Earned, TimerRuns, SchedulesAre, SavePass, writerVars
  <2>5. AbortAdvances'
    BY <1>11, ListsAre DEF CutoverInv, OperatorInv, OperatorTypes, Operators, JournalTellsStep,
       AbortAdvances, Journals, TimerRuns, Quiet, SchedulesAre, SavePass, writerVars
  <2> QED
    BY <2>1, <2>2, <2>3, <2>4, <2>5 DEF CutoverInv, OperatorInv
<1>12. CASE Return
  <2>1. WriterInv' /\ LedgerKept
    BY <1>12, WriterSame DEF CutoverInv, WriterInv, WriterTypes, Return, writerVars
  <2>2. OperatorTypes' /\ OperatorsLock'
    BY <1>12 DEF CutoverInv, OperatorInv, OperatorTypes, OperatorsLock, Operators, Steps,
       Applying, Journals, Phases, Return, writerVars
  <2>3. JournalTellsStep' /\ JournalPrecedesMutation'
    BY <1>12 DEF CutoverInv, OperatorInv, OperatorTypes, Operators, JournalTellsStep,
       JournalPrecedesMutation, Journals, SchedulesAre, Return, writerVars
  <2>4. QualifiedByStep'
    BY <1>12, ListsAre DEF CutoverInv, OperatorInv, OperatorTypes, Operators, JournalTellsStep,
       QualifiedByStep, Journals, Earned, TimerRuns, SchedulesAre, Return, writerVars
  <2>5. AbortAdvances'
    BY <1>12, ListsAre DEF CutoverInv, OperatorInv, OperatorTypes, Operators, JournalTellsStep,
       AbortAdvances, Journals, TimerRuns, Quiet, SchedulesAre, Return, writerVars
  <2> QED
    BY <2>1, <2>2, <2>3, <2>4, <2>5 DEF CutoverInv, OperatorInv
<1>13. CASE Verify
  <2>1. WriterInv' /\ LedgerKept
    BY <1>13, WriterSame DEF CutoverInv, WriterInv, WriterTypes, Verify, writerVars
  <2>2. OperatorTypes' /\ OperatorsLock'
    BY <1>13 DEF CutoverInv, OperatorInv, OperatorTypes, OperatorsLock, Operators, Steps,
       Applying, Journals, Phases, Verify, writerVars
  <2>3. JournalTellsStep' /\ JournalPrecedesMutation'
    BY <1>13 DEF CutoverInv, OperatorInv, OperatorTypes, Operators, JournalTellsStep,
       JournalPrecedesMutation, Journals, SchedulesAre, Verify, writerVars
  <2>4. QualifiedByStep'
    BY <1>13, ListsAre DEF CutoverInv, OperatorInv, OperatorTypes, Operators, JournalTellsStep,
       QualifiedByStep, Journals, Earned, TimerRuns, SchedulesAre, Verify, writerVars
  <2>5. AbortAdvances'
    BY <1>13, ListsAre DEF CutoverInv, OperatorInv, OperatorTypes, Operators, JournalTellsStep,
       AbortAdvances, Journals, TimerRuns, Quiet, SchedulesAre, Verify, writerVars
  <2> QED
    BY <2>1, <2>2, <2>3, <2>4, <2>5 DEF CutoverInv, OperatorInv
<1> QED
  BY <1>1, <1>2, <1>3, <1>4, <1>5, <1>6, <1>7, <1>8, <1>9, <1>10, <1>11, <1>12, <1>13

\* The steps of abort.
LEMMA AbortSteps ==
  ASSUME CutoverInv,
         SaveAborting \/ StopTimer \/ LockForAbort \/ ConfirmDisabled \/ Conclude
         \/ AbortLockTimeout
  PROVE  CutoverInv' /\ LedgerKept
<1> USE DEF writerVars, Now, Goto, Reported, Release, NoOperator
<1>1. CASE SaveAborting
  <2>1. WriterInv' /\ LedgerKept
    BY <1>1, WriterSame DEF CutoverInv, WriterInv, WriterTypes, SaveAborting, writerVars
  <2>2. OperatorTypes' /\ OperatorsLock'
    BY <1>1 DEF CutoverInv, OperatorInv, OperatorTypes, OperatorsLock, Operators, Steps,
       Applying, Journals, Phases, SaveAborting, writerVars
  <2>3. JournalTellsStep' /\ JournalPrecedesMutation'
    BY <1>1 DEF CutoverInv, OperatorInv, OperatorTypes, Operators, JournalTellsStep,
       JournalPrecedesMutation, Journals, SchedulesAre, SaveAborting, writerVars
  <2>4. QualifiedByStep'
    BY <1>1, ListsAre DEF CutoverInv, OperatorInv, OperatorTypes, Operators, JournalTellsStep,
       QualifiedByStep, Journals, Earned, TimerRuns, SchedulesAre, SaveAborting, writerVars
  <2>5. AbortAdvances'
    BY <1>1, ListsAre DEF CutoverInv, OperatorInv, OperatorTypes, Operators, JournalTellsStep,
       AbortAdvances, Journals, TimerRuns, Quiet, SchedulesAre, SaveAborting, writerVars
  <2> QED
    BY <2>1, <2>2, <2>3, <2>4, <2>5 DEF CutoverInv, OperatorInv
<1>2. CASE StopTimer
  <2> DEFINE w == Schedules[op.i]
  <2>a. op.i \in 1..Len(Schedules) /\ w \in Scheduled
    BY <1>2, ListsAre DEF StopTimer, CutoverInv, OperatorInv, AbortAdvances
  <2>b. /\ op.at = "stop timers" /\ UNCHANGED <<sync, enabled, ledger, writer, journal, installed, report>>
        /\ timers' = [timers EXCEPT ![w] = IF @ = "absent" THEN @ ELSE "disabled"]
        /\ op' \in Operators /\ op'.problems = op.problems
        /\ op.i = Len(Schedules) => op'.at = "stop units" /\ op'.i = 1
        /\ op.i # Len(Schedules) =>
             op'.at = "stop timers" /\ op'.i = op.i + 1 /\ op'.i \in 1..Len(Schedules)
    BY <1>2, <2>a, AfterTimerIs DEF StopTimer, CutoverInv, OperatorInv, OperatorTypes, writerVars
  <2>1. WriterInv' /\ LedgerKept
    BY <2>a, <2>b, WriterSame DEF CutoverInv, WriterInv, WriterTypes
  <2>2. OperatorTypes' /\ OperatorsLock'
    BY <2>a, <2>b DEF CutoverInv, OperatorInv, OperatorTypes, OperatorsLock
  <2>3. JournalTellsStep' /\ JournalPrecedesMutation'
    BY <2>a, <2>b DEF CutoverInv, OperatorInv, OperatorTypes, Operators, JournalTellsStep,
       JournalPrecedesMutation, Journals, SchedulesAre
  <2>4. QualifiedByStep'
    BY <2>a, <2>b, ListsAre DEF CutoverInv, OperatorInv, OperatorTypes, Operators,
       JournalTellsStep, QualifiedByStep, Journals, Earned, TimerRuns, SchedulesAre
  <2>5. AbortAdvances'
    <3>1. /\ timers'[w] # "enabled"
          /\ \A v \in Scheduled : timers'[v] = "enabled" => timers[v] = "enabled"
      BY <2>a, <2>b DEF CutoverInv, OperatorInv, OperatorTypes
    <3>2. op.problems = {} => \A j \in 1..op.i : timers'[Schedules[j]] # "enabled"
      <4>1. \A j \in 1..op.i : j \in 1..(op.i - 1) \/ j = op.i
        BY <2>a, ListsAre
      <4>2. op.problems = {} => \A j \in 1..(op.i - 1) : timers[Schedules[j]] # "enabled"
        BY <2>b DEF CutoverInv, OperatorInv, AbortAdvances
      <4>3. \A j \in 1..op.i : Schedules[j] \in Scheduled
        BY <2>a, ListsAre
      <4> QED
        BY <3>1, <4>1, <4>2, <4>3
    <3>3. Quiet => Quiet'
      BY <2>b, <3>1 DEF Quiet
    <3>4. CASE op.i = Len(Schedules)
      <4>1. op.problems = {} => ~TimerRuns'
        BY <3>2, <3>4, ListsAre DEF TimerRuns
      <4> QED
        <5>1. 1 \in 1..Len(WriterUnits)
          BY LengthsAre
        <5> QED
          BY <2>b, <3>3, <3>4, <4>1, <5>1 DEF CutoverInv, OperatorInv, AbortAdvances
    <3>5. CASE op.i # Len(Schedules)
      <4>1. op'.i - 1 = op.i
        <5>1. op.i \in Nat /\ op'.i = op.i + 1
          BY <2>a, <2>b, <3>5, LengthsAre, InRange
        <5> QED
          BY <5>1
      <4> QED
        BY <2>b, <3>2, <3>3, <3>5, <4>1 DEF CutoverInv, OperatorInv, AbortAdvances
    <3> QED
      BY <3>4, <3>5
  <2> QED
    BY <2>1, <2>2, <2>3, <2>4, <2>5 DEF CutoverInv, OperatorInv
<1>3. CASE LockForAbort
  <2>1. WriterInv' /\ LedgerKept
    BY <1>3, WriterSame DEF CutoverInv, WriterInv, WriterTypes, LockForAbort, writerVars
  <2>2. OperatorTypes' /\ OperatorsLock'
    BY <1>3 DEF CutoverInv, OperatorInv, OperatorTypes, OperatorsLock, Operators, Steps,
       Applying, Journals, Phases, LockForAbort, writerVars
  <2>3. JournalTellsStep' /\ JournalPrecedesMutation'
    BY <1>3 DEF CutoverInv, OperatorInv, OperatorTypes, Operators, JournalTellsStep,
       JournalPrecedesMutation, Journals, SchedulesAre, LockForAbort, writerVars
  <2>4. QualifiedByStep'
    BY <1>3, ListsAre DEF CutoverInv, OperatorInv, OperatorTypes, Operators, JournalTellsStep,
       QualifiedByStep, Journals, Earned, TimerRuns, SchedulesAre, LockForAbort, writerVars
  <2>5. AbortAdvances'
    BY <1>3, ListsAre DEF CutoverInv, OperatorInv, OperatorTypes, Operators, JournalTellsStep,
       AbortAdvances, Journals, TimerRuns, Quiet, SchedulesAre, LockForAbort, writerVars
  <2> QED
    BY <2>1, <2>2, <2>3, <2>4, <2>5 DEF CutoverInv, OperatorInv
<1>4. CASE ConfirmDisabled

  <2>1. WriterInv' /\ LedgerKept
    BY <1>4, WriterSame DEF CutoverInv, WriterInv, WriterTypes, ConfirmDisabled, writerVars
  <2>2. OperatorTypes' /\ OperatorsLock'
    BY <1>4 DEF CutoverInv, OperatorInv, OperatorTypes, OperatorsLock, Operators, Steps,
       Applying, Journals, Phases, ConfirmDisabled, writerVars
  <2>3. JournalTellsStep' /\ JournalPrecedesMutation'
    BY <1>4 DEF CutoverInv, OperatorInv, OperatorTypes, Operators, JournalTellsStep,
       JournalPrecedesMutation, Journals, SchedulesAre, ConfirmDisabled, writerVars
  <2>4. QualifiedByStep'
    BY <1>4, ListsAre DEF CutoverInv, OperatorInv, OperatorTypes, Operators, JournalTellsStep,
       QualifiedByStep, Journals, Earned, TimerRuns, SchedulesAre, ConfirmDisabled, writerVars
  <2>5. AbortAdvances'
    <3>1. sync = "operator" /\ enabled = {} /\ op.at = "confirm"
      BY <1>4 DEF CutoverInv, OperatorInv, OperatorsLock, ConfirmDisabled
    <3>2. \A v \in Units : writer[v].at # "execute"
      BY <3>1, NamesAreDistinct DEF CutoverInv, WriterInv, WritersLock, UnderLock
    <3>3. op.problems = {} => Quiet'
      BY <1>4, <3>1, <3>2 DEF ConfirmDisabled, CutoverInv, OperatorInv, AbortAdvances, TimerRuns, Quiet
    <3>4. Quiet => Quiet'
      BY <1>4, <3>1 DEF ConfirmDisabled, Quiet
    <3> QED
      BY <1>4, <3>1, <3>3, <3>4 DEF ConfirmDisabled, CutoverInv, OperatorInv, OperatorTypes, Operators,
         AbortAdvances, TimerRuns
  <2> QED
    BY <2>1, <2>2, <2>3, <2>4, <2>5 DEF CutoverInv, OperatorInv
<1>5. CASE Conclude
  <2>1. WriterInv' /\ LedgerKept
    BY <1>5, WriterSame DEF CutoverInv, WriterInv, WriterTypes, Conclude, writerVars, Concluded
  <2>2. OperatorTypes' /\ OperatorsLock'
    BY <1>5 DEF CutoverInv, OperatorInv, OperatorTypes, OperatorsLock, Operators, Steps,
       Applying, Journals, Phases, Conclude, writerVars, Concluded
  <2>3. JournalTellsStep' /\ JournalPrecedesMutation'
    BY <1>5 DEF CutoverInv, OperatorInv, OperatorTypes, Operators, JournalTellsStep,
       JournalPrecedesMutation, Journals, SchedulesAre, Conclude, writerVars, Concluded
  <2>4. QualifiedByStep'
    BY <1>5, ListsAre DEF CutoverInv, OperatorInv, OperatorTypes, Operators, JournalTellsStep,
       QualifiedByStep, Journals, Earned, TimerRuns, SchedulesAre, Conclude, writerVars,
       Concluded
  <2>5. AbortAdvances'
    BY <1>5, ListsAre DEF CutoverInv, OperatorInv, OperatorTypes, Operators, JournalTellsStep,
       AbortAdvances, Journals, TimerRuns, Quiet, SchedulesAre, Conclude, writerVars, Concluded
  <2> QED
    BY <2>1, <2>2, <2>3, <2>4, <2>5 DEF CutoverInv, OperatorInv
<1>6. CASE AbortLockTimeout
  <2>1. WriterInv' /\ LedgerKept
    BY <1>6, WriterSame DEF CutoverInv, WriterInv, WriterTypes, AbortLockTimeout, writerVars,
       Problem
  <2>2. OperatorTypes' /\ OperatorsLock'
    BY <1>6 DEF CutoverInv, OperatorInv, OperatorTypes, OperatorsLock, Operators, Steps,
       Applying, Journals, Phases, AbortLockTimeout, writerVars, Problem
  <2>3. JournalTellsStep' /\ JournalPrecedesMutation'
    BY <1>6 DEF CutoverInv, OperatorInv, OperatorTypes, Operators, JournalTellsStep,
       JournalPrecedesMutation, Journals, SchedulesAre, AbortLockTimeout, writerVars, Problem
  <2>4. QualifiedByStep'
    BY <1>6, ListsAre DEF CutoverInv, OperatorInv, OperatorTypes, Operators, JournalTellsStep,
       QualifiedByStep, Journals, Earned, TimerRuns, SchedulesAre, AbortLockTimeout,
       writerVars, Problem
  <2>5. AbortAdvances'
    BY <1>6, ListsAre DEF CutoverInv, OperatorInv, OperatorTypes, Operators, JournalTellsStep,
       AbortAdvances, Journals, TimerRuns, Quiet, SchedulesAre, AbortLockTimeout, writerVars,
       Problem
  <2> QED
    BY <2>1, <2>2, <2>3, <2>4, <2>5 DEF CutoverInv, OperatorInv
<1> QED
  BY <1>1, <1>2, <1>3, <1>4, <1>5, <1>6

\* Failures of a step and the death of the operator.
LEMMA FaultSteps ==
  ASSUME CutoverInv,
         ApplyFails \/ ApplyRefused \/ PreflightFails \/ CleanupFails \/ OperatorDies
  PROVE  CutoverInv' /\ LedgerKept
<1> USE DEF writerVars, Now, Goto, Reported, Release, NoOperator
<1>1. CASE ApplyFails
  <2>1. WriterInv' /\ LedgerKept
    BY <1>1, WriterSame DEF CutoverInv, WriterInv, WriterTypes, ApplyFails, writerVars,
       Applying
  <2>2. OperatorTypes' /\ OperatorsLock'
    BY <1>1 DEF CutoverInv, OperatorInv, OperatorTypes, OperatorsLock, Operators, Steps,
       Applying, Journals, Phases, ApplyFails, writerVars, Applying
  <2>3. JournalTellsStep' /\ JournalPrecedesMutation'
    BY <1>1 DEF CutoverInv, OperatorInv, OperatorTypes, Operators, JournalTellsStep,
       JournalPrecedesMutation, Journals, SchedulesAre, ApplyFails, writerVars, Applying
  <2>4. QualifiedByStep'
    BY <1>1, ListsAre DEF CutoverInv, OperatorInv, OperatorTypes, Operators, JournalTellsStep,
       QualifiedByStep, Journals, Earned, TimerRuns, SchedulesAre, ApplyFails, writerVars,
       Applying
  <2>5. AbortAdvances'
    BY <1>1, ListsAre DEF CutoverInv, OperatorInv, OperatorTypes, Operators, JournalTellsStep,
       AbortAdvances, Journals, TimerRuns, Quiet, SchedulesAre, ApplyFails, writerVars,
       Applying
  <2> QED
    BY <2>1, <2>2, <2>3, <2>4, <2>5 DEF CutoverInv, OperatorInv
<1>2. CASE ApplyRefused
  <2>1. WriterInv' /\ LedgerKept
    BY <1>2, WriterSame DEF CutoverInv, WriterInv, WriterTypes, ApplyRefused, writerVars,
       Refused
  <2>2. OperatorTypes' /\ OperatorsLock'
    BY <1>2 DEF CutoverInv, OperatorInv, OperatorTypes, OperatorsLock, Operators, Steps,
       Applying, Journals, Phases, ApplyRefused, writerVars, Refused
  <2>3. JournalTellsStep' /\ JournalPrecedesMutation'
    BY <1>2 DEF CutoverInv, OperatorInv, OperatorTypes, Operators, JournalTellsStep,
       JournalPrecedesMutation, Journals, SchedulesAre, ApplyRefused, writerVars, Refused
  <2>4. QualifiedByStep'
    BY <1>2, ListsAre DEF CutoverInv, OperatorInv, OperatorTypes, Operators, JournalTellsStep,
       QualifiedByStep, Journals, Earned, TimerRuns, SchedulesAre, ApplyRefused, writerVars,
       Refused
  <2>5. AbortAdvances'
    BY <1>2, ListsAre DEF CutoverInv, OperatorInv, OperatorTypes, Operators, JournalTellsStep,
       AbortAdvances, Journals, TimerRuns, Quiet, SchedulesAre, ApplyRefused, writerVars,
       Refused
  <2> QED
    BY <2>1, <2>2, <2>3, <2>4, <2>5 DEF CutoverInv, OperatorInv
<1>3. CASE PreflightFails
  <2>1. WriterInv' /\ LedgerKept
    BY <1>3, WriterSame DEF CutoverInv, WriterInv, WriterTypes, PreflightFails, writerVars
  <2>2. OperatorTypes' /\ OperatorsLock'
    BY <1>3 DEF CutoverInv, OperatorInv, OperatorTypes, OperatorsLock, Operators, Steps,
       Applying, Journals, Phases, PreflightFails, writerVars
  <2>3. JournalTellsStep' /\ JournalPrecedesMutation'
    BY <1>3 DEF CutoverInv, OperatorInv, OperatorTypes, Operators, JournalTellsStep,
       JournalPrecedesMutation, Journals, SchedulesAre, PreflightFails, writerVars
  <2>4. QualifiedByStep'
    BY <1>3, ListsAre DEF CutoverInv, OperatorInv, OperatorTypes, Operators, JournalTellsStep,
       QualifiedByStep, Journals, Earned, TimerRuns, SchedulesAre, PreflightFails, writerVars
  <2>5. AbortAdvances'
    BY <1>3, ListsAre DEF CutoverInv, OperatorInv, OperatorTypes, Operators, JournalTellsStep,
       AbortAdvances, Journals, TimerRuns, Quiet, SchedulesAre, PreflightFails, writerVars
  <2> QED
    BY <2>1, <2>2, <2>3, <2>4, <2>5 DEF CutoverInv, OperatorInv
<1>4. CASE CleanupFails
  <2>a. /\ op' \in Operators
        /\ op'.problems # {} \/ op'.at = "idle"
        /\ \/ op'.at = "stop timers" /\ op'.i \in 1..Len(Schedules)
           \/ op'.at = "stop units" /\ op'.i \in 1..Len(WriterUnits)
           \/ op'.at \in {"lock", "conclude", "idle"}
        /\ sync' \in {sync, IF sync = "operator" THEN Nobody ELSE sync}
        /\ report' \in {report, "FAIL"} /\ op.at # "idle"
    <3>0. /\ op \in Operators /\ Len(Schedules) \in Nat \ {0} /\ Len(WriterUnits) \in Nat \ {0}
          /\ op.at = "stop timers" => op.i \in 1..Len(Schedules)
          /\ op.at = "stop units" => op.i \in 1..Len(WriterUnits)
      BY LengthsAre DEF CutoverInv, OperatorInv, OperatorTypes, AbortAdvances
    <3>s. /\ "stop timers" \in Steps /\ "stop units" \in Steps /\ "conclude" \in Steps
          /\ "idle" \in Steps
      BY DEF Steps
    <3>1. CASE op.at = "aborting"
      <4> DEFINE p == Problem({"journal"})
      <4>1. p \in Operators /\ p.problems # {}
        BY <3>0, HasProblem DEF Problem
      <4>2. op' = [p EXCEPT !.at = "stop timers", !.i = 1] /\ UNCHANGED <<sync, report>>
        BY <1>4, <3>1 DEF CleanupFails
      <4> HIDE DEF p
      <4> QED
        <5>1. op' \in Operators /\ op'.at = "stop timers" /\ op'.i = 1 /\ op'.problems # {}
          BY <3>s, <4>1, <4>2 DEF Operators
        <5>2. 1 \in 1..Len(Schedules)
          BY LengthsAre
        <5> QED
          BY <3>1, <4>2, <5>1, <5>2
    <3>2. CASE op.at = "stop timers"
      <4> DEFINE p == AfterTimer
      <4>1. op' = [p EXCEPT !.problems = @ \cup {"stop"}] /\ UNCHANGED <<sync, report>>
        BY <1>4, <3>2 DEF CleanupFails
      <4>2. /\ p \in Operators
            /\ \/ p.at = "stop timers" /\ p.i \in 1..Len(Schedules)
               \/ p.at = "stop units" /\ p.i = 1
        BY <3>0, <3>2, AfterTimerIs
      <4>3. 1 \in 1..Len(WriterUnits)
        BY LengthsAre
      <4> HIDE DEF p
      <4> QED
        BY <3>2, <4>1, <4>2, <4>3, HasProblem
    <3>3. CASE op.at = "stop units"
      <4> DEFINE p == AfterUnit
      <4>1. /\ op' = [p EXCEPT !.problems = @ \cup {"stop"}] /\ UNCHANGED <<sync, report>>
            /\ p \in Operators
            /\ p.at = "lock" \/ (p.at = "stop units" /\ p.i \in 1..Len(WriterUnits))
        BY <1>4, <3>0, <3>3, AfterUnitIs DEF CleanupFails
      <4> HIDE DEF p
      <4> QED
        BY <3>3, <4>1, HasProblem
    <3>4. CASE op.at \in {"lock", "disable", "confirm"}
      <4> DEFINE p == Problem({"identity"})
      <4>1. p \in Operators /\ p.problems # {}
        BY <3>0, HasProblem DEF Problem
      <4>2. op' = [p EXCEPT !.at = "conclude"] /\ report' = report /\ Release
        BY <1>4, <3>4 DEF CleanupFails
      <4> HIDE DEF p
      <4> QED
        BY <3>s, <3>4, <4>1, <4>2 DEF Operators
    <3>5. CASE op.at = "conclude"
      <4>1. op' = NoOperator /\ report' = "FAIL" /\ sync' = sync
        BY <1>4, <3>5 DEF CleanupFails
      <4>2. op' \in Operators /\ op'.at = "idle"
        BY <3>s, <4>1 DEF Operators
      <4> QED
        BY <3>5, <4>1, <4>2
    <3> QED
      BY <1>4, <3>1, <3>2, <3>3, <3>4, <3>5 DEF CleanupFails
  <2>b. UNCHANGED <<enabled, ledger, writer, timers, installed>>
    BY <1>4 DEF CleanupFails
  <2>c. /\ journal' \in Journals /\ journal'.qualified = journal.qualified
        /\ \/ journal'.phase = journal.phase
           \/ journal'.phase \in {"ABORTING", "ABORT_INCOMPLETE"}
           \/ journal'.phase = "ABORTED" /\ Quiet
    <3>1. \/ journal' = journal
          \/ journal' = [journal EXCEPT !.phase = "ABORTING"]
          \/ op.at = "conclude" /\ journal' = [journal EXCEPT !.phase =
                 IF op.problems = {} THEN "ABORTED" ELSE "ABORT_INCOMPLETE"]
      BY <1>4 DEF CleanupFails, Concluded
    <3> QED
      BY <3>1 DEF CutoverInv, OperatorInv, OperatorTypes, Journals, Phases, AbortAdvances
  <2>d. Quiet => Quiet'
    BY <2>b DEF Quiet
  <2>1. WriterInv' /\ LedgerKept
    BY <2>a, <2>b, WriterSame DEF CutoverInv, WriterInv, WriterTypes
  <2>2. OperatorTypes'
    <3>1. report' \in {"none", "PASS", "PAUSED", "FAIL"}
      BY <2>a DEF CutoverInv, OperatorInv, OperatorTypes
    <3>2. timers' = timers /\ installed' = installed /\ OperatorTypes
      BY <2>b DEF CutoverInv, OperatorInv
    <3> QED
      BY <2>a, <2>c, <3>1, <3>2 DEF OperatorTypes
  <2>6. OperatorsLock'
    BY <2>a DEF OperatorsLock
  <2>3. JournalTellsStep' /\ JournalPrecedesMutation'
    BY <2>a, <2>b, <2>c DEF CutoverInv, OperatorInv, JournalTellsStep, JournalPrecedesMutation,
       SchedulesAre
  <2>4. QualifiedByStep'
    BY <2>a, <2>b, <2>c DEF CutoverInv, OperatorInv, QualifiedByStep, Earned, TimerRuns
  <2>5. AbortAdvances'
    BY <2>a, <2>b, <2>c, <2>d DEF CutoverInv, OperatorInv, AbortAdvances
  <2> QED
    BY <2>1, <2>2, <2>3, <2>4, <2>5, <2>6 DEF CutoverInv, OperatorInv
<1>5. CASE OperatorDies
  <2>1. WriterInv' /\ LedgerKept
    BY <1>5, WriterSame DEF CutoverInv, WriterInv, WriterTypes, OperatorDies, writerVars
  <2>2. OperatorTypes' /\ OperatorsLock'
    BY <1>5 DEF CutoverInv, OperatorInv, OperatorTypes, OperatorsLock, Operators, Steps,
       Applying, Journals, Phases, OperatorDies, writerVars
  <2>3. JournalTellsStep' /\ JournalPrecedesMutation'
    BY <1>5 DEF CutoverInv, OperatorInv, OperatorTypes, Operators, JournalTellsStep,
       JournalPrecedesMutation, Journals, SchedulesAre, OperatorDies, writerVars
  <2>4. QualifiedByStep'
    BY <1>5, ListsAre DEF CutoverInv, OperatorInv, OperatorTypes, Operators, JournalTellsStep,
       QualifiedByStep, Journals, Earned, TimerRuns, SchedulesAre, OperatorDies, writerVars
  <2>5. AbortAdvances'
    BY <1>5, ListsAre DEF CutoverInv, OperatorInv, OperatorTypes, Operators, JournalTellsStep,
       AbortAdvances, Journals, TimerRuns, Quiet, SchedulesAre, OperatorDies, writerVars
  <2> QED
    BY <2>1, <2>2, <2>3, <2>4, <2>5 DEF CutoverInv, OperatorInv
<1> QED
  BY <1>1, <1>2, <1>3, <1>4, <1>5

\* Both of them change enabled under the formal lock.
LEMMA ScopeSteps ==
  ASSUME CutoverInv, Enable \/ Disable
  PROVE  CutoverInv' /\ LedgerKept /\ sync = "operator"
<1>0. /\ op \in Operators /\ enabled' \subseteq DOMAIN ProviderOfScope
      /\ UNCHANGED <<ledger, writer, installed, timers, report, journal>>
  BY DEF CutoverInv, OperatorInv, OperatorTypes, Enable, Disable, WriterInv, WriterTypes
<1>1. sync = "operator"
  BY DEF CutoverInv, OperatorInv, OperatorsLock, Enable, Disable, Now
<1>2. CASE Enable
  <2>1. op.at = "enable" /\ op' = [op EXCEPT !.at = "baseline"] /\ SchedulesAre("disabled") /\ sync' = sync
    BY <1>2 DEF Enable, Now, Goto
  <2>2. op' \in Operators /\ op'.at = "baseline"
    BY <1>0, <2>1 DEF Operators, Steps, Applying
  <2>3. WriterInv' /\ LedgerKept
    BY <1>0, <2>1, WriterSame DEF CutoverInv
  <2>4. OperatorTypes' /\ OperatorsLock'
    BY <1>0, <1>1, <2>1, <2>2 DEF CutoverInv, OperatorInv, OperatorTypes, OperatorsLock
  <2>5. JournalTellsStep' /\ JournalPrecedesMutation'
    BY <1>0, <2>1, <2>2 DEF CutoverInv, OperatorInv, JournalTellsStep, JournalPrecedesMutation
  <2>6. QualifiedByStep' /\ AbortAdvances'
    BY <1>0, <2>1, <2>2 DEF CutoverInv, OperatorInv, JournalTellsStep, QualifiedByStep,
       AbortAdvances, Earned, TimerRuns
  <2> QED
    BY <1>1, <2>3, <2>4, <2>5, <2>6 DEF CutoverInv, OperatorInv
<1>3. CASE Disable
  <2>1. /\ op' \in Operators /\ op'.at \in {"confirm", "conclude"}
        /\ op'.at = "confirm" => op'.problems = op.problems /\ enabled' = {} /\ sync' = sync
        /\ op'.at = "conclude" => op'.problems # {} /\ enabled' = enabled
        /\ sync' \in {"operator", Nobody} /\ op.at = "disable"
    <3>1. CASE op.original
      <4>1. op' = [op EXCEPT !.at = "confirm"] /\ enabled' = {} /\ sync' = sync /\ op.at = "disable"
        BY <1>3, <3>1 DEF Disable, Now, Goto
      <4>2. op' \in Operators /\ op'.at = "confirm" /\ op'.problems = op.problems
        BY <1>0, <4>1 DEF Operators, Steps, Applying
      <4> QED
        BY <1>1, <4>1, <4>2
    <3>2. CASE ~op.original
      <4> DEFINE p == Problem({"identity"})
      <4>1. p \in Operators /\ p.problems # {}
        BY <1>0, HasProblem DEF Problem
      <4>2. /\ op' = [p EXCEPT !.at = "conclude"] /\ enabled' = enabled /\ op.at = "disable"
            /\ sync' \in {"operator", Nobody}
        BY <1>1, <1>3, <3>2 DEF Disable, Now, Release
      <4> HIDE DEF p
      <4>3. op' \in Operators /\ op'.at = "conclude" /\ op'.problems # {}
        BY <4>1, <4>2 DEF Operators, Steps, Applying
      <4> QED
        BY <4>2, <4>3
    <3> QED
      BY <3>1, <3>2
  <2>2. WriterInv' /\ LedgerKept
    BY <1>0, <1>1, <2>1, WriterSame DEF CutoverInv
  <2>3. OperatorTypes' /\ OperatorsLock'
    BY <1>0, <1>1, <2>1 DEF CutoverInv, OperatorInv, OperatorTypes, OperatorsLock
  <2>4. JournalTellsStep' /\ JournalPrecedesMutation'
    BY <1>0, <2>1 DEF CutoverInv, OperatorInv, JournalTellsStep, JournalPrecedesMutation,
       SchedulesAre
  <2>5. QualifiedByStep'
    BY <1>0, <2>1 DEF CutoverInv, OperatorInv, QualifiedByStep, Earned, TimerRuns
  <2>6. Quiet => Quiet'
    BY <1>0, <2>1 DEF Quiet
  <2>7. AbortAdvances'
    BY <1>0, <2>1, <2>6 DEF CutoverInv, OperatorInv, AbortAdvances, TimerRuns
  <2> QED
    BY <1>1, <2>2, <2>3, <2>4, <2>5, <2>7 DEF CutoverInv, OperatorInv
<1> QED
  BY <1>2, <1>3

\* The operator starts and stops units.
LEMMA UnitSteps ==
  ASSUME CutoverInv, StartQualified \/ StopUnit
  PROVE  CutoverInv' /\ LedgerKept
<1>0. /\ op \in Operators /\ OperatorTypes
      /\ UNCHANGED <<enabled, ledger, journal, installed, timers, report>>
  BY DEF CutoverInv, OperatorInv, OperatorTypes, StartQualified, StopUnit
<1>1. /\ WriterInv' /\ LedgerKept /\ NoneEnters /\ op' \in Operators /\ op'.problems = op.problems
      /\ \/ op.at = "qualify" /\ op'.at = "wait" /\ op'.i = op.i
         \/ /\ op.at = "stop units"
            /\ op'.at = "lock" \/ (op'.at = "stop units" /\ op'.i \in 1..Len(WriterUnits))
  <2>1. CASE StartQualified
    <3> DEFINE w == Qualification[op.i]
    <3>1. op.at = "qualify" /\ op.i \in 1..Len(Qualification)
      BY <2>1 DEF CutoverInv, OperatorInv, QualifiedByStep, StartQualified, Now
    <3>2. w \in Units
      BY <3>1, ListsAre
    <3>3. /\ writer' = (IF Busy(w) THEN writer ELSE [writer EXCEPT ![w] = Activated])
          /\ UNCHANGED <<sync, enabled, ledger>> /\ op' = [op EXCEPT !.at = "wait"]
      BY <2>1 DEF StartQualified, Goto
    <3>4. op' \in Operators /\ op'.at = "wait" /\ op'.i = op.i /\ op'.problems = op.problems
      BY <1>0, <3>3 DEF Operators, Steps, Applying
    <3>5. CASE Busy(w)
      <4>1. WriterInv' /\ LedgerKept
        BY <3>3, <3>5, WriterSame DEF CutoverInv, WriterInv, WriterTypes
      <4> QED
        BY <3>1, <3>3, <3>4, <3>5, <4>1 DEF NoneEnters
    <3>6. CASE ~Busy(w)
      <4>1. WriterInv' /\ LedgerKept /\ NoneEnters
        BY <3>2, <3>3, <3>6, ActivateStep DEF CutoverInv, NoneEnters
      <4> QED
        BY <3>1, <3>4, <4>1
    <3> QED
      BY <3>5, <3>6
  <2>2. CASE StopUnit
    <3> DEFINE w == WriterUnits[op.i]
    <3>1. op.at = "stop units" /\ op.i \in 1..Len(WriterUnits)
      BY <2>2 DEF CutoverInv, OperatorInv, AbortAdvances, StopUnit, Now
    <3>2. w \in Units
      BY <3>1, ListsAre
    <3>3. /\ op' \in Operators /\ op'.problems = op.problems
          /\ op'.at = "lock" \/ (op'.at = "stop units" /\ op'.i \in 1..Len(WriterUnits))
      BY <1>0, <2>2, <3>1, AfterUnitIs DEF StopUnit
    <3>4. CASE Busy(w)
      <4>1. Ends(w, "failed") /\ UNCHANGED <<enabled, ledger>>
        BY <2>2, <3>4 DEF StopUnit
      <4>2. WriterInv' /\ LedgerKept /\ NoneEnters
        BY <3>2, <4>1, EndsStep DEF CutoverInv, NoneEnters
      <4> QED
        BY <3>1, <3>3, <4>2
    <3>5. CASE ~Busy(w)
      <4>1. UNCHANGED <<sync, enabled, ledger, writer>>
        BY <2>2, <3>5 DEF StopUnit
      <4>2. WriterInv' /\ LedgerKept
        BY <4>1, WriterSame DEF CutoverInv, WriterInv, WriterTypes
      <4> QED
        BY <3>1, <3>3, <4>1, <4>2 DEF NoneEnters
    <3> QED
      BY <3>4, <3>5
  <2> QED
    BY <2>1, <2>2
<1>2. OperatorTypes' /\ OperatorsLock' /\ JournalTellsStep' /\ JournalPrecedesMutation'
  BY <1>0, <1>1 DEF CutoverInv, OperatorInv, OperatorTypes, OperatorsLock, JournalTellsStep,
     JournalPrecedesMutation, SchedulesAre
<1>3. QualifiedByStep'
  BY <1>0, <1>1 DEF CutoverInv, OperatorInv, QualifiedByStep, Earned, TimerRuns
<1>4. Quiet => Quiet'
  BY <1>0, <1>1 DEF Quiet, NoneEnters
<1>5. AbortAdvances'
  BY <1>0, <1>1, <1>4 DEF CutoverInv, OperatorInv, AbortAdvances, TimerRuns
<1> QED
  BY <1>1, <1>2, <1>3, <1>5 DEF CutoverInv, OperatorInv

\* What runs without the operator: a unit works, and one is started.
LEMMA ProgressOfOthers ==
  ASSUME CutoverInv,
         \/ \E w \in Units : WriterStep(w) /\ UNCHANGED <<opVars, starts>>
         \/ StartByHand \/ StartByTimer
  PROVE  CutoverInv' /\ LedgerKept /\ enabled' = enabled
<1>1. CASE \E w \in Units : WriterStep(w) /\ UNCHANGED <<opVars, starts>>
  <2>1. /\ WriterInv' /\ LedgerKept /\ enabled' = enabled /\ UNCHANGED opVars
        /\ sync = "operator" => sync' = "operator"
        /\ enabled = {} => NoneEnters
    BY <1>1, WriterSteps DEF CutoverInv, NoneEnters
  <2> QED
    BY <2>1, OthersStep DEF CutoverInv
<1>2. CASE StartByHand \/ StartByTimer
  <2>1. PICK w \in Units : StartUnit(w)
    BY <1>2, ListsAre DEF StartByHand, StartByTimer
  <2>2. WriterInv' /\ LedgerKept /\ NoneEnters
    BY <2>1, ActivateStep DEF StartUnit, CutoverInv, NoneEnters
  <2>3. UNCHANGED <<sync, enabled, opVars>>
    BY <2>1 DEF StartUnit
  <2> QED
    BY <2>2, <2>3, OthersStep DEF CutoverInv
<1> QED
  BY <1>1, <1>2

LEMMA AbortStarts ==
  ASSUME CutoverInv, NEW original \in BOOLEAN, Abort(original)
  PROVE  CutoverInv' /\ LedgerKept /\ enabled' = enabled
<1>1. /\ op' = [NoOperator EXCEPT !.at = "aborting", !.original = original] /\ report' = "none"
      /\ UNCHANGED <<sync, enabled, ledger, writer, journal, installed, timers>>
  BY DEF Abort, writerVars
<1>2. op' \in Operators /\ op'.at = "aborting"
  BY <1>1 DEF NoOperator, Operators, Steps
<1>3. WriterInv' /\ LedgerKept
  BY <1>1, WriterSame DEF CutoverInv, WriterInv, WriterTypes
<1>4. OperatorTypes' /\ OperatorsLock' /\ JournalTellsStep' /\ JournalPrecedesMutation'
  BY <1>1, <1>2 DEF CutoverInv, OperatorInv, OperatorTypes, OperatorsLock, JournalTellsStep,
     JournalPrecedesMutation, SchedulesAre
<1>5. QualifiedByStep' /\ AbortAdvances'
  BY <1>1, <1>2 DEF CutoverInv, OperatorInv, QualifiedByStep, AbortAdvances, Earned, TimerRuns,
     Quiet
<1> QED
  BY <1>1, <1>3, <1>4, <1>5 DEF CutoverInv, OperatorInv

LEMMA CutoverStarts == Init => CutoverInv
<1> SUFFICES ASSUME Init PROVE CutoverInv
  OBVIOUS
<1>1. \A w \in Units : writer[w] \in Processes /\ writer[w].at = "inactive" /\ writer[w].step = 0
                       /\ writer[w].rows = <<>>
  BY InactiveIs DEF Init, WriterInit
<1>2. WriterTypes
  <2>1. writer = [w \in Units |-> writer[w]]
    BY DEF Init, WriterInit
  <2> QED
    BY <1>1, <2>1 DEF WriterTypes, Init, WriterInit
<1>3. WritersLock
  BY <1>1, NamesAreDistinct DEF WritersLock, Init, WriterInit, UnderLock
<1>4. \A w \in Units : HasRows(writer[w], Chain[w], ledger)
  BY <1>1 DEF HasRows, UnderLock
<1>5. op \in Operators /\ op.at = "idle"
  BY DEF Init, NoOperator, Operators, Steps
<1>6. OperatorTypes /\ OperatorsLock /\ JournalTellsStep /\ JournalPrecedesMutation
  BY <1>5, LengthsAre DEF Init, WriterInit, OperatorTypes, OperatorsLock, JournalTellsStep,
     JournalPrecedesMutation, SchedulesAre, Journals, Phases
<1>7. QualifiedByStep /\ AbortAdvances
  BY <1>5 DEF Init, QualifiedByStep, AbortAdvances, Earned, TimerRuns
<1> QED
  BY <1>2, <1>3, <1>4, <1>6, <1>7 DEF CutoverInv, WriterInv, OperatorInv

\* Only Enable and Disable change which Scopes are enabled.
LEMMA CutoverMoves ==
  ASSUME CutoverInv, [Next]_vars
  PROVE  CutoverInv' /\ (enabled' # enabled => sync = "operator")
<1>1. CASE \/ Apply \/ Preflight \/ MakeStateDirectory \/ SavePrepared \/ Install
           \/ CompareBaseline \/ Qualified \/ Recheck \/ FinalCheck \/ EnableSchedule
           \/ SavePass \/ Return \/ Verify
  <2>1. enabled' = enabled
    BY <1>1 DEF Apply, Preflight, MakeStateDirectory, SavePrepared, Install, CompareBaseline,
       Qualified, Recheck, FinalCheck, EnableSchedule, SavePass, Return, Verify, writerVars
  <2> QED
    BY <1>1, <2>1, ApplySteps
<1>2. CASE SaveAborting \/ StopTimer \/ LockForAbort \/ ConfirmDisabled \/ Conclude
           \/ AbortLockTimeout
  <2>1. enabled' = enabled
    BY <1>2 DEF SaveAborting, StopTimer, LockForAbort, ConfirmDisabled, Conclude,
       AbortLockTimeout, writerVars
  <2> QED
    BY <1>2, <2>1, AbortSteps
<1>3. CASE ApplyFails \/ ApplyRefused \/ PreflightFails \/ CleanupFails \/ OperatorDies
  <2>1. enabled' = enabled
    BY <1>3 DEF ApplyFails, ApplyRefused, PreflightFails, CleanupFails, OperatorDies, writerVars
  <2> QED
    BY <1>3, <2>1, FaultSteps
<1>4. CASE Enable \/ Disable
  BY <1>4, ScopeSteps
<1>5. CASE StartQualified \/ StopUnit
  <2>1. enabled' = enabled
    BY <1>5 DEF StartQualified, StopUnit
  <2> QED
    BY <1>5, <2>1, UnitSteps
<1>6. CASE \/ \E w \in Units : WriterStep(w) /\ UNCHANGED <<opVars, starts>>
           \/ StartByHand \/ StartByTimer
  BY <1>6, ProgressOfOthers
<1>7. CASE \E original \in BOOLEAN : Abort(original)
  BY <1>7, AbortStarts
<1>8. CASE UNCHANGED vars
  <2>1. UNCHANGED <<sync, enabled, ledger, writer, opVars>>
    BY <1>8 DEF vars, writerVars
  <2>2. WriterInv' /\ LedgerKept
    BY <2>1, WriterSame DEF CutoverInv, WriterInv, WriterTypes
  <2>3. NoneEnters
    BY <2>1 DEF NoneEnters
  <2> QED
    BY <2>1, <2>2, <2>3, OthersStep DEF CutoverInv
<1> QED
  BY <1>1, <1>2, <1>3, <1>4, <1>5, <1>6, <1>7, <1>8 DEF Next, OperatorStep, Fault

LEMMA CutoverInvImplies == CutoverInv => CutoverIsSound
<1> SUFFICES ASSUME CutoverInv PROVE CutoverIsSound
  OBVIOUS
<1>1. ASSUME NEW w \in Units
      PROVE  /\ writer[w] \in Processes /\ HasRows(writer[w], Chain[w], ledger)
             /\ Len(Chain[w]) \in Nat
             /\ writer[w].at \in {"targets", "execute", "finish"} <=> sync = w
  BY ChainIs DEF CutoverInv, WriterInv, WriterTypes, WritersLock, UnderLock
<1>2. ASSUME NEW w \in Units
      PROVE  /\ writer[w].step \in 0..Len(Chain[w]) /\ Len(writer[w].rows) <= writer[w].step
             /\ writer[w].at \in Stages /\ writer[w].left \subseteq DOMAIN ProviderOfScope
  <2>1. /\ writer[w].at \in Stages /\ writer[w].left \subseteq DOMAIN ProviderOfScope
        /\ writer[w].step \in Nat
    BY <1>1 DEF Processes
  <2>2. /\ writer[w].at = "inactive" => writer[w].step = 0 /\ Len(writer[w].rows) = 0
        /\ writer[w].at # "inactive" => writer[w].step \in 1..Len(Chain[w])
        /\ writer[w].at = "waiting" => Len(writer[w].rows) = writer[w].step - 1
        /\ writer[w].at \in UnderLock => Len(writer[w].rows) = writer[w].step
    BY <1>1 DEF HasRows
  <2>3. writer[w].at \in {"inactive", "waiting"} \cup UnderLock
    BY <2>1 DEF Stages, UnderLock
  <2> QED
    BY <1>1, <2>1, <2>2, <2>3
<1>3. TypeOK
  <2>1. op.problems \subseteq {"journal", "stop", "identity"}
    BY DEF CutoverInv, OperatorInv, OperatorTypes, Operators
  <2> QED
    BY <1>1, <1>2, <2>1 DEF TypeOK, CutoverInv, WriterInv, WriterTypes, OperatorInv, OperatorTypes,
       Journals
<1>4. SchedulesAreQualified
  <2>1. DOMAIN Qualification = 1..Len(Qualification)
    BY ListsAre
  <2> QED
    BY <2>1 DEF SchedulesAreQualified, CutoverInv, OperatorInv, QualifiedByStep, Earned, TimerRuns
<1>5. ChainStopsOnFailure
  <2> SUFFICES ASSUME NEW w \in Units, NEW k \in DOMAIN writer[w].rows, k < writer[w].step
               PROVE  ledger[writer[w].rows[k]].status = "completed"
    BY DEF ChainStopsOnFailure
  <2>1. k \in 1..Len(writer[w].rows)
    BY <1>1 DEF Processes
  <2> QED
    BY <1>1, <2>1 DEF HasRows
<1>6. AbortedMeansQuiet
  BY DEF AbortedMeansQuiet, CutoverInv, OperatorInv, AbortAdvances
<1> QED
  BY <1>3, <1>4, <1>5, <1>6 DEF CutoverIsSound, CutoverInv, OperatorInv

LEMMA CutoverAlways == Spec => []CutoverInv
BY CutoverStarts, CutoverMoves, PTL DEF Spec

\* A cutover has earned what it has reached: the journal precedes every change,
\* qualification every timer and success the next pipeline of a chain, and an abort
\* that is over leaves everything quiet (Cutover.apply and Cutover.abort).
THEOREM CutoverEarnsItsSteps == Spec => []CutoverIsSound
BY CutoverAlways, CutoverInvImplies, PTL

\* The Scopes of the Personal DB are enabled and disabled by an operator who holds
\* the formal lock, so never under a unit that is visiting them.
THEOREM ScopesFlipUnderTheLock == Spec => ScopesFlipUnderLock
<1>1. CutoverInv /\ [Next]_vars =>
        [enabled' # enabled =>
           \A w \in Units : writer[w].at \notin {"targets", "execute", "finish"}]_vars
  <2> SUFFICES ASSUME CutoverInv, [Next]_vars, enabled' # enabled, NEW w \in Units
               PROVE  writer[w].at \notin {"targets", "execute", "finish"}
    OBVIOUS
  <2>1. sync = "operator"
    BY CutoverMoves
  <2> QED
    BY <2>1, NamesAreDistinct DEF CutoverInv, WriterInv, WritersLock, UnderLock
<1> QED
  BY <1>1, CutoverAlways, PTL DEF Spec, ScopesFlipUnderLock

-----------------------------------------------------------------------------
(* People. A scan meets the identities of a listing in the order of their     *)
(* rank; the Persons of both tables are numbered by one counter.              *)

\* What a Provider lists on the pages before the n-th.
ReadBefore(listing, n) ==
    {e \in listing : Cardinality({f \in listing : f <= e}) <= (n - 1) * PageSize}

PeopleScans ==
    [at : {"idle", "scanning", "scanned"}, domain : Domains, page : Nat \ {0},
     total : Nat \cup {-1}, seen : SUBSET ExternalIds,
     always : SUBSET ExternalIds, met : Nat]

RelationScans ==
    [at : {"idle", "scanning", "read"}, domain : Domains, todo : SUBSET ExternalIds,
     page : Nat \ {0}, pairs : SUBSET (Photos \X ExternalIds),
     mapped : SUBSET Pairs, existing : SUBSET Pairs, quiet : BOOLEAN]

PersonTypes ==
    /\ PersonTypeOK
    /\ ps \in PeopleScans /\ rs \in RelationScans
    /\ IsFiniteSet(catalog) /\ IsFiniteSet(tags) /\ IsFiniteSet(ps.seen)

\* Writers of one domain, and under the formal lock one at a time.
OneDomainWrites ==
    /\ ps.at # "idle" => ps.domain = phase
    /\ rs.at # "idle" => rs.domain = phase
    /\ phase = "scope" => ps.at = "idle" \/ rs.at = "idle"

\* A Person has one number and one identity in each table; until the Scope is
\* enabled its rows are copies, and from then on the legacy table stands still.
PersonsAreNumbered ==
    /\ \A d \in Domains : \A e \in Known(people[d]) : people[d][e].person \in 1..allocated
    /\ \A d \in Domains : \A e, f \in Known(people[d]) :
         people[d][e].person = people[d][f].person => e = f
    /\ \A e \in Known(people["legacy"]) \cap Known(people["scope"]) :
         people["legacy"][e].person = people["scope"][e].person
    /\ IF phase = "scope" THEN Known(people["legacy"]) \subseteq Known(people["scope"])
       ELSE Known(people["scope"]) \subseteq Known(people["legacy"])

\* What is about to be written in the Scope has evidence as well.
EvidenceIsThere ==
    /\ RelationsHaveEvidence
    /\ rs.at = "read" /\ rs.domain = "scope" =>
         \A p \in rs.mapped : Evidenced(sources["scope"], people["scope"], p)

\* A scan has met whoever precedes its page, unless the listing changed under
\* it; then the total of its pages tells.
ScanIsInOrder ==
    /\ ps.at = "scanning" =>
         /\ ps.always \subseteq catalog
         /\ ps.total = -1 => ps.page = 1 /\ ps.seen = {}
         /\ ps.met = 0 => ps.total \in {-1, Cardinality(catalog)}
         /\ ps.met <= 1 /\ ps.total \in {-1, Cardinality(catalog)} =>
              ps.seen = ReadBefore(catalog, ps.page)
    /\ ps.at = "scanned" =>
         /\ ps.met = 0 => ps.seen = catalog
         /\ ps.met <= 1 => ps.always \subseteq ps.seen

\* The person whose photos are read.
Turn(todo) == CHOOSE f \in todo : \A g \in todo : f <= g

ActiveImage(d) ==
    {ResourceOf[a] : a \in ActivePhotos(d)} \X {people[d][e].person : e \in ActiveIds(people[d])}

\* The photos of the persons who had their turn were read.
PagesAreRead(d) ==
    /\ rs.pairs \subseteq tags
    /\ \A e \in ActiveIds(people[d]) \ rs.todo : PhotosOf(e) \X {e} \subseteq rs.pairs
    /\ \A e \in rs.todo :
         e = Turn(rs.todo) => ReadBefore(PhotosOf(e), rs.page) \X {e} \subseteq rs.pairs

\* What was read and mapped is what the tables still say.
MapsAreRead(d) ==
    /\ rs.existing = ActivePairs(relations[d])
    /\ rs.quiet => rs.mapped = RelationImage(d)
    /\ d = "scope" => rs.mapped \subseteq ActiveImage(d)

RelationsAreRead ==
    \A d \in Domains : rs.domain = d =>
        /\ rs.at = "scanning" /\ rs.quiet => PagesAreRead(d)
        /\ rs.at = "read" => MapsAreRead(d)

\* The inductive invariant of people and their photos.
PersonInv ==
    /\ PersonTypes
    /\ OneDomainWrites
    /\ PersonsAreNumbered
    /\ EvidenceIsThere
    /\ ScanIsInOrder
    /\ RelationsAreRead

LEMMA Multiples ==
    ASSUME NEW n \in Nat \ {0}
    PROVE  /\ (n - 1) * PageSize \in Nat /\ n * PageSize \in Nat
           /\ n * PageSize = (n - 1) * PageSize + PageSize
           /\ ((n + 1) - 1) * PageSize = n * PageSize
           /\ (1 - 1) * PageSize = 0
<1>1. PageSize \in Nat /\ n - 1 \in Nat /\ (n + 1) - 1 = n /\ 1 - 1 = 0
  BY PersonSyncAssumption
<1>2. \A a, b \in Nat : a * b \in Nat /\ (a + 1) * b = a * b + b
  OBVIOUS
<1>3. n = (n - 1) + 1
  OBVIOUS
<1> QED
  BY <1>1, <1>2, <1>3

\* A rank is a position of the listing.
LEMMA Ranks ==
    ASSUME NEW listing \in SUBSET Nat, IsFiniteSet(listing), NEW e \in listing
    PROVE  /\ Cardinality({f \in listing : f <= e}) \in Nat \ {0}
           /\ Cardinality({f \in listing : f <= e}) <= Cardinality(listing)
           /\ Cardinality(listing) \in Nat
<1> DEFINE S == {f \in listing : f <= e}
<1>1. S \subseteq listing /\ e \in S
  OBVIOUS
<1>2. IsFiniteSet(S) /\ Cardinality(S) <= Cardinality(listing)
  BY <1>1, FS_Subset
<1>3. Cardinality(S) \in Nat /\ Cardinality(listing) \in Nat
  BY <1>2, FS_CardinalityType
<1>4. Cardinality(S) # 0
  BY <1>1, <1>2, FS_EmptySet
<1> QED
  BY <1>2, <1>3, <1>4

\* A page continues what was read before it, and the last one completes it.
LEMMA PagesContinue ==
    ASSUME NEW listing \in SUBSET Nat, IsFiniteSet(listing), NEW n \in Nat \ {0}
    PROVE  /\ ReadBefore(listing, 1) = {}
           /\ ReadBefore(listing, n) \cup PageOf(listing, n) = ReadBefore(listing, n + 1)
           /\ ~ HasNextPage(listing, n) => ReadBefore(listing, n + 1) = listing
           /\ PageOf(listing, n) \subseteq listing
<1> DEFINE rank(e) == Cardinality({f \in listing : f <= e})
<1>1. \A e \in listing : /\ rank(e) \in Nat \ {0} /\ rank(e) <= Cardinality(listing)
                         /\ Cardinality(listing) \in Nat
  BY Ranks
<1>2. /\ \A m : ReadBefore(listing, m) = {e \in listing : rank(e) <= (m - 1) * PageSize}
      /\ PageOf(listing, n) =
           {e \in listing : (n - 1) * PageSize < rank(e) /\ rank(e) <= n * PageSize}
      /\ HasNextPage(listing, n) <=> n * PageSize < Cardinality(listing)
  BY DEF ReadBefore, PageOf, HasNextPage
<1> HIDE DEF rank
<1> DEFINE lo == (n - 1) * PageSize
           hi == n * PageSize
<1>3. /\ lo \in Nat /\ hi \in Nat /\ lo <= hi
      /\ ((n + 1) - 1) * PageSize = hi
      /\ (1 - 1) * PageSize = 0
  BY Multiples, PersonSyncAssumption
<1>4. /\ ReadBefore(listing, n) = {e \in listing : rank(e) <= lo}
      /\ ReadBefore(listing, n + 1) = {e \in listing : rank(e) <= hi}
      /\ ReadBefore(listing, 1) = {e \in listing : rank(e) <= 0}
      /\ PageOf(listing, n) = {e \in listing : lo < rank(e) /\ rank(e) <= hi}
      /\ HasNextPage(listing, n) <=> hi < Cardinality(listing)
  BY <1>2, <1>3
<1> HIDE DEF lo, hi
<1>5. \A e \in listing : /\ rank(e) <= hi <=> rank(e) <= lo \/ (lo < rank(e) /\ rank(e) <= hi)
                         /\ ~ rank(e) <= 0
                         /\ ~ hi < Cardinality(listing) => rank(e) <= hi
  BY <1>1, <1>3
<1> QED
  BY <1>4, <1>5

\* The photos of a person are finitely many.
LEMMA PhotosFinite ==
    ASSUME PersonTypes, NEW e
    PROVE  PhotosOf(e) \in SUBSET Nat /\ IsFiniteSet(PhotosOf(e))
<1> DEFINE f == [a \in PhotosOf(e) |-> <<a, e>>]
<1>1. f \in Injection(PhotosOf(e), tags)
  BY DEF PhotosOf, Injection, IsInjective
<1>2. IsFiniteSet(PhotosOf(e))
  BY <1>1, FS_Injection DEF PersonTypes
<1> QED
  BY <1>2, PersonSyncAssumption DEF PhotosOf

PersonRows == [person : 0..MaxPersons, inactive_at : 0..MaxSyncs]

\* A snapshot keeps the Person of whoever has a row, numbers the others and
\* leaves its own identities active and no others.
LEMMA InventoryIs ==
    ASSUME NEW table \in [ExternalIds -> PersonRows],
           NEW seen \in SUBSET ExternalIds, IsFiniteSet(seen),
           NEW n \in Nat, NEW now \in (0..MaxSyncs) \ {0},
           NEW created, created = seen \ Known(table),
           n + Cardinality(created) <= MaxPersons,
           NEW new, new = ReconcileInventory(table, seen, n, now)
    PROVE  /\ Cardinality(created) \in Nat
           /\ new \in [ExternalIds -> PersonRows]
           /\ Known(new) = Known(table) \cup seen
           /\ \A e \in Known(table) : new[e].person = table[e].person
           /\ \A e \in created : new[e].person \in (n + 1)..(n + Cardinality(created))
           /\ \A e, f \in created : new[e].person = new[f].person => e = f
           /\ ActiveIds(new) = seen
<1> DEFINE upto(e) == {f \in created : f <= e}
           c == Cardinality(created)
<1>1. /\ created \in SUBSET Nat /\ IsFiniteSet(created) /\ c \in Nat
      /\ MaxPersons \in Nat /\ MaxSyncs \in Nat
  <2>1. created \subseteq seen /\ created \in SUBSET Nat
    BY PersonSyncAssumption
  <2>2. IsFiniteSet(created)
    BY <2>1, FS_Subset
  <2> QED
    BY <2>1, <2>2, FS_CardinalityType, PersonSyncAssumption
<1>2. \A e \in created : Cardinality(upto(e)) \in Nat \ {0} /\ Cardinality(upto(e)) <= c
  BY <1>1, Ranks
<1>3. \A e, f \in created : e < f => Cardinality(upto(e)) # Cardinality(upto(f))
  <2> SUFFICES ASSUME NEW e \in created, NEW f \in created, e < f
               PROVE  Cardinality(upto(e)) # Cardinality(upto(f))
    OBVIOUS
  <2>1. e \in Nat /\ f \in Nat /\ created \subseteq Nat
    BY <1>1
  <2>2. upto(e) \subseteq upto(f)
    BY <2>1
  <2>3. f \in upto(f) /\ f \notin upto(e)
    BY <2>1
  <2>4. IsFiniteSet(upto(f))
    BY <1>1, FS_Subset, upto(f) \in SUBSET created
  <2> HIDE DEF upto
  <2> QED
    BY <2>2, <2>3, <2>4, FS_Subset
<1> DEFINE number(e) == n + Cardinality(upto(e))
<1>4. \A e \in created : NewPerson(table, seen, n, e) = number(e)
  BY DEF NewPerson
<1>5. \A e \in created : number(e) \in (n + 1)..(n + c)
  <2> HIDE DEF upto, c
  <2> QED
    BY <1>1, <1>2
<1>6. \A e, f \in created : number(e) = number(f) => e = f
  <2> SUFFICES ASSUME NEW e \in created, NEW f \in created, e # f
               PROVE  number(e) # number(f)
    OBVIOUS
  <2>1. e \in Nat /\ f \in Nat
    BY <1>1
  <2>2. e < f \/ f < e
    BY <2>1
  <2>3. Cardinality(upto(e)) # Cardinality(upto(f))
    BY <2>2, <1>3
  <2> HIDE DEF upto
  <2> QED
    BY <2>3, <1>2
<1> HIDE DEF number, c
<1>7. \A e \in ExternalIds :
        /\ table[e].person \in 0..MaxPersons /\ table[e].inactive_at \in 0..MaxSyncs
        /\ table[e] = [person |-> table[e].person, inactive_at |-> table[e].inactive_at]
        /\ e \in Known(table) <=> table[e].person # 0
        /\ HasRow(table[e]) <=> table[e].person # 0
        /\ IsActive(table[e]) <=> table[e].person # 0 /\ table[e].inactive_at = 0
  BY DEF PersonRows, Known, HasRow, IsActive
<1>8. \A e \in ExternalIds : new[e] =
        IF e \in seen
        THEN IF table[e].person # 0 THEN [person |-> table[e].person, inactive_at |-> 0]
             ELSE [person |-> NewPerson(table, seen, n, e), inactive_at |-> 0]
        ELSE IF table[e].person # 0 /\ table[e].inactive_at = 0
             THEN [person |-> table[e].person, inactive_at |-> now]
             ELSE table[e]
  <2> TAKE e \in ExternalIds
  <2>1. /\ [table[e] EXCEPT !.inactive_at = 0] = [person |-> table[e].person, inactive_at |-> 0]
        /\ [table[e] EXCEPT !.inactive_at = now] = [person |-> table[e].person, inactive_at |-> now]
    BY DEF PersonRows
  <2> QED
    BY <2>1, <1>7 DEF ReconcileInventory, Resolve
<1>9. DOMAIN new = ExternalIds /\ new = [e \in ExternalIds |-> new[e]]
  BY DEF ReconcileInventory
<1>10. \A e \in created : e \in seen /\ e \in ExternalIds /\ table[e].person = 0
  BY <1>7
<1>11. \A e \in seen : table[e].person = 0 => e \in created
  BY <1>7
<1>12. \A e \in created : new[e] = [person |-> number(e), inactive_at |-> 0]
  BY <1>8, <1>10, <1>4
<1>13. \A e \in created : /\ number(e) \in 0..MaxPersons /\ number(e) # 0
                          /\ new[e].person = number(e) /\ new[e].inactive_at = 0
  <2>1. n + c <= MaxPersons
    BY DEF c
  <2>2. \A k \in (n + 1)..(n + c) : k \in 0..MaxPersons /\ k # 0
    BY <2>1, <1>1
  <2>3. \A e \in created : number(e) \in 0..MaxPersons /\ number(e) # 0
    BY <2>2, <1>5
  <2> QED
    <3> TAKE e \in created
    <3>1. new[e] = [person |-> number(e), inactive_at |-> 0]
      BY <1>12
    <3>2. new[e].person = number(e) /\ new[e].inactive_at = 0
      BY <3>1
    <3>3. number(e) \in 0..MaxPersons /\ number(e) # 0
      BY <2>3
    <3> QED
      BY <3>2, <3>3
<1>14. \A e \in ExternalIds \ created :
         /\ new[e].person = table[e].person
         /\ new[e].inactive_at = IF e \in seen THEN 0
                                 ELSE IF table[e].person # 0 /\ table[e].inactive_at = 0
                                      THEN now ELSE table[e].inactive_at
         /\ new[e] = [person |-> new[e].person, inactive_at |-> new[e].inactive_at]
  <2> TAKE e \in ExternalIds \ created
  <2> DEFINE p == table[e].person
             i == table[e].inactive_at
  <2>1. e \in ExternalIds /\ (e \in seen => p # 0) /\ table[e] = [person |-> p, inactive_at |-> i]
    BY <1>7, <1>11
  <2>2. CASE e \in seen
    <3>1. new[e] = [person |-> p, inactive_at |-> 0]
      BY <1>8, <2>1, <2>2
    <3> QED
      BY <3>1, <2>2
  <2>3. CASE e \notin seen /\ p # 0 /\ i = 0
    <3>1. new[e] = [person |-> p, inactive_at |-> now]
      BY <1>8, <2>1, <2>3
    <3> QED
      BY <3>1, <2>3
  <2>4. CASE e \notin seen /\ ~ (p # 0 /\ i = 0)
    <3>1. new[e] = [person |-> p, inactive_at |-> i]
      BY <1>8, <2>1, <2>4
    <3> QED
      BY <3>1, <2>4
  <2> QED
    BY <2>2, <2>3, <2>4
<1>15. \A e \in ExternalIds : new[e] \in PersonRows
  <2> TAKE e \in ExternalIds
  <2>0. 0 \in 0..MaxSyncs
    BY <1>1
  <2>1. CASE e \in created
    <3>1. new[e].person \in 0..MaxPersons /\ new[e].inactive_at \in 0..MaxSyncs
      BY <2>0, <2>1, <1>13
    <3>2. new[e] = [person |-> number(e), inactive_at |-> 0]
      BY <2>1, <1>12
    <3> QED
      BY <3>1, <3>2, <2>0, <2>1, <1>13 DEF PersonRows
  <2>2. CASE e \notin created
    <3>1. new[e].person \in 0..MaxPersons /\ new[e].inactive_at \in 0..MaxSyncs
      BY <2>0, <2>2, <1>14, <1>7
    <3>2. new[e] = [person |-> new[e].person, inactive_at |-> new[e].inactive_at]
      BY <2>2, <1>14
    <3> HIDE DEF ReconcileInventory
    <3>3. \A p \in 0..MaxPersons, i \in 0..MaxSyncs :
            [person |-> p, inactive_at |-> i] \in PersonRows
      BY DEF PersonRows
    <3> QED
      BY <3>1, <3>2, <3>3
  <2> QED
    BY <2>1, <2>2
<1>16. new \in [ExternalIds -> PersonRows]
  BY <1>9, <1>15
<1>17. \A e \in ExternalIds : e \in Known(new) <=> new[e].person # 0
  BY DEF Known, HasRow
<1>18. Known(new) = Known(table) \cup seen
  <2>1. Known(new) \subseteq ExternalIds /\ Known(table) \subseteq ExternalIds
    BY DEF Known
  <2>2. \A e \in ExternalIds : e \in Known(new) <=> e \in Known(table) \/ e \in seen
    <3>1. \A e \in created : e \in Known(new) /\ e \in seen
      BY <1>17, <1>13, <1>10
    <3>2. \A e \in ExternalIds \ created : e \in Known(new) <=> e \in Known(table)
      <4> TAKE e \in ExternalIds \ created
      <4>1. new[e].person = table[e].person
        BY <1>14
      <4>2. e \in Known(new) <=> new[e].person # 0
        BY <1>17
      <4>3. e \in Known(table) <=> table[e].person # 0
        BY <1>7
      <4> QED
        BY <4>1, <4>2, <4>3
    <3>3. \A e \in seen : e \in Known(table) \/ e \in created
      OBVIOUS
    <3> QED
      BY <3>1, <3>2, <3>3
  <2> QED
    BY <2>1, <2>2
<1>19. \A e \in Known(table) : new[e].person = table[e].person
  BY <1>14, <1>7, <1>10 DEF Known
<1>20. ActiveIds(new) = seen
  <2>1. ActiveIds(new) \subseteq ExternalIds
    BY DEF ActiveIds
  <2>2. \A e \in ExternalIds : e \in ActiveIds(new) <=> new[e].person # 0 /\ new[e].inactive_at = 0
    BY DEF ActiveIds, IsActive, HasRow
  <2>3. \A e \in created : e \in ActiveIds(new) /\ e \in seen
    BY <2>2, <1>13, <1>10
  <2>4. \A e \in ExternalIds \ created : e \in ActiveIds(new) <=> e \in seen
    <3> TAKE e \in ExternalIds \ created
    <3>1. CASE e \in seen
      BY <3>1, <2>2, <1>14, <1>11
    <3>2. CASE e \notin seen
      BY <3>2, <2>2, <1>14, <1>7
    <3> QED
      BY <3>1, <3>2
  <2> QED
    BY <2>1, <2>3, <2>4
<1>21. /\ \A e \in created : new[e].person \in (n + 1)..(n + c)
       /\ \A e, f \in created : new[e].person = new[f].person => e = f
  BY <1>5, <1>6, <1>13
<1> QED
  BY <1>1, <1>16, <1>18, <1>19, <1>20, <1>21 DEF c

LEMMA IdleIs ==
    /\ NoPeopleSync \in PeopleScans /\ NoPeopleSync.at = "idle" /\ NoPeopleSync.seen = {}
    /\ NoRelationSync \in RelationScans /\ NoRelationSync.at = "idle"
BY DEF NoPeopleSync, NoRelationSync, PeopleScans, RelationScans, Domains

LEMMA QuietIs ==
    ASSUME rs \in RelationScans, NEW q \in BOOLEAN, rs' = [rs EXCEPT !.quiet = q]
    PROVE  /\ rs' \in RelationScans /\ rs'.quiet = q
           /\ rs'.at = rs.at /\ rs'.domain = rs.domain /\ rs'.todo = rs.todo
           /\ rs'.page = rs.page /\ rs'.pairs = rs.pairs /\ rs'.mapped = rs.mapped
           /\ rs'.existing = rs.existing
BY DEF RelationScans

LEMMA ChangedIs ==
    ASSUME PersonTypes, NEW new \in SUBSET ExternalIds, Changed(new)
    PROVE  /\ changes' \in 0..MaxChanges
           /\ ps' \in PeopleScans
           /\ ps'.at = ps.at /\ ps'.domain = ps.domain /\ ps'.page = ps.page
           /\ ps'.total = ps.total /\ ps'.seen = ps.seen
           /\ ps.at # "idle" => ps'.always = ps.always \cap new /\ ps'.met = ps.met + 1
           /\ rs' \in RelationScans /\ rs'.quiet = (rs.at = "idle")
           /\ rs'.at = rs.at /\ rs'.domain = rs.domain /\ rs'.todo = rs.todo
           /\ rs'.page = rs.page /\ rs'.pairs = rs.pairs /\ rs'.mapped = rs.mapped
           /\ rs'.existing = rs.existing
<1>1. changes' \in 0..MaxChanges
  BY PersonSyncAssumption DEF Changed, PersonTypes, PersonTypeOK
<1>2. rs' = [rs EXCEPT !.quiet = (rs.at = "idle")] /\ rs \in RelationScans
  BY DEF Changed, PersonTypes
<1>3. /\ rs' \in RelationScans /\ rs'.quiet = (rs.at = "idle")
      /\ rs'.at = rs.at /\ rs'.domain = rs.domain /\ rs'.todo = rs.todo
      /\ rs'.page = rs.page /\ rs'.pairs = rs.pairs /\ rs'.mapped = rs.mapped
      /\ rs'.existing = rs.existing
  BY <1>2, QuietIs, (rs.at = "idle") \in BOOLEAN
<1>4. ps \in PeopleScans
  BY DEF PersonTypes
<1>5. CASE ps.at = "idle"
  <2>1. ps' = ps
    BY <1>5 DEF Changed
  <2> QED
    BY <1>1, <1>3, <1>4, <1>5, <2>1
<1>6. CASE ps.at # "idle"
  <2>1. ps' = [ps EXCEPT !.always = @ \cap new, !.met = @ + 1]
    BY <1>6 DEF Changed
  <2>2. /\ ps' \in PeopleScans
        /\ ps'.at = ps.at /\ ps'.domain = ps.domain /\ ps'.page = ps.page
        /\ ps'.total = ps.total /\ ps'.seen = ps.seen
        /\ ps'.always = ps.always \cap new /\ ps'.met = ps.met + 1
    <3> DEFINE always == ps.always \cap new
               met == ps.met + 1
    <3>1. ps' = [ps EXCEPT !.always = always, !.met = met]
      BY <2>1
    <3>2. always \in SUBSET ExternalIds /\ met \in Nat
      BY <1>4 DEF PeopleScans
    <3> HIDE DEF always, met
    <3>3. /\ ps' \in PeopleScans
          /\ ps'.at = ps.at /\ ps'.domain = ps.domain /\ ps'.page = ps.page
          /\ ps'.total = ps.total /\ ps'.seen = ps.seen
          /\ ps'.always = always /\ ps'.met = met
      BY <3>1, <3>2, <1>4 DEF PeopleScans
    <3> QED
      BY <3>3 DEF always, met
  <2> QED
    BY <1>1, <1>3, <2>2
<1> QED
  BY <1>5, <1>6

LEMMA StartPeopleIs ==
    ASSUME PersonTypes, NEW d \in Domains, StartPeople(d)
    PROVE  /\ ps' \in PeopleScans
           /\ ps'.at = "scanning" /\ ps'.domain = d /\ ps'.page = 1 /\ ps'.total = -1
           /\ ps'.seen = {} /\ ps'.always = catalog /\ ps'.met = 0
<1>1. ps' = [at |-> "scanning", domain |-> d, page |-> 1, total |-> -1,
             seen |-> {}, always |-> catalog, met |-> 0]
  BY DEF StartPeople, NoPeopleSync
<1>2. /\ catalog \in SUBSET ExternalIds /\ {} \in SUBSET ExternalIds
      /\ 1 \in Nat \ {0} /\ 0 \in Nat /\ -1 \in Nat \cup {-1}
  BY DEF PersonTypes, PersonTypeOK
<1> DEFINE none == {}
           first == 1
           nil == 0
           unknown == -1
<1>3. /\ none \in SUBSET ExternalIds /\ first \in Nat \ {0} /\ nil \in Nat
      /\ unknown \in Nat \cup {-1}
      /\ ps' = [at |-> "scanning", domain |-> d, page |-> first, total |-> unknown,
                seen |-> none, always |-> catalog, met |-> nil]
  BY <1>1, <1>2
<1> HIDE DEF none, first, nil, unknown
<1>4. /\ ps' \in PeopleScans
      /\ ps'.at = "scanning" /\ ps'.domain = d /\ ps'.page = first /\ ps'.total = unknown
      /\ ps'.seen = none /\ ps'.always = catalog /\ ps'.met = nil
  BY <1>2, <1>3 DEF PeopleScans
<1> QED
  BY <1>4 DEF none, first, nil, unknown

LEMMA StartRelationsIs ==
    ASSUME NEW d \in Domains, StartRelations(d)
    PROVE  /\ rs' \in RelationScans
           /\ rs'.at = "scanning" /\ rs'.domain = d /\ rs'.todo = ActiveIds(people[d])
           /\ rs'.page = 1 /\ rs'.pairs = {} /\ rs'.quiet = TRUE
<1> DEFINE todo == ActiveIds(people[d])
           none == {}
           first == 1
<1>0. /\ todo \in SUBSET ExternalIds /\ none \in SUBSET (Photos \X ExternalIds)
      /\ none \in SUBSET Pairs /\ first \in Nat \ {0}
  BY DEF ActiveIds
<1>1. rs' = [at |-> "scanning", domain |-> d, todo |-> todo, page |-> first, pairs |-> none,
             mapped |-> none, existing |-> none, quiet |-> TRUE]
  <2>1. rs' = [NoRelationSync EXCEPT !.at = "scanning", !.domain = d, !.todo = todo]
    BY DEF StartRelations
  <2> HIDE DEF todo
  <2> QED
    BY <2>1 DEF NoRelationSync
<1> HIDE DEF todo, none, first
<1>2. /\ rs' \in RelationScans
      /\ rs'.at = "scanning" /\ rs'.domain = d /\ rs'.todo = todo
      /\ rs'.page = first /\ rs'.pairs = none /\ rs'.quiet = TRUE
  BY <1>0, <1>1 DEF RelationScans
<1> QED
  BY <1>2 DEF todo, none, first

LEMMA CatalogIs ==
    ASSUME PersonTypes
    PROVE  /\ catalog \in SUBSET Nat /\ catalog \in SUBSET ExternalIds /\ IsFiniteSet(catalog)
           /\ Cardinality(catalog) \in Nat
BY FS_CardinalityType, PersonSyncAssumption DEF PersonTypes, PersonTypeOK

LEMMA PeoplePageIs ==
    ASSUME PersonTypes, PeoplePage
    PROVE  /\ ps' \in PeopleScans /\ IsFiniteSet(ps'.seen)
           /\ ps'.domain = ps.domain /\ ps'.always = ps.always /\ ps'.met = ps.met
           /\ ps'.total = Cardinality(catalog)
           /\ ps'.seen = ps.seen \cup PageOf(catalog, ps.page)
           /\ IF HasNextPage(catalog, ps.page)
              THEN ps'.page = ps.page + 1 /\ ps'.at = "scanning"
              ELSE ps'.at = "scanned"
<1> DEFINE listed == PageOf(catalog, ps.page)
           more == HasNextPage(catalog, ps.page)
<1>1. /\ ps \in PeopleScans /\ ps.at = "scanning" /\ Cardinality(catalog) \in Nat
      /\ IsFiniteSet(ps.seen) /\ more \in BOOLEAN
  BY CatalogIs DEF PersonTypes, PeoplePage, HasNextPage
<1>2. listed \subseteq catalog /\ listed \subseteq ExternalIds /\ IsFiniteSet(listed)
  <2>1. listed \subseteq catalog
    BY DEF PageOf
  <2> HIDE DEF listed
  <2> QED
    BY <2>1, CatalogIs, FS_Subset
<1>3. IsFiniteSet(ps.seen \cup listed)
  BY <1>1, <1>2, FS_Union
<1>4. ps' = [ps EXCEPT !.total = Cardinality(catalog), !.seen = @ \cup listed,
                       !.page = IF more THEN @ + 1 ELSE @,
                       !.at = IF more THEN @ ELSE "scanned"]
  BY DEF PeoplePage
<1> DEFINE total == Cardinality(catalog)
           seen == ps.seen \cup listed
           next == ps.page + 1
<1>5. /\ total \in Nat \cup {-1} /\ seen \in SUBSET ExternalIds
      /\ next \in Nat \ {0} /\ ps.page \in Nat \ {0}
  <2> HIDE DEF listed
  <2> QED
    BY <1>1, <1>2 DEF PeopleScans
<1>6. ps' = [ps EXCEPT !.total = total, !.seen = seen,
                       !.page = IF more THEN next ELSE ps.page,
                       !.at = IF more THEN "scanning" ELSE "scanned"]
  BY <1>4, <1>1
<1> HIDE DEF listed, more, total, seen, next
<1>7. /\ ps' \in PeopleScans
      /\ ps'.domain = ps.domain /\ ps'.always = ps.always /\ ps'.met = ps.met
      /\ ps'.total = total /\ ps'.seen = seen
      /\ IF more THEN ps'.page = next /\ ps'.at = "scanning" ELSE ps'.at = "scanned"
  <2>1. CASE more
    <3>1. ps' = [ps EXCEPT !.total = total, !.seen = seen, !.page = next, !.at = "scanning"]
      BY <1>6, <2>1
    <3> QED
      BY <3>1, <1>1, <1>5, <2>1 DEF PeopleScans
  <2>2. CASE ~ more
    <3>1. ps' = [ps EXCEPT !.total = total, !.seen = seen, !.page = ps.page, !.at = "scanned"]
      BY <1>6, <2>2
    <3> QED
      BY <3>1, <1>1, <1>5, <2>2 DEF PeopleScans
  <2> QED
    BY <2>1, <2>2
<1> QED
  BY <1>3, <1>7 DEF listed, more, total, seen, next

\* The person with the least identity comes first.
LEMMA TurnIs ==
    ASSUME NEW todo \in SUBSET ExternalIds, todo # {}
    PROVE  Turn(todo) \in todo /\ \A g \in todo : Turn(todo) <= g
<1>1. todo \subseteq Nat
  BY PersonSyncAssumption
<1>2. PICK m \in todo : \A g \in todo : m <= g
  BY <1>1, LeastExists
<1> QED
  BY <1>2 DEF Turn

LEMMA RelationPageIs ==
    ASSUME PersonTypes, RelationPage, NEW e, e = Turn(rs.todo)
    PROVE  /\ rs' \in RelationScans /\ rs'.at = "scanning"
           /\ rs'.domain = rs.domain /\ rs'.quiet = rs.quiet
           /\ rs'.pairs = rs.pairs \cup (PageOf(PhotosOf(e), rs.page) \X {e})
           /\ IF HasNextPage(PhotosOf(e), rs.page)
              THEN rs'.page = rs.page + 1 /\ rs'.todo = rs.todo
              ELSE rs'.page = 1 /\ rs'.todo = rs.todo \ {e}
<1> DEFINE listed == PageOf(PhotosOf(e), rs.page)
           more == HasNextPage(PhotosOf(e), rs.page)
           pairs == rs.pairs \cup (listed \X {e})
           next == rs.page + 1
           rest == rs.todo \ {e}
           first == 1
<1>1. rs \in RelationScans /\ rs.at = "scanning" /\ rs.todo # {} /\ rs.todo \subseteq ExternalIds
  BY DEF PersonTypes, RelationPage, RelationScans
<1>2. e \in rs.todo
  BY <1>1, TurnIs
<1>3. listed \subseteq Photos /\ e \in ExternalIds
  BY <1>1, <1>2 DEF PageOf, PhotosOf
<1>4. rs' = [rs EXCEPT !.pairs = pairs, !.page = IF more THEN next ELSE first,
                       !.todo = IF more THEN rs.todo ELSE rest]
  BY DEF RelationPage, Turn
<1>5. /\ pairs \in SUBSET (Photos \X ExternalIds) /\ next \in Nat \ {0} /\ first \in Nat \ {0}
      /\ rest \in SUBSET ExternalIds /\ rs.todo \in SUBSET ExternalIds
      /\ more \in BOOLEAN
  <2>1. listed \X {e} \subseteq Photos \X ExternalIds
    BY <1>3
  <2> HIDE DEF listed
  <2>2. pairs \in SUBSET (Photos \X ExternalIds)
    BY <2>1, <1>1 DEF RelationScans
  <2> QED
    BY <2>2, <1>1 DEF RelationScans, HasNextPage
<1> HIDE DEF listed, more, pairs, next, rest, first
<1>6. /\ rs' \in RelationScans /\ rs'.at = "scanning"
      /\ rs'.domain = rs.domain /\ rs'.quiet = rs.quiet /\ rs'.pairs = pairs
      /\ IF more THEN rs'.page = next /\ rs'.todo = rs.todo
         ELSE rs'.page = first /\ rs'.todo = rest
  <2>1. CASE more
    <3>1. rs' = [rs EXCEPT !.pairs = pairs, !.page = next, !.todo = rs.todo]
      BY <1>4, <2>1
    <3> QED
      BY <3>1, <1>1, <1>5, <2>1 DEF RelationScans
  <2>2. CASE ~ more
    <3>1. rs' = [rs EXCEPT !.pairs = pairs, !.page = first, !.todo = rest]
      BY <1>4, <2>2
    <3> QED
      BY <3>1, <1>1, <1>5, <2>2 DEF RelationScans
  <2> QED
    BY <2>1, <2>2
<1> QED
  BY <1>6 DEF listed, more, pairs, next, rest, first

\* A pair is mapped with an active person and one of the photos.
LEMMA MappedIs ==
    ASSUME NEW pairs \in SUBSET (Photos \X ExternalIds), NEW photos \in SUBSET Photos,
           NEW table \in [ExternalIds -> PersonRows]
    PROVE  /\ Mapped(pairs, photos, PersonOf(table)) \in SUBSET Pairs
           /\ \A p \in Mapped(pairs, photos, PersonOf(table)) :
                  \E a \in photos, e \in ActiveIds(table) :
                      <<a, e>> \in pairs /\ p = <<ResourceOf[a], table[e].person>>
           /\ \A a \in photos, e \in ActiveIds(table) :
                  <<a, e>> \in pairs =>
                      <<ResourceOf[a], table[e].person>> \in Mapped(pairs, photos, PersonOf(table))
<1> DEFINE mapped == Mapped(pairs, photos, PersonOf(table))
<1>1. /\ DOMAIN PersonOf(table) = ActiveIds(table)
      /\ \A e \in ActiveIds(table) : PersonOf(table)[e] = table[e].person
  BY DEF PersonOf
<1>2. \A p \in mapped : \E pair \in pairs :
        /\ pair[1] \in photos /\ pair[2] \in ActiveIds(table)
        /\ p = <<ResourceOf[pair[1]], table[pair[2]].person>>
  BY <1>1 DEF Mapped
<1>3. ASSUME NEW p \in mapped
      PROVE  \E a \in photos, e \in ActiveIds(table) :
                 <<a, e>> \in pairs /\ p = <<ResourceOf[a], table[e].person>>
  <2>1. PICK pair \in pairs : /\ pair[1] \in photos /\ pair[2] \in ActiveIds(table)
                              /\ p = <<ResourceOf[pair[1]], table[pair[2]].person>>
    BY <1>2
  <2>2. pair = <<pair[1], pair[2]>>
    OBVIOUS
  <2>3. <<pair[1], pair[2]>> \in pairs
    BY <2>2
  <2> QED
    BY <2>1, <2>3
<1>4. ASSUME NEW a \in photos, NEW e \in ActiveIds(table), <<a, e>> \in pairs
      PROVE  <<ResourceOf[a], table[e].person>> \in mapped
  <2> DEFINE pair == <<a, e>>
  <2>1. pair \in {p \in pairs : p[1] \in photos /\ p[2] \in DOMAIN PersonOf(table)}
    BY <1>1, <1>4
  <2>2. <<ResourceOf[pair[1]], PersonOf(table)[pair[2]]>> \in mapped
    BY <2>1 DEF Mapped
  <2> QED
    BY <2>2, <1>1
<1>5. \A a \in photos, e \in ActiveIds(table) : <<ResourceOf[a], table[e].person>> \in Pairs
  <2> SUFFICES ASSUME NEW a \in photos, NEW e \in ActiveIds(table)
               PROVE  ResourceOf[a] \in Resources /\ table[e].person \in 1..MaxPersons
    BY DEF Pairs
  <2>1. e \in ExternalIds /\ table[e].person # 0
    BY DEF ActiveIds, IsActive, HasRow
  <2>2. table[e].person \in 0..MaxPersons /\ MaxPersons \in Nat
    BY <2>1, PersonSyncAssumption DEF PersonRows
  <2>3. \A k \in 0..MaxPersons : k # 0 => k \in 1..MaxPersons
    BY <2>2
  <2> QED
    BY <2>1, <2>2, <2>3 DEF Resources
<1>6. mapped \in SUBSET Pairs
  <2> SUFFICES ASSUME NEW p \in mapped PROVE p \in Pairs
    OBVIOUS
  <2>1. PICK a \in photos, e \in ActiveIds(table) : p = <<ResourceOf[a], table[e].person>>
    BY <1>3
  <2> QED
    BY <2>1, <1>5
<1> HIDE DEF mapped
<1>7. /\ mapped \in SUBSET Pairs
      /\ \A p \in mapped : \E a \in photos, e \in ActiveIds(table) :
             <<a, e>> \in pairs /\ p = <<ResourceOf[a], table[e].person>>
      /\ \A a \in photos, e \in ActiveIds(table) :
             <<a, e>> \in pairs => <<ResourceOf[a], table[e].person>> \in mapped
  BY <1>3, <1>4, <1>6
<1> QED
  BY <1>7 DEF mapped

LEMMA ReadRelationsIs ==
    ASSUME PersonTypes, ReadRelations
    PROVE  /\ rs' \in RelationScans /\ rs'.at = "read"
           /\ rs'.domain = rs.domain /\ rs'.quiet = rs.quiet /\ rs'.todo = {}
           /\ rs'.existing = ActivePairs(relations[rs.domain])
           /\ rs'.mapped = Mapped(rs.pairs, ActivePhotos(rs.domain), PersonOf(people[rs.domain]))
<1> DEFINE d == rs.domain
           existing == ActivePairs(relations[d])
           mapped == Mapped(rs.pairs, ActivePhotos(d), PersonOf(people[d]))
<1>1. rs \in RelationScans /\ rs.todo = {} /\ d \in Domains
  BY DEF PersonTypes, ReadRelations, RelationScans
<1>2. existing \in SUBSET Pairs
  BY DEF ActivePairs
<1>3. mapped \in SUBSET Pairs
  <2>1. people[d] \in [ExternalIds -> PersonRows]
    BY <1>1 DEF PersonTypes, PersonTypeOK, PersonRows
  <2>2. ActivePhotos(d) \in SUBSET Photos /\ rs.pairs \in SUBSET (Photos \X ExternalIds)
    BY <1>1 DEF ActivePhotos, RelationScans
  <2> HIDE DEF d
  <2> QED
    BY <2>1, <2>2, MappedIs
<1>4. rs' = [rs EXCEPT !.at = "read", !.existing = existing, !.mapped = mapped]
  BY DEF ReadRelations
<1> HIDE DEF existing, mapped
<1> QED
  BY <1>1, <1>2, <1>3, <1>4 DEF RelationScans, existing, mapped

ProviderTyped ==
    /\ catalog \subseteq ExternalIds /\ IsFiniteSet(catalog)
    /\ tags \subseteq Photos \X catalog /\ IsFiniteSet(tags)
    /\ changes \in 0..MaxChanges

TablesTyped ==
    /\ sources \in [Domains -> [Photos -> {"none", "active", "inactive"}]]
    /\ people \in [Domains -> [ExternalIds -> PersonRows]]
    /\ relations \in [Domains -> [Pairs -> NoRelation..MaxSyncs]]
    /\ allocated \in 0..MaxPersons /\ clock \in 0..MaxSyncs
    /\ phase \in {"legacy", "stopped", "scope"}

ScansTyped == ps \in PeopleScans /\ rs \in RelationScans /\ IsFiniteSet(ps.seen)

LEMMA TypesAre == PersonTypes <=> ProviderTyped /\ TablesTyped /\ ScansTyped
<1>1. ScansTyped => /\ ps.domain \in Domains /\ ps.seen \subseteq ExternalIds
                    /\ rs.domain \in Domains /\ rs.mapped \subseteq Pairs
                    /\ rs.existing \subseteq Pairs
  BY DEF ScansTyped, PeopleScans, RelationScans
<1> QED
  BY <1>1 DEF PersonTypes, PersonTypeOK, ProviderTyped, TablesTyped, ScansTyped, PersonRows

LEMMA TypesStart == PersonInit => PersonTypes
<1> SUFFICES ASSUME PersonInit PROVE ProviderTyped /\ TablesTyped /\ ScansTyped
  BY TypesAre
<1>0. MaxPersons \in Nat /\ MaxSyncs \in Nat /\ MaxChanges \in Nat
  BY PersonSyncAssumption
<1>1. ProviderTyped
  BY <1>0, FS_EmptySet DEF PersonInit, ProviderTyped
<1>2. sources \in [Domains -> [Photos -> {"none", "active", "inactive"}]]
  <2>1. PICK stored \in {"none", "active"} :
          sources = [legacy |-> [a \in Photos |-> stored], scope |-> [a \in Photos |-> "none"]]
    BY DEF PersonInit
  <2> QED
    BY <2>1 DEF Domains
<1>3. people \in [Domains -> [ExternalIds -> PersonRows]]
  BY <1>0 DEF PersonInit, NoRow, PersonRows
<1>4. relations \in [Domains -> [Pairs -> NoRelation..MaxSyncs]]
  <2>1. NoRelation \in NoRelation..MaxSyncs
    BY <1>0 DEF NoRelation
  <2> QED
    BY <2>1 DEF PersonInit
<1>5. allocated \in 0..MaxPersons /\ clock \in 0..MaxSyncs /\ phase \in {"legacy", "stopped", "scope"}
  BY <1>0 DEF PersonInit
<1>6. ScansTyped
  BY IdleIs, FS_EmptySet DEF PersonInit, ScansTyped
<1> QED
  BY <1>1, <1>2, <1>3, <1>4, <1>5, <1>6 DEF TablesTyped

LEMMA ReconciledIs ==
    ASSUME PersonTypes, ReconcilePeople, NEW d, d = ps.domain
    PROVE  /\ d \in Domains
           /\ people' \in [Domains -> [ExternalIds -> PersonRows]]
           /\ allocated' \in 0..MaxPersons /\ clock' \in 0..MaxSyncs
           /\ \A c \in Domains \ {d} : people'[c] = people[c]
           /\ Known(people'[d]) = Known(people[d]) \cup ps.seen
           /\ \A e \in Known(people[d]) : people'[d][e].person = people[d][e].person
           /\ \A e \in ps.seen \ Known(people[d]) :
                  people'[d][e].person \in (allocated + 1)..allocated'
           /\ \A e, f \in ps.seen \ Known(people[d]) :
                  people'[d][e].person = people'[d][f].person => e = f
           /\ ActiveIds(people'[d]) = ps.seen
           /\ allocated' \in Nat /\ allocated \in Nat /\ allocated <= allocated'
<1> DEFINE table == people[d]
           created == ps.seen \ Known(table)
           now == clock'
           new == ReconcileInventory(table, ps.seen, allocated, now)
<1>0. ProviderTyped /\ TablesTyped /\ ScansTyped
  BY TypesAre
<1>1. /\ d \in Domains /\ table \in [ExternalIds -> PersonRows]
      /\ ps.seen \in SUBSET ExternalIds /\ IsFiniteSet(ps.seen)
      /\ allocated \in Nat /\ MaxPersons \in Nat
  <2>1. d \in Domains /\ ps.seen \in SUBSET ExternalIds /\ IsFiniteSet(ps.seen)
    BY <1>0 DEF ScansTyped, PeopleScans
  <2> QED
    BY <2>1, <1>0, PersonSyncAssumption DEF TablesTyped
<1>2. now \in (0..MaxSyncs) \ {0} /\ now \in 0..MaxSyncs
  BY <1>0, PersonSyncAssumption DEF TablesTyped, ReconcilePeople
<1>3. /\ allocated' = allocated + Cardinality(created)
      /\ allocated + Cardinality(created) <= MaxPersons
      /\ people' = [people EXCEPT ![d] = new]
  BY DEF ReconcilePeople
<1> HIDE DEF table, created, now, new
<1>4. /\ Cardinality(created) \in Nat
      /\ new \in [ExternalIds -> PersonRows]
      /\ Known(new) = Known(table) \cup ps.seen
      /\ \A e \in Known(table) : new[e].person = table[e].person
      /\ \A e \in created : new[e].person \in (allocated + 1)..(allocated + Cardinality(created))
      /\ \A e, f \in created : new[e].person = new[f].person => e = f
      /\ ActiveIds(new) = ps.seen
  <2>1. created = ps.seen \ Known(table) /\ new = ReconcileInventory(table, ps.seen, allocated, now)
    BY DEF created, new
  <2>2. /\ table \in [ExternalIds -> PersonRows] /\ ps.seen \in SUBSET ExternalIds
        /\ IsFiniteSet(ps.seen) /\ allocated \in Nat /\ now \in (0..MaxSyncs) \ {0}
        /\ allocated + Cardinality(created) <= MaxPersons
    BY <1>1, <1>2, <1>3
  <2>3. ActiveIds(new) = ps.seen
    BY <2>1, <2>2, InventoryIs
  <2>4. Cardinality(created) \in Nat
    BY <2>1, <2>2, InventoryIs
  <2>5. new \in [ExternalIds -> PersonRows]
    BY <2>1, <2>2, InventoryIs
  <2>6. \A e \in created : new[e].person \in (allocated + 1)..(allocated + Cardinality(created))
    BY <2>1, <2>2, InventoryIs
  <2>7. Known(new) = Known(table) \cup ps.seen
    BY <2>1, <2>2, InventoryIs
  <2>8. \A e \in Known(table) : new[e].person = table[e].person
    BY <2>1, <2>2, InventoryIs
  <2>9. \A e, f \in created : new[e].person = new[f].person => e = f
    BY <2>1, <2>2, InventoryIs
  <2> QED
    BY <2>3, <2>4, <2>5, <2>6, <2>7, <2>8, <2>9
<1>5. people'[d] = new /\ \A c \in Domains \ {d} : people'[c] = people[c]
  BY <1>0, <1>1, <1>3 DEF TablesTyped
<1>6. people' \in [Domains -> [ExternalIds -> PersonRows]]
  BY <1>0, <1>1, <1>3, <1>4 DEF TablesTyped
<1>7. allocated' \in 0..MaxPersons /\ allocated' \in Nat /\ allocated <= allocated'
  BY <1>1, <1>3, <1>4
<1>8. table = people[d] /\ created = ps.seen \ Known(people[d]) /\ clock' \in 0..MaxSyncs
  BY <1>2 DEF table, created, now
<1> QED
  BY <1>1, <1>3, <1>4, <1>5, <1>6, <1>7, <1>8

LEMMA TypesAreNext == ProviderTyped' /\ TablesTyped' /\ ScansTyped' => PersonTypes'
BY TypesAre, PTL

LEMMA TypesStep ==
    ASSUME PersonTypes, PersonNext
    PROVE  PersonTypes'
<1> SUFFICES ProviderTyped' /\ TablesTyped' /\ ScansTyped'
  BY TypesAreNext
<1>0. ProviderTyped /\ TablesTyped /\ ScansTyped
  BY TypesAre
<1>n. MaxPersons \in Nat /\ MaxSyncs \in Nat /\ MaxChanges \in Nat
  BY PersonSyncAssumption
<1>p. UNCHANGED providerVars => ProviderTyped'
  BY <1>0 DEF ProviderTyped, providerVars
<1>t. UNCHANGED <<tableVars, phase>> => TablesTyped'
  BY <1>0 DEF TablesTyped, tableVars
<1>s. UNCHANGED ps => ps' \in PeopleScans /\ IsFiniteSet(ps'.seen)
  BY <1>0 DEF ScansTyped
<1>r. UNCHANGED rs => rs' \in RelationScans
  BY <1>0 DEF ScansTyped
<1>i. (ps' = NoPeopleSync => ps' \in PeopleScans /\ IsFiniteSet(ps'.seen))
      /\ (rs' = NoRelationSync => rs' \in RelationScans)
  BY IdleIs, FS_EmptySet
<1>1. ASSUME NEW e \in ExternalIds, PeopleChange(e)
      PROVE  ProviderTyped' /\ TablesTyped' /\ ScansTyped'
  <2>1. catalog' \in SUBSET ExternalIds /\ IsFiniteSet(catalog')
    BY <1>0, <1>1, FS_AddElement, FS_RemoveElement DEF PeopleChange, ProviderTyped
  <2>2. Changed(catalog') /\ TablesTyped'
    BY <1>1, <1>t DEF PeopleChange
  <2>3. PICK new \in SUBSET ExternalIds : new = catalog'
    BY <2>1
  <2>4. Changed(new)
    BY <2>2, <2>3
  <2>5. ScansTyped' /\ changes' \in 0..MaxChanges
    BY <2>4, ChangedIs, <1>0 DEF ScansTyped
  <2>6. tags' = {t \in tags : t[2] \in catalog'}
    BY <1>1 DEF PeopleChange
  <2>7. tags' \subseteq Photos \X catalog' /\ IsFiniteSet(tags')
    <3>1. tags' \subseteq tags
      BY <2>6
    <3>2. \A t \in tags : t[1] \in Photos /\ t = <<t[1], t[2]>>
      BY <1>0 DEF ProviderTyped
    <3>3. \A t \in tags' : t[2] \in catalog'
      BY <2>6
    <3>4. \A t \in tags' : <<t[1], t[2]>> \in Photos \X catalog'
      BY <3>1, <3>2, <3>3
    <3>5. \A t \in tags' : t \in Photos \X catalog'
      BY <3>1, <3>2, <3>4
    <3>6. IsFiniteSet(tags')
      BY <3>1, <1>0, FS_Subset DEF ProviderTyped
    <3> QED
      BY <3>5, <3>6
  <2> QED
    BY <2>1, <2>2, <2>5, <2>7 DEF ProviderTyped
<1>2. ASSUME NEW a \in Photos, NEW e \in ExternalIds, TagChange(a, e)
      PROVE  ProviderTyped' /\ TablesTyped' /\ ScansTyped'
  <2>1. /\ e \in catalog /\ catalog' = catalog /\ Changed(catalog) /\ TablesTyped'
        /\ tags' = IF <<a, e>> \in tags THEN tags \ {<<a, e>>} ELSE tags \cup {<<a, e>>}
    BY <1>2, <1>t DEF TagChange
  <2>2. tags' \subseteq Photos \X catalog /\ IsFiniteSet(tags')
    <3> DEFINE t == <<a, e>>
    <3>1. tags \subseteq Photos \X catalog /\ IsFiniteSet(tags) /\ t \in Photos \X catalog
      BY <2>1, <1>0 DEF ProviderTyped
    <3>2. tags' = tags \ {t} \/ tags' = tags \cup {t}
      BY <2>1
    <3> HIDE DEF t
    <3>3. IsFiniteSet(tags \ {t}) /\ IsFiniteSet(tags \cup {t})
      BY <3>1, FS_AddElement, FS_RemoveElement
    <3> QED
      BY <3>1, <3>2, <3>3
  <2>3. PICK new \in SUBSET ExternalIds : new = catalog
    BY <1>0 DEF ProviderTyped
  <2>4. Changed(new)
    BY <2>1, <2>3
  <2>5. ScansTyped' /\ changes' \in 0..MaxChanges
    BY <2>4, ChangedIs, <1>0 DEF ScansTyped
  <2> QED
    BY <2>1, <2>2, <2>5, <1>0 DEF ProviderTyped
<1>3. ASSUME NEW d \in Domains, NEW a \in Photos, Ingest(d, a)
      PROVE  ProviderTyped' /\ TablesTyped' /\ ScansTyped'
  <2>1. rs' = [rs EXCEPT !.quiet = (rs.at = "idle")] /\ ps' = ps
    BY <1>3 DEF Ingest
  <2>2. ScansTyped'
    BY <2>1, <1>0, QuietIs, (rs.at = "idle") \in BOOLEAN DEF ScansTyped
  <2>3. changes' \in 0..MaxChanges /\ UNCHANGED <<catalog, tags>>
    BY <1>3, <1>n, <1>0 DEF Ingest, ProviderTyped
  <2>4. sources' \in [Domains -> [Photos -> {"none", "active", "inactive"}]]
    BY <1>3, <1>0 DEF Ingest, TablesTyped
  <2>5. UNCHANGED <<people, relations, allocated, clock, phase>>
    BY <1>3 DEF Ingest
  <2> QED
    BY <2>2, <2>3, <2>4, <2>5, <1>0 DEF ProviderTyped, TablesTyped
<1>4. ASSUME NEW d \in Domains, StartPeople(d)
      PROVE  ProviderTyped' /\ TablesTyped' /\ ScansTyped'
  <2>1. ps' \in PeopleScans /\ ps'.seen = {}
    BY <1>4, StartPeopleIs
  <2>2. UNCHANGED <<providerVars, tableVars, phase, rs>>
    BY <1>4 DEF StartPeople
  <2> QED
    BY <2>1, <2>2, <1>p, <1>t, <1>r, FS_EmptySet DEF ScansTyped
<1>5. ASSUME NEW d \in Domains, StartRelations(d)
      PROVE  ProviderTyped' /\ TablesTyped' /\ ScansTyped'
  <2>1. rs' \in RelationScans
    BY <1>5, StartRelationsIs
  <2>2. UNCHANGED <<providerVars, tableVars, phase, ps>>
    BY <1>5 DEF StartRelations
  <2> QED
    BY <2>1, <2>2, <1>p, <1>t, <1>s DEF ScansTyped
<1>6. ASSUME PeoplePage
      PROVE  ProviderTyped' /\ TablesTyped' /\ ScansTyped'
  <2>1. ps' \in PeopleScans /\ IsFiniteSet(ps'.seen)
    BY <1>6, PeoplePageIs
  <2>2. UNCHANGED <<providerVars, tableVars, phase, rs>>
    BY <1>6 DEF PeoplePage
  <2> QED
    BY <2>1, <2>2, <1>p, <1>t, <1>r DEF ScansTyped
<1>7. ASSUME ReconcilePeople
      PROVE  ProviderTyped' /\ TablesTyped' /\ ScansTyped'
  <2>1. PICK d : d = ps.domain
    OBVIOUS
  <2>2. /\ people' \in [Domains -> [ExternalIds -> PersonRows]]
        /\ allocated' \in 0..MaxPersons /\ clock' \in 0..MaxSyncs
    BY <1>7, <2>1, ReconciledIs
  <2>3. /\ UNCHANGED <<providerVars, sources, relations, phase>>
        /\ ps' = NoPeopleSync
        /\ rs' = [rs EXCEPT !.quiet = (rs.at = "idle" \/ rs.domain # ps.domain)]
    BY <1>7 DEF ReconcilePeople
  <2>4. rs' \in RelationScans
    BY <2>3, <1>0, QuietIs, (rs.at = "idle" \/ rs.domain # ps.domain) \in BOOLEAN DEF ScansTyped
  <2> QED
    BY <2>2, <2>3, <2>4, <1>0, <1>p, <1>i DEF ScansTyped, TablesTyped
<1>8. ASSUME AbandonPeople
      PROVE  ProviderTyped' /\ TablesTyped' /\ ScansTyped'
  BY <1>8, <1>p, <1>t, <1>r, <1>i DEF AbandonPeople, ScansTyped
<1>9. ASSUME RelationPage
      PROVE  ProviderTyped' /\ TablesTyped' /\ ScansTyped'
  <2>1. PICK e : e = Turn(rs.todo)
    OBVIOUS
  <2>2. rs' \in RelationScans
    BY <1>9, <2>1, RelationPageIs
  <2>3. UNCHANGED <<providerVars, tableVars, phase, ps>>
    BY <1>9 DEF RelationPage
  <2> QED
    BY <2>2, <2>3, <1>p, <1>t, <1>s DEF ScansTyped
<1>10. ASSUME ReadRelations
       PROVE  ProviderTyped' /\ TablesTyped' /\ ScansTyped'
  <2>1. rs' \in RelationScans
    BY <1>10, ReadRelationsIs
  <2>2. UNCHANGED <<providerVars, tableVars, phase, ps>>
    BY <1>10 DEF ReadRelations
  <2> QED
    BY <2>1, <2>2, <1>p, <1>t, <1>s DEF ScansTyped
<1>11. ASSUME WriteRelations
       PROVE  ProviderTyped' /\ TablesTyped' /\ ScansTyped'
  <2> DEFINE d == rs.domain
             new == ReconcileRelations(relations[d], rs.mapped, rs.existing, clock')
  <2>1. /\ relations' = [relations EXCEPT ![d] = new] /\ clock' \in 0..MaxSyncs
        /\ UNCHANGED <<providerVars, sources, people, allocated, phase, ps>>
        /\ rs' = NoRelationSync
    BY <1>11, <1>0, <1>n DEF WriteRelations, TablesTyped
  <2>2. d \in Domains /\ relations[d] \in [Pairs -> NoRelation..MaxSyncs]
    BY <1>0 DEF ScansTyped, RelationScans, TablesTyped
  <2>3. \A i \in 0..MaxSyncs : i \in NoRelation..MaxSyncs
    BY <1>n DEF NoRelation
  <2>4. Active \in NoRelation..MaxSyncs /\ clock' \in NoRelation..MaxSyncs
    BY <2>1, <2>3, <1>n DEF Active
  <2>5. new \in [Pairs -> NoRelation..MaxSyncs]
    BY <2>2, <2>4 DEF ReconcileRelations
  <2> HIDE DEF d, new
  <2>6. relations' \in [Domains -> [Pairs -> NoRelation..MaxSyncs]]
    BY <2>1, <2>2, <2>5, <1>0 DEF TablesTyped
  <2> QED
    BY <2>1, <2>6, <1>0, <1>p, <1>s, <1>i DEF ScansTyped, TablesTyped
<1>12. ASSUME AbandonRelations
       PROVE  ProviderTyped' /\ TablesTyped' /\ ScansTyped'
  BY <1>12, <1>p, <1>t, <1>s, <1>i DEF AbandonRelations, ScansTyped
<1>13. ASSUME BackfillSources
       PROVE  ProviderTyped' /\ TablesTyped' /\ ScansTyped'
  <2> DEFINE States == {"none", "active", "inactive"}
             moved == Backfilled(sources["legacy"], sources["scope"])
             none == [a \in Photos |-> "none"]
  <2>1. /\ sources' = [legacy |-> none, scope |-> moved]
        /\ UNCHANGED <<providerVars, people, relations, allocated, clock, phase, ps, rs>>
    BY <1>13 DEF BackfillSources
  <2>2. sources["legacy"] \in [Photos -> States] /\ sources["scope"] \in [Photos -> States]
    BY <1>0 DEF TablesTyped, Domains
  <2>3. moved \in [Photos -> States] /\ none \in [Photos -> States]
    BY <2>2 DEF Backfilled
  <2> HIDE DEF moved, none
  <2>4. sources' \in [Domains -> [Photos -> States]]
    BY <2>1, <2>3 DEF Domains
  <2> QED
    BY <2>1, <2>4, <1>0, <1>p, <1>s, <1>r DEF ScansTyped, TablesTyped
<1>14. ASSUME TransitionPersons
       PROVE  ProviderTyped' /\ TablesTyped' /\ ScansTyped'
  <2> DEFINE new == CopiedPersons(people["legacy"], people["scope"])
  <2>1. /\ people' = [people EXCEPT !["scope"] = new]
        /\ UNCHANGED <<providerVars, sources, relations, allocated, clock, phase, ps, rs>>
    BY <1>14 DEF TransitionPersons
  <2>2. /\ people["legacy"] \in [ExternalIds -> PersonRows]
        /\ people["scope"] \in [ExternalIds -> PersonRows]
    BY <1>0 DEF TablesTyped, Domains
  <2>3. new \in [ExternalIds -> PersonRows]
    BY <2>2 DEF CopiedPersons
  <2> HIDE DEF new
  <2>4. people' \in [Domains -> [ExternalIds -> PersonRows]]
    BY <2>1, <2>3, <1>0 DEF TablesTyped, Domains
  <2> QED
    BY <2>1, <2>4, <1>0, <1>p, <1>s, <1>r DEF ScansTyped, TablesTyped
<1>15. ASSUME TransitionRelations
       PROVE  ProviderTyped' /\ TablesTyped' /\ ScansTyped'
  <2> DEFINE new == CopiedRelations(relations["legacy"], relations["scope"])
             Rows == [Pairs -> NoRelation..MaxSyncs]
  <2>1. /\ relations' = [relations EXCEPT !["scope"] = new]
        /\ UNCHANGED <<providerVars, sources, people, allocated, clock, phase, ps, rs>>
    BY <1>15 DEF TransitionRelations
  <2>2. relations["legacy"] \in Rows /\ relations["scope"] \in Rows
    BY <1>0 DEF TablesTyped, Domains
  <2>3. new \in Rows
    BY <2>2 DEF CopiedRelations
  <2> HIDE DEF new
  <2>4. relations' \in [Domains -> Rows]
    BY <2>1, <2>3, <1>0 DEF TablesTyped, Domains
  <2> QED
    BY <2>1, <2>4, <1>0, <1>p, <1>s, <1>r DEF ScansTyped, TablesTyped
<1>16. ASSUME StopLegacy \/ EnableScope
       PROVE  ProviderTyped' /\ TablesTyped' /\ ScansTyped'
  <2>1. UNCHANGED <<providerVars, tableVars, ps, rs>> /\ phase' \in {"legacy", "stopped", "scope"}
    BY <1>16 DEF StopLegacy, EnableScope
  <2> QED
    BY <2>1, <1>0, <1>p, <1>s, <1>r DEF ScansTyped, TablesTyped, tableVars
<1> QED
  BY <1>1, <1>2, <1>3, <1>4, <1>5, <1>6, <1>7, <1>8, <1>9, <1>10, <1>11, <1>12,
     <1>13, <1>14, <1>15, <1>16 DEF PersonNext

LEMMA DomainsStep ==
    ASSUME PersonTypes, OneDomainWrites, PersonNext
    PROVE  OneDomainWrites'
<1> DEFINE Kept == /\ ps'.at \in {ps.at, "idle"} /\ (ps'.at # "idle" => ps'.domain = ps.domain)
                   /\ rs'.at \in {rs.at, "idle"} /\ (rs'.at # "idle" => rs'.domain = rs.domain)
<1>0. ps \in PeopleScans /\ rs \in RelationScans /\ phase \in {"legacy", "stopped", "scope"}
  BY DEF PersonTypes, PersonTypeOK
<1>k. Kept /\ phase' = phase => OneDomainWrites'
  BY DEF OneDomainWrites
<1>1. ASSUME \/ \E e \in ExternalIds : PeopleChange(e)
             \/ \E a \in Photos, e \in ExternalIds : TagChange(a, e)
      PROVE  Kept /\ phase' = phase
  <2>1. PICK new \in SUBSET ExternalIds : Changed(new)
    <3>1. CASE \E e \in ExternalIds : PeopleChange(e)
      <4>1. PICK e \in ExternalIds : PeopleChange(e)
        BY <3>1
      <4> QED
        BY <4>1 DEF PeopleChange, PersonTypes, PersonTypeOK
    <3>2. CASE \E a \in Photos, e \in ExternalIds : TagChange(a, e)
      BY <3>2 DEF TagChange, PersonTypes, PersonTypeOK
    <3> QED
      BY <1>1, <3>1, <3>2
  <2>2. ps'.at = ps.at /\ ps'.domain = ps.domain /\ rs'.at = rs.at /\ rs'.domain = rs.domain
    BY <2>1, ChangedIs
  <2> QED
    BY <2>2, <1>1 DEF PeopleChange, TagChange
<1>2. ASSUME NEW d \in Domains, NEW a \in Photos, Ingest(d, a)
      PROVE  Kept /\ phase' = phase
  <2>1. rs' = [rs EXCEPT !.quiet = (rs.at = "idle")]
    BY <1>2 DEF Ingest
  <2>2. rs'.at = rs.at /\ rs'.domain = rs.domain
    BY <2>1, <1>0, QuietIs, (rs.at = "idle") \in BOOLEAN
  <2> QED
    BY <2>2, <1>2 DEF Ingest
<1>3. ASSUME NEW d \in Domains, StartPeople(d)
      PROVE  OneDomainWrites'
  <2>1. ps'.domain = d /\ phase = d /\ rs' = rs /\ phase' = phase
    BY <1>3, StartPeopleIs DEF StartPeople, MayWrite
  <2>2. d = "scope" => rs.at = "idle"
    BY <1>3 DEF StartPeople, MayWrite, LockIsFree, OneDomainWrites
  <2> QED
    BY <2>1, <2>2 DEF OneDomainWrites
<1>4. ASSUME NEW d \in Domains, StartRelations(d)
      PROVE  OneDomainWrites'
  <2>1. rs'.domain = d /\ phase = d /\ ps' = ps /\ phase' = phase
    BY <1>4, StartRelationsIs DEF StartRelations, MayWrite
  <2>2. d = "scope" => ps.at = "idle"
    BY <1>4 DEF StartRelations, MayWrite, LockIsFree, OneDomainWrites
  <2> QED
    BY <2>1, <2>2 DEF OneDomainWrites
<1>5. ASSUME PeoplePage
      PROVE  OneDomainWrites'
  <2>1. ps.at = "scanning" /\ ps'.domain = ps.domain /\ rs' = rs /\ phase' = phase
    BY <1>5, PeoplePageIs DEF PeoplePage
  <2> QED
    BY <2>1 DEF OneDomainWrites
<1>6. ASSUME ReconcilePeople
      PROVE  Kept /\ phase' = phase
  <2>1. /\ rs' = [rs EXCEPT !.quiet = (rs.at = "idle" \/ rs.domain # ps.domain)]
        /\ ps' = NoPeopleSync /\ phase' = phase
    BY <1>6 DEF ReconcilePeople
  <2>2. rs'.at = rs.at /\ rs'.domain = rs.domain
    BY <2>1, <1>0, QuietIs, (rs.at = "idle" \/ rs.domain # ps.domain) \in BOOLEAN
  <2> QED
    BY <2>1, <2>2, IdleIs
<1>7. ASSUME AbandonPeople \/ WriteRelations \/ AbandonRelations
      PROVE  Kept /\ phase' = phase
  BY <1>7, IdleIs DEF AbandonPeople, WriteRelations, AbandonRelations, tableVars
<1>8. ASSUME RelationPage \/ ReadRelations
      PROVE  OneDomainWrites'
  <2>1. rs.at = "scanning" /\ ps' = ps /\ phase' = phase
    BY <1>8 DEF RelationPage, ReadRelations
  <2>2. rs'.domain = rs.domain
    <3>1. CASE RelationPage
      <4>1. PICK e : e = Turn(rs.todo)
        OBVIOUS
      <4> QED
        BY <3>1, <4>1, RelationPageIs
    <3> QED
      BY <1>8, <3>1, ReadRelationsIs
  <2> QED
    BY <2>1, <2>2 DEF OneDomainWrites
<1>9. ASSUME BackfillSources \/ TransitionPersons \/ TransitionRelations
      PROVE  Kept /\ phase' = phase
  BY <1>9 DEF BackfillSources, TransitionPersons, TransitionRelations
<1>10. ASSUME StopLegacy
       PROVE  OneDomainWrites'
  BY <1>10 DEF StopLegacy, OneDomainWrites
<1>11. ASSUME EnableScope
       PROVE  OneDomainWrites'
  <2>1. phase = "stopped" /\ ps' = ps /\ rs' = rs
    BY <1>11 DEF EnableScope
  <2>2. ps.domain # "stopped" /\ rs.domain # "stopped"
    BY <1>0 DEF PeopleScans, RelationScans, Domains
  <2> QED
    BY <2>1, <2>2 DEF OneDomainWrites
<1> HIDE DEF Kept
<1> QED
  BY <1>k, <1>1, <1>2, <1>3, <1>4, <1>5, <1>6, <1>7, <1>8, <1>9, <1>10, <1>11 DEF PersonNext

LEMMA KnownIs ==
    ASSUME NEW table
    PROVE  /\ Known(table) \subseteq ExternalIds
           /\ \A e \in ExternalIds : e \in Known(table) <=> table[e].person # 0
BY DEF Known, HasRow

LEMMA CopiedIs ==
    ASSUME PersonTypes, OneDomainWrites, PersonsAreNumbered, TransitionPersons
    PROVE  /\ people'["legacy"] = people["legacy"] /\ phase # "scope"
           /\ Known(people'["scope"]) = Known(people["legacy"])
           /\ \A e \in Known(people["legacy"]) : people'["scope"][e] = people["legacy"][e]
           /\ \A e \in Known(people["scope"]) :
                  people'["scope"][e] = people["scope"][e] /\ people["legacy"][e] = people["scope"][e]
<1> DEFINE old == people["legacy"]
           own == people["scope"]
           new == CopiedPersons(old, own)
<1>1. TablesTyped
  BY TypesAre
<1>2. people' = [people EXCEPT !["scope"] = new] /\ PersonsReady(old, own) /\ phase # "scope"
  BY DEF TransitionPersons
<1>3. people'["legacy"] = old /\ people'["scope"] = new
  <2> HIDE DEF new
  <2> QED
    BY <1>1, <1>2 DEF TablesTyped, Domains
<1>4. Known(own) \subseteq Known(old)
  BY <1>2 DEF PersonsAreNumbered
<1>5. \A e \in ExternalIds : new[e] = IF e \in Known(own) THEN own[e] ELSE old[e]
  BY DEF CopiedPersons, Known
<1>6. \A e \in Known(own) : own[e] = old[e] /\ own[e].person # 0
  <2> TAKE e \in Known(own)
  <2>1. e \in Known(old) /\ own[e].person # 0
    BY <1>4, KnownIs DEF Known, HasRow
  <2>2. own[e] \in {NoRow, old[e]}
    BY <2>1, <1>2 DEF PersonsReady
  <2>3. NoRow.person = 0
    BY DEF NoRow
  <2> QED
    BY <2>1, <2>2, <2>3
<1>7. \A e \in ExternalIds : new[e] = old[e]
  BY <1>5, <1>6
<1> HIDE DEF new
<1>8. Known(new) = Known(old)
  BY <1>7 DEF Known, HasRow
<1>9. \A e \in Known(old) : new[e] = old[e]
  BY <1>7, KnownIs
<1>10. \A e \in Known(own) : new[e] = own[e] /\ old[e] = own[e]
  BY <1>6, <1>7, KnownIs
<1> QED
  BY <1>2, <1>3, <1>8, <1>9, <1>10

LEMMA NumberedStep ==
    ASSUME PersonTypes, OneDomainWrites, PersonsAreNumbered, PersonNext
    PROVE  PersonsAreNumbered'
<1>0. /\ allocated \in Nat /\ phase \in {"legacy", "stopped", "scope"}
      /\ ps.domain \in Domains
  BY PersonSyncAssumption DEF PersonTypes, PersonTypeOK
<1>1. ASSUME UNCHANGED <<people, allocated>>, phase' = phase \/ StopLegacy
      PROVE  PersonsAreNumbered'
  BY <1>1 DEF PersonsAreNumbered, StopLegacy
<1>2. ASSUME EnableScope
      PROVE  PersonsAreNumbered'
  <2>1. UNCHANGED <<people, allocated>> /\ people["scope"] = people["legacy"]
    BY <1>2 DEF EnableScope, tableVars
  <2> QED
    BY <2>1 DEF PersonsAreNumbered
<1>3. ASSUME TransitionPersons
      PROVE  PersonsAreNumbered'
  <2> DEFINE K == Known(people["legacy"])
  <2>1. /\ people'["legacy"] = people["legacy"] /\ phase # "scope"
        /\ Known(people'["scope"]) = K
        /\ \A e \in K : people'["scope"][e] = people["legacy"][e]
    BY <1>3, CopiedIs
  <2>2. /\ Known(people'["legacy"]) = K
        /\ \A e \in K : people'["legacy"][e] = people["legacy"][e]
    BY <2>1
  <2>3. \A d \in Domains : /\ Known(people'[d]) = K
                           /\ \A e \in K : people'[d][e] = people["legacy"][e]
    BY <2>1, <2>2 DEF Domains
  <2>4. phase' = phase /\ allocated' = allocated
    BY <1>3 DEF TransitionPersons
  <2>5. /\ \A e \in K : people["legacy"][e].person \in 1..allocated
        /\ \A e, f \in K : people["legacy"][e].person = people["legacy"][f].person => e = f
    BY DEF PersonsAreNumbered, Domains
  <2> HIDE DEF K
  <2>6. \A d \in Domains : \A e \in Known(people'[d]) : people'[d][e].person \in 1..allocated'
    BY <2>3, <2>4, <2>5
  <2>7. \A d \in Domains : \A e, f \in Known(people'[d]) :
          people'[d][e].person = people'[d][f].person => e = f
    BY <2>3, <2>5
  <2>8. \A e \in Known(people'["legacy"]) \cap Known(people'["scope"]) :
          people'["legacy"][e].person = people'["scope"][e].person
    BY <2>3 DEF Domains
  <2>9. phase' # "scope" /\ Known(people'["scope"]) \subseteq Known(people'["legacy"])
    BY <2>1, <2>2, <2>4
  <2> QED
    BY <2>6, <2>7, <2>8, <2>9 DEF PersonsAreNumbered
<1>4. ASSUME ReconcilePeople
      PROVE  PersonsAreNumbered'
  <2>1. PICK d : d = ps.domain
    OBVIOUS
  <2> DEFINE K(c) == Known(people[c])
             L(c) == Known(people'[c])
             p(c, e) == people[c][e].person
             q(c, e) == people'[c][e].person
             n == allocated'
  <2>2. /\ d \in Domains
        /\ \A c \in Domains \ {d} : people'[c] = people[c]
        /\ L(d) = K(d) \cup ps.seen
        /\ \A e \in K(d) : q(d, e) = p(d, e)
        /\ \A e \in ps.seen \ K(d) : q(d, e) \in (allocated + 1)..n
        /\ \A e, f \in ps.seen \ K(d) : q(d, e) = q(d, f) => e = f
        /\ n \in Nat /\ allocated \in Nat /\ allocated <= n
    BY <1>4, <2>1, ReconciledIs
  <2>3. \A c \in Domains \ {d} : L(c) = K(c) /\ \A e \in K(c) : q(c, e) = p(c, e)
    BY <2>2
  <2>4. phase' = phase /\ phase = d
    BY <1>4, <2>1 DEF ReconcilePeople, OneDomainWrites
  <2>5. /\ \A c \in Domains : \A e \in K(c) : p(c, e) \in 1..allocated
        /\ \A c \in Domains : \A e, f \in K(c) : p(c, e) = p(c, f) => e = f
        /\ \A e \in K("legacy") \cap K("scope") : p("legacy", e) = p("scope", e)
        /\ IF phase = "scope" THEN K("legacy") \subseteq K("scope")
           ELSE K("scope") \subseteq K("legacy")
    BY DEF PersonsAreNumbered
  <2> HIDE DEF K, L, p, q, n
  <2>6. \A c \in Domains : \A e \in K(c) : e \in L(c) /\ q(c, e) = p(c, e)
    BY <2>2, <2>3
  <2>7. \A c \in Domains : \A e \in L(c) :
          e \in K(c) \/ (c = d /\ e \in ps.seen \ K(d) /\ q(c, e) \in (allocated + 1)..n)
    BY <2>2, <2>3
  <2>8. /\ \A k \in 1..allocated : k \in 1..n
        /\ \A k \in (allocated + 1)..n : k \in 1..n /\ k \notin 1..allocated
    BY <2>2
  <2>9. \A c \in Domains : \A e \in L(c) : q(c, e) \in 1..n
    BY <2>5, <2>6, <2>7, <2>8
  <2>10. \A c \in Domains : \A e, f \in L(c) : q(c, e) = q(c, f) => e = f
    <3> SUFFICES ASSUME NEW c \in Domains, NEW e \in L(c), NEW f \in L(c), q(c, e) = q(c, f)
                 PROVE  e = f
      OBVIOUS
    <3>1. CASE e \in K(c) /\ f \in K(c)
      BY <3>1, <2>5, <2>6
    <3>2. CASE e \notin K(c) /\ f \notin K(c)
      BY <3>2, <2>2, <2>7
    <3>3. CASE ~ (e \in K(c) <=> f \in K(c))
      BY <3>3, <2>5, <2>6, <2>7, <2>8
    <3> QED
      BY <3>1, <3>2, <3>3
  <2>11. CASE d = "legacy"
    <3>1. L("scope") = K("scope") /\ K("scope") \subseteq K("legacy") /\ K("legacy") \subseteq L("legacy")
      BY <2>11, <2>2, <2>3, <2>4, <2>5 DEF Domains
    <3>2. \A e \in L("legacy") \cap L("scope") : q("legacy", e) = q("scope", e)
      BY <3>1, <2>5, <2>6 DEF Domains
    <3>3. phase' # "scope" /\ L("scope") \subseteq L("legacy")
      BY <3>1, <2>4, <2>11
    <3> QED
      BY <3>2, <3>3, <2>9, <2>10 DEF PersonsAreNumbered, L, q, n
  <2>12. CASE d = "scope"
    <3>1. L("legacy") = K("legacy") /\ K("legacy") \subseteq K("scope") /\ K("scope") \subseteq L("scope")
      BY <2>12, <2>2, <2>3, <2>4, <2>5 DEF Domains
    <3>2. \A e \in L("legacy") \cap L("scope") : q("legacy", e) = q("scope", e)
      BY <3>1, <2>5, <2>6 DEF Domains
    <3>3. phase' = "scope" /\ L("legacy") \subseteq L("scope")
      BY <3>1, <2>4, <2>12
    <3> QED
      BY <3>2, <3>3, <2>9, <2>10 DEF PersonsAreNumbered, L, q, n
  <2> QED
    BY <2>2, <2>11, <2>12 DEF Domains
<1>5. \/ UNCHANGED <<people, allocated>> /\ (phase' = phase \/ StopLegacy)
      \/ EnableScope \/ TransitionPersons \/ ReconcilePeople
  BY DEF PersonNext, PeopleChange, TagChange, Ingest, StartPeople, StartRelations, PeoplePage,
         AbandonPeople, RelationPage, ReadRelations, WriteRelations, AbandonRelations,
         BackfillSources, TransitionRelations, StopLegacy, tableVars
<1> QED
  BY <1>1, <1>2, <1>3, <1>4, <1>5

LEMMA NumberedIs == PersonsAreNumbered => OnePersonPerIdentity
<1> SUFFICES ASSUME PersonsAreNumbered, NEW c \in Domains, NEW d \in Domains,
                    NEW e \in Known(people[c]), NEW f \in Known(people[d])
             PROVE  people[c][e].person = people[d][f].person <=> e = f
  BY DEF OnePersonPerIdentity
<1>1. /\ \A b \in Domains : \A g, h \in Known(people[b]) :
           people[b][g].person = people[b][h].person => g = h
      /\ \A g \in Known(people["legacy"]) \cap Known(people["scope"]) :
           people["legacy"][g].person = people["scope"][g].person
      /\ \/ Known(people["legacy"]) \subseteq Known(people["scope"])
         \/ Known(people["scope"]) \subseteq Known(people["legacy"])
  BY DEF PersonsAreNumbered
<1>2. CASE c = d
  BY <1>1, <1>2
<1>3. CASE c = "legacy" /\ d = "scope"
  BY <1>1, <1>3 DEF Domains
<1>4. CASE c = "scope" /\ d = "legacy"
  BY <1>1, <1>4 DEF Domains
<1> QED
  BY <1>2, <1>3, <1>4 DEF Domains

\* What counts as evidence in the Scope is never taken back.
EvidenceGrows ==
    /\ \A a \in Photos : sources["scope"][a] # "none" => sources'["scope"][a] # "none"
    /\ \A e \in Known(people["scope"]) : people'["scope"][e].person = people["scope"][e].person

LEMMA GrowsStep ==
    ASSUME PersonTypes, OneDomainWrites, PersonsAreNumbered, PersonNext
    PROVE  EvidenceGrows
<1>0. TablesTyped /\ ScansTyped
  BY TypesAre
<1>1. UNCHANGED sources => \A a \in Photos : sources["scope"][a] # "none" => sources'["scope"][a] # "none"
  OBVIOUS
<1>2. UNCHANGED people => \A e \in Known(people["scope"]) :
                              people'["scope"][e].person = people["scope"][e].person
  OBVIOUS
<1>3. ASSUME UNCHANGED <<sources, people>>
      PROVE  EvidenceGrows
  BY <1>1, <1>2, <1>3 DEF EvidenceGrows
<1>4. ASSUME NEW d \in Domains, NEW b \in Photos, Ingest(d, b)
      PROVE  EvidenceGrows
  <2>1. UNCHANGED people
    BY <1>4 DEF Ingest
  <2>2. sources' = [sources EXCEPT ![d][b] = IF @ = "active" THEN "inactive" ELSE "active"]
    BY <1>4 DEF Ingest
  <2>3. \A a \in Photos : sources'["scope"][a] \in {sources["scope"][a], "active", "inactive"}
    BY <2>2, <1>0 DEF TablesTyped, Domains
  <2> QED
    BY <2>1, <2>3, <1>2 DEF EvidenceGrows
<1>5. ASSUME ReconcilePeople
      PROVE  EvidenceGrows
  <2>1. PICK d : d = ps.domain
    OBVIOUS
  <2>2. /\ d \in Domains /\ \A c \in Domains \ {d} : people'[c] = people[c]
        /\ \A e \in Known(people[d]) : people'[d][e].person = people[d][e].person
    BY <1>5, <2>1, ReconciledIs
  <2>3. \A e \in Known(people["scope"]) : people'["scope"][e].person = people["scope"][e].person
    <3>1. CASE d = "scope"
      BY <2>2, <3>1
    <3>2. CASE d # "scope"
      <4>1. people'["scope"] = people["scope"]
        BY <2>2, <3>2 DEF Domains
      <4> QED
        BY <4>1
    <3> QED
      BY <3>1, <3>2
  <2>4. UNCHANGED sources
    BY <1>5 DEF ReconcilePeople
  <2> QED
    BY <2>3, <2>4, <1>1 DEF EvidenceGrows
<1>6. ASSUME BackfillSources
      PROVE  EvidenceGrows
  <2>1. sources'["scope"] = Backfilled(sources["legacy"], sources["scope"]) /\ UNCHANGED people
    BY <1>6 DEF BackfillSources
  <2>2. \A a \in Photos : sources["scope"][a] # "none" => sources'["scope"][a] # "none"
    BY <2>1 DEF Backfilled
  <2> QED
    BY <2>1, <2>2, <1>2 DEF EvidenceGrows
<1>7. ASSUME TransitionPersons
      PROVE  EvidenceGrows
  <2>1. \A e \in Known(people["scope"]) : people'["scope"][e] = people["scope"][e]
    BY <1>7, CopiedIs
  <2>2. UNCHANGED sources
    BY <1>7 DEF TransitionPersons
  <2> QED
    BY <2>1, <2>2, <1>1 DEF EvidenceGrows
<1>8. \/ UNCHANGED <<sources, people>>
      \/ \E d \in Domains, a \in Photos : Ingest(d, a)
      \/ ReconcilePeople \/ BackfillSources \/ TransitionPersons
  BY DEF PersonNext, PeopleChange, TagChange, StartPeople, StartRelations, PeoplePage,
         AbandonPeople, RelationPage, ReadRelations, WriteRelations, AbandonRelations,
         TransitionRelations, StopLegacy, EnableScope, tableVars
<1> QED
  BY <1>3, <1>4, <1>5, <1>6, <1>7, <1>8

LEMMA EvidenceStays ==
    ASSUME EvidenceGrows, NEW p \in Pairs, Evidenced(sources["scope"], people["scope"], p)
    PROVE  Evidenced(sources'["scope"], people'["scope"], p)
<1>1. PICK a \in Photos : sources["scope"][a] # "none" /\ ResourceOf[a] = p[1]
  BY DEF Evidenced, HasResourceEvidence
<1>2. PICK e \in ExternalIds : people["scope"][e].person = p[2]
  BY DEF Evidenced, HasPersonEvidence
<1>3. p[2] # 0
  BY PersonSyncAssumption DEF Pairs
<1>4. e \in Known(people["scope"])
  BY <1>2, <1>3, KnownIs
<1>5. sources'["scope"][a] # "none" /\ people'["scope"][e].person = p[2]
  BY <1>1, <1>2, <1>4 DEF EvidenceGrows
<1> QED
  BY <1>1, <1>5 DEF Evidenced, HasResourceEvidence, HasPersonEvidence

LEMMA RowsKeptOrEvidenced ==
    ASSUME PersonTypes, EvidenceIsThere, PersonNext
    PROVE  \A p \in Pairs : relations'["scope"][p] # NoRelation =>
               Evidenced(sources["scope"], people["scope"], p)
<1>0. TablesTyped /\ ScansTyped
  BY TypesAre
<1>1. \A p \in Pairs : relations["scope"][p] # NoRelation =>
          Evidenced(sources["scope"], people["scope"], p)
  BY DEF EvidenceIsThere, RelationsHaveEvidence
<1>2. CASE UNCHANGED relations
  BY <1>1, <1>2
<1>3. CASE WriteRelations
  <2> DEFINE d == rs.domain
             new == ReconcileRelations(relations[d], rs.mapped, rs.existing, clock')
  <2>1. relations' = [relations EXCEPT ![d] = new] /\ rs.at = "read" /\ d \in Domains
    BY <1>3, <1>0 DEF WriteRelations, ScansTyped, RelationScans
  <2>2. \A p \in Pairs : p \in rs.mapped \/ new[p] = relations[d][p] \/ relations[d][p] = Active
    BY DEF ReconcileRelations
  <2> HIDE DEF new
  <2>3. CASE d # "scope"
    <3>1. relations'["scope"] = relations["scope"]
      BY <2>1, <2>3, <1>0 DEF TablesTyped, Domains
    <3> QED
      BY <3>1, <1>1
  <2>4. CASE d = "scope"
    <3>1. relations'["scope"] = new
      BY <2>1, <2>4, <1>0 DEF TablesTyped, Domains
    <3>2. \A p \in rs.mapped : Evidenced(sources["scope"], people["scope"], p)
      BY <2>1, <2>4 DEF EvidenceIsThere
    <3>3. Active # NoRelation
      BY DEF Active, NoRelation
    <3> QED
      BY <3>1, <3>2, <3>3, <2>2, <2>4, <1>1
  <2> QED
    BY <2>3, <2>4
<1>4. CASE TransitionRelations
  <2> DEFINE old == relations["legacy"]
             own == relations["scope"]
             new == CopiedRelations(old, own)
  <2>1. /\ relations' = [relations EXCEPT !["scope"] = new]
        /\ RelationsReady(old, own, sources["scope"], people["scope"])
    BY <1>4 DEF TransitionRelations
  <2>2. \A p \in Pairs : new[p] # NoRelation => own[p] # NoRelation \/ old[p] # NoRelation
    BY DEF CopiedRelations
  <2> HIDE DEF new
  <2>3. relations'["scope"] = new
    BY <2>1, <1>0 DEF TablesTyped, Domains
  <2>4. \A p \in Pairs : old[p] # NoRelation => Evidenced(sources["scope"], people["scope"], p)
    BY <2>1 DEF RelationsReady
  <2> QED
    BY <2>2, <2>3, <2>4, <1>1
<1>5. UNCHANGED relations \/ WriteRelations \/ TransitionRelations
  BY DEF PersonNext, PeopleChange, TagChange, Ingest, StartPeople, StartRelations, PeoplePage,
         ReconcilePeople, AbandonPeople, RelationPage, ReadRelations, AbandonRelations,
         BackfillSources, TransitionPersons, StopLegacy, EnableScope, tableVars
<1> QED
  BY <1>2, <1>3, <1>4, <1>5

\* What was read stays as it was read until the synchronization ends.
LEMMA ReadStays ==
    ASSUME PersonTypes, PersonNext, rs'.at = "read"
    PROVE  \/ ReadRelations
           \/ /\ rs.at = "read" /\ rs'.domain = rs.domain
              /\ rs'.mapped = rs.mapped /\ rs'.existing = rs.existing
              /\ rs'.quiet \in BOOLEAN
<1> DEFINE Same == /\ rs'.at = rs.at /\ rs'.domain = rs.domain /\ rs'.mapped = rs.mapped
                   /\ rs'.existing = rs.existing
<1>0. rs \in RelationScans
  BY DEF PersonTypes
<1>t. rs' \in RelationScans
  BY TypesStep DEF PersonTypes
<1>1. ASSUME NEW new \in SUBSET ExternalIds, Changed(new) PROVE Same
  BY <1>1, ChangedIs
<1>2. ASSUME NEW e \in ExternalIds, PeopleChange(e) PROVE Same
  BY <1>2, <1>1 DEF PeopleChange, PersonTypes, PersonTypeOK
<1>3. ASSUME NEW a \in Photos, NEW e \in ExternalIds, TagChange(a, e) PROVE Same
  BY <1>3, <1>1 DEF TagChange, PersonTypes, PersonTypeOK
<1>4. ASSUME NEW d \in Domains, NEW a \in Photos, Ingest(d, a) PROVE Same
  <2>1. rs' = [rs EXCEPT !.quiet = (rs.at = "idle")]
    BY <1>4 DEF Ingest
  <2> QED
    BY <2>1, <1>0, QuietIs, (rs.at = "idle") \in BOOLEAN
<1>5. ASSUME ReconcilePeople PROVE Same
  <2>1. rs' = [rs EXCEPT !.quiet = (rs.at = "idle" \/ rs.domain # ps.domain)]
    BY <1>5 DEF ReconcilePeople
  <2> QED
    BY <2>1, <1>0, QuietIs, (rs.at = "idle" \/ rs.domain # ps.domain) \in BOOLEAN
<1>6. ASSUME NEW d \in Domains, StartRelations(d) PROVE FALSE
  BY <1>6, StartRelationsIs
<1>7. ASSUME RelationPage PROVE FALSE
  <2>1. PICK e : e = Turn(rs.todo)
    OBVIOUS
  <2> QED
    BY <1>7, <2>1, RelationPageIs
<1>8. ASSUME WriteRelations \/ AbandonRelations PROVE FALSE
  BY <1>8, IdleIs DEF WriteRelations, AbandonRelations
<1>9. \/ UNCHANGED rs
      \/ \E e \in ExternalIds : PeopleChange(e)
      \/ \E a \in Photos, e \in ExternalIds : TagChange(a, e)
      \/ \E d \in Domains, a \in Photos : Ingest(d, a)
      \/ \E d \in Domains : StartRelations(d)
      \/ ReconcilePeople \/ RelationPage \/ ReadRelations \/ WriteRelations \/ AbandonRelations
  BY DEF PersonNext, StartPeople, PeoplePage, AbandonPeople, BackfillSources, TransitionPersons,
         TransitionRelations, StopLegacy, EnableScope
<1>10. Same \/ ReadRelations
  BY <1>2, <1>3, <1>4, <1>5, <1>6, <1>7, <1>8, <1>9
<1> QED
  BY <1>10, <1>t DEF RelationScans

LEMMA EvidenceStep ==
    ASSUME PersonTypes, OneDomainWrites, PersonsAreNumbered, EvidenceIsThere, PersonNext
    PROVE  EvidenceIsThere'
<1>1. \A p \in Pairs : Evidenced(sources["scope"], people["scope"], p) =>
                           Evidenced(sources'["scope"], people'["scope"], p)
  BY GrowsStep, EvidenceStays
<1>2. RelationsHaveEvidence'
  BY <1>1, RowsKeptOrEvidenced DEF RelationsHaveEvidence
<1>3. ASSUME rs'.at = "read", rs'.domain = "scope"
      PROVE  \A p \in rs'.mapped : Evidenced(sources'["scope"], people'["scope"], p)
  <2>0. rs' \in RelationScans
    BY TypesStep DEF PersonTypes
  <2>1. rs'.mapped \subseteq Pairs
    BY <2>0 DEF RelationScans
  <2>2. CASE ReadRelations
    <3>1. /\ rs.domain = "scope"
          /\ rs'.mapped = Mapped(rs.pairs, ActivePhotos("scope"), PersonOf(people["scope"]))
      BY <2>2, <1>3, ReadRelationsIs
    <3>2. /\ rs.pairs \in SUBSET (Photos \X ExternalIds)
          /\ ActivePhotos("scope") \in SUBSET Photos
          /\ people["scope"] \in [ExternalIds -> PersonRows]
      BY TypesAre DEF ScansTyped, RelationScans, ActivePhotos, TablesTyped, Domains
    <3>3. \A p \in rs'.mapped : \E a \in ActivePhotos("scope"), e \in ActiveIds(people["scope"]) :
              p = <<ResourceOf[a], people["scope"][e].person>>
      <4>1. PICK pairs \in SUBSET (Photos \X ExternalIds) : pairs = rs.pairs
        BY <3>2
      <4>2. PICK photos \in SUBSET Photos : photos = ActivePhotos("scope")
        BY <3>2
      <4>3. PICK table \in [ExternalIds -> PersonRows] : table = people["scope"]
        BY <3>2
      <4>4. \A p \in Mapped(pairs, photos, PersonOf(table)) :
                \E a \in photos, e \in ActiveIds(table) :
                    <<a, e>> \in pairs /\ p = <<ResourceOf[a], table[e].person>>
        BY MappedIs
      <4> TAKE p \in rs'.mapped
      <4>5. p \in Mapped(pairs, photos, PersonOf(table))
        BY <3>1, <4>1, <4>2, <4>3
      <4>6. PICK a \in photos, e \in ActiveIds(table) : p = <<ResourceOf[a], table[e].person>>
        BY <4>4, <4>5
      <4>7. a \in ActivePhotos("scope") /\ e \in ActiveIds(people["scope"])
        BY <4>2, <4>3
      <4>8. p = <<ResourceOf[a], people["scope"][e].person>>
        BY <4>3, <4>6
      <4> QED
        BY <4>7, <4>8
    <3>4. \A p \in rs'.mapped : Evidenced(sources["scope"], people["scope"], p)
      <4> TAKE p \in rs'.mapped
      <4>1. PICK a \in ActivePhotos("scope"), e \in ActiveIds(people["scope"]) :
                p = <<ResourceOf[a], people["scope"][e].person>>
        BY <3>3
      <4>2. a \in Photos /\ sources["scope"][a] # "none" /\ e \in ExternalIds
        BY DEF ActivePhotos, ActiveIds
      <4> QED
        BY <4>1, <4>2 DEF Evidenced, HasResourceEvidence, HasPersonEvidence
    <3> QED
      BY <3>4, <2>1, <1>1
  <2>3. CASE rs.at = "read" /\ rs'.domain = rs.domain /\ rs'.mapped = rs.mapped
    BY <2>1, <2>3, <1>1, <1>3 DEF EvidenceIsThere
  <2> QED
    BY <2>2, <2>3, <1>3, ReadStays
<1> QED
  BY <1>2, <1>3 DEF EvidenceIsThere

LEMMA ScanStep ==
    ASSUME PersonTypes, ScanIsInOrder, PersonNext
    PROVE  ScanIsInOrder'
<1>0. /\ ps \in PeopleScans /\ ps.met \in Nat /\ ps.page \in Nat \ {0}
      /\ catalog \in SUBSET Nat /\ IsFiniteSet(catalog) /\ Cardinality(catalog) \in Nat
      /\ catalog \in SUBSET ExternalIds
  BY CatalogIs DEF PersonTypes, PeopleScans
<1>1. ASSUME UNCHANGED <<ps, catalog>>
      PROVE  ScanIsInOrder'
  BY <1>1 DEF ScanIsInOrder, ReadBefore
<1>2. ASSUME ps'.at = "idle"
      PROVE  ScanIsInOrder'
  BY <1>2 DEF ScanIsInOrder
<1>3. ASSUME NEW new \in SUBSET ExternalIds, Changed(new), catalog' = new,
             \/ new = catalog
             \/ IsFiniteSet(new) /\ Cardinality(new) # Cardinality(catalog)
      PROVE  ScanIsInOrder'
  <2>1. /\ ps'.at = ps.at /\ ps'.page = ps.page /\ ps'.total = ps.total /\ ps'.seen = ps.seen
        /\ ps.at # "idle" => ps'.always = ps.always \cap new /\ ps'.met = ps.met + 1
    BY <1>3, ChangedIs
  <2>2. CASE ps.at = "scanning"
    <3>1. ps'.always = ps.always \cap new /\ ps'.met = ps.met + 1
      BY <2>1, <2>2
    <3>2. ps'.met # 0 /\ (ps'.met <= 1 => ps.met = 0)
      BY <3>1, <1>0
    <3>3. ps'.total = -1 => ps'.page = 1 /\ ps'.seen = {}
      BY <2>1, <2>2 DEF ScanIsInOrder
    <3>4. ASSUME ps'.met <= 1, ps'.total \in {-1, Cardinality(new)}
          PROVE  ps'.seen = ReadBefore(new, ps'.page)
      <4>1. ps.met = 0 /\ ps.total \in {-1, Cardinality(catalog)}
        BY <3>2, <3>4, <2>2 DEF ScanIsInOrder
      <4>2. CASE new = catalog
        <5>1. ps.seen = ReadBefore(catalog, ps.page)
          BY <4>1, <2>2 DEF ScanIsInOrder
        <5> QED
          BY <5>1, <4>2, <2>1
      <4>3. CASE IsFiniteSet(new) /\ Cardinality(new) # Cardinality(catalog)
        <5>1. ps.total = -1
          BY <4>1, <4>3, <3>4, <2>1
        <5>2. ps'.page = 1 /\ ps'.seen = {}
          BY <5>1, <2>1, <3>3
        <5>3. new \in SUBSET Nat
          BY PersonSyncAssumption
        <5>4. ReadBefore(new, 1) = {}
          BY <5>3, <4>3, PagesContinue
        <5> QED
          BY <5>2, <5>4
      <4> QED
        BY <1>3, <4>2, <4>3
    <3>5. ps'.always \subseteq new /\ ps'.at = "scanning"
      BY <3>1, <2>1, <2>2
    <3> QED
      BY <1>3, <3>2, <3>3, <3>4, <3>5 DEF ScanIsInOrder
  <2>3. CASE ps.at = "scanned"
    <3>1. ps'.always = ps.always \cap new /\ ps'.met = ps.met + 1
      BY <2>1, <2>3
    <3>2. ps'.met # 0 /\ (ps'.met <= 1 => ps.met <= 1)
      BY <3>1, <1>0
    <3>3. ps'.met <= 1 => ps'.always \subseteq ps'.seen
      BY <3>1, <3>2, <2>1, <2>3 DEF ScanIsInOrder
    <3> QED
      BY <3>2, <3>3, <2>1, <2>3 DEF ScanIsInOrder
  <2>4. CASE ps.at = "idle"
    BY <2>1, <2>4 DEF ScanIsInOrder
  <2> QED
    BY <1>0, <2>2, <2>3, <2>4 DEF PeopleScans
<1>4. ASSUME NEW e \in ExternalIds, PeopleChange(e)
      PROVE  ScanIsInOrder'
  <2>1. Changed(catalog') /\ catalog' = IF e \in catalog THEN catalog \ {e} ELSE catalog \cup {e}
    BY <1>4 DEF PeopleChange
  <2>2. IsFiniteSet(catalog') /\ Cardinality(catalog') # Cardinality(catalog)
    <3>1. CASE e \in catalog
      <4>1. /\ IsFiniteSet(catalog \ {e})
            /\ Cardinality(catalog \ {e}) = Cardinality(catalog) - 1
        BY <3>1, <1>0, FS_RemoveElement
      <4>2. catalog' = catalog \ {e}
        BY <2>1, <3>1
      <4> QED
        BY <4>1, <4>2, <1>0
    <3>2. CASE e \notin catalog
      <4>1. /\ IsFiniteSet(catalog \cup {e})
            /\ Cardinality(catalog \cup {e}) = Cardinality(catalog) + 1
        BY <3>2, <1>0, FS_AddElement
      <4>2. catalog' = catalog \cup {e}
        BY <2>1, <3>2
      <4> QED
        BY <4>1, <4>2, <1>0
    <3> QED
      BY <3>1, <3>2
  <2>3. PICK new \in SUBSET ExternalIds : new = catalog'
    BY <2>1, <1>0
  <2>4. /\ Changed(new) /\ catalog' = new
        /\ IsFiniteSet(new) /\ Cardinality(new) # Cardinality(catalog)
    BY <2>1, <2>2, <2>3
  <2> QED
    BY <2>4, <1>3
<1>5. ASSUME NEW a \in Photos, NEW e \in ExternalIds, TagChange(a, e)
      PROVE  ScanIsInOrder'
  <2>1. PICK new \in SUBSET ExternalIds : new = catalog
    BY <1>0
  <2>2. Changed(new) /\ catalog' = new
    BY <2>1, <1>5 DEF TagChange
  <2> QED
    BY <2>1, <2>2, <1>3
<1>6. ASSUME NEW d \in Domains, StartPeople(d)
      PROVE  ScanIsInOrder'
  <2>1. /\ ps'.at = "scanning" /\ ps'.page = 1 /\ ps'.total = -1 /\ ps'.seen = {}
        /\ ps'.always = catalog /\ ps'.met = 0
    BY <1>6, StartPeopleIs
  <2>2. catalog' = catalog
    BY <1>6 DEF StartPeople, providerVars
  <2>3. ReadBefore(catalog, 1) = {}
    BY <1>0, PagesContinue
  <2> QED
    BY <2>1, <2>2, <2>3 DEF ScanIsInOrder
<1>7. ASSUME PeoplePage
      PROVE  ScanIsInOrder'
  <2> DEFINE n == ps.page
             listed == PageOf(catalog, n)
             more == HasNextPage(catalog, n)
  <2>1. /\ ps.at = "scanning" /\ ps.total \in {-1, Cardinality(catalog)} /\ catalog' = catalog
    BY <1>7 DEF PeoplePage, providerVars
  <2>2. /\ ps'.always = ps.always /\ ps'.met = ps.met /\ ps'.total = Cardinality(catalog)
        /\ ps'.seen = ps.seen \cup listed
        /\ IF more THEN ps'.page = n + 1 /\ ps'.at = "scanning" ELSE ps'.at = "scanned"
    BY <1>7, PeoplePageIs
  <2>3. /\ ReadBefore(catalog, n) \cup listed = ReadBefore(catalog, n + 1)
        /\ ~ more => ReadBefore(catalog, n + 1) = catalog
    BY <1>0, PagesContinue
  <2>4. /\ ps.always \subseteq catalog
        /\ ps.met <= 1 => ps.seen = ReadBefore(catalog, n)
    BY <2>1 DEF ScanIsInOrder
  <2>5. ps.met <= 1 => ps'.seen = ReadBefore(catalog, n + 1)
    BY <2>2, <2>3, <2>4
  <2>6. ps'.total # -1
    BY <2>2, <1>0
  <2> HIDE DEF listed, more, n
  <2>7. CASE more
    <3>1. ps'.page = n + 1 /\ ps'.at = "scanning"
      BY <2>2, <2>7
    <3> QED
      BY <3>1, <2>1, <2>2, <2>4, <2>5, <2>6 DEF ScanIsInOrder
  <2>8. CASE ~ more
    <3>1. ps'.at = "scanned" /\ (ps.met <= 1 => ps'.seen = catalog)
      BY <2>2, <2>3, <2>5, <2>8
    <3>2. ps'.met = 0 => ps.met <= 1
      BY <2>2, <1>0
    <3> QED
      BY <3>1, <3>2, <2>1, <2>2, <2>4 DEF ScanIsInOrder
  <2> QED
    BY <2>7, <2>8
<1>8. \/ UNCHANGED <<ps, catalog>> \/ ps'.at = "idle"
      \/ \E e \in ExternalIds : PeopleChange(e)
      \/ \E a \in Photos, e \in ExternalIds : TagChange(a, e)
      \/ \E d \in Domains : StartPeople(d)
      \/ PeoplePage
  BY IdleIs DEF PersonNext, Ingest, StartRelations, ReconcilePeople, AbandonPeople, RelationPage,
         ReadRelations, WriteRelations, AbandonRelations, BackfillSources, TransitionPersons,
         TransitionRelations, StopLegacy, EnableScope, providerVars
<1> QED
  BY <1>1, <1>2, <1>4, <1>5, <1>6, <1>7, <1>8

LEMMA RelationsStep ==
    ASSUME PersonTypes, OneDomainWrites, PersonsAreNumbered, RelationsAreRead, PersonNext
    PROVE  RelationsAreRead'
<1>0. /\ rs \in RelationScans /\ ps \in PeopleScans /\ rs.domain \in Domains
      /\ rs.at \in {"idle", "scanning", "read"} /\ rs.quiet \in BOOLEAN
      /\ sources \in [Domains -> [Photos -> {"none", "active", "inactive"}]]
  BY TypesAre DEF ScansTyped, RelationScans, TablesTyped
<1>1. ASSUME rs'.at = "idle"
      PROVE  RelationsAreRead'
  BY <1>1 DEF RelationsAreRead
\* A step that what was read does not depend on.
<1>2. ASSUME rs' = rs, tags' = tags,
             rs.at = "idle" \/ \A d \in Domains : d = rs.domain =>
                 /\ people'[d] = people[d] /\ relations'[d] = relations[d]
                 /\ ActivePhotos(d)' = ActivePhotos(d)
      PROVE  RelationsAreRead'
  <2> SUFFICES ASSUME NEW d \in Domains, rs.domain = d, rs.at # "idle"
               PROVE  /\ rs.at = "scanning" /\ rs.quiet => PagesAreRead(d)'
                      /\ rs.at = "read" => MapsAreRead(d)'
    BY <1>2 DEF RelationsAreRead
  <2>1. /\ people'[d] = people[d] /\ relations'[d] = relations[d]
        /\ ActivePhotos(d)' = ActivePhotos(d)
    BY <1>2
  <2>2. \A e : PhotosOf(e)' = PhotosOf(e)
    BY <1>2 DEF PhotosOf
  <2>3. PagesAreRead(d)' <=> PagesAreRead(d)
    BY <1>2, <2>1, <2>2 DEF PagesAreRead
  <2>4. RelationImage(d)' = RelationImage(d)
    BY <1>2, <2>1 DEF RelationImage
  <2>5. ActiveImage(d)' = ActiveImage(d)
    BY <2>1 DEF ActiveImage
  <2>6. MapsAreRead(d)' <=> MapsAreRead(d)
    BY <1>2, <2>1, <2>4, <2>5 DEF MapsAreRead
  <2> QED
    BY <2>3, <2>6 DEF RelationsAreRead
\* A step of somebody else that disturbs what was read.
<1>3. ASSUME rs'.at = rs.at, rs'.domain = rs.domain, rs'.existing = rs.existing,
             rs'.mapped = rs.mapped, rs.at # "idle" => rs'.quiet = FALSE,
             UNCHANGED relations,
             rs.domain = "scope" /\ rs.at # "idle" => UNCHANGED <<sources, people>>
      PROVE  RelationsAreRead'
  <2> SUFFICES ASSUME NEW d \in Domains, rs.domain = d, rs.at = "read"
               PROVE  MapsAreRead(d)'
    BY <1>3 DEF RelationsAreRead
  <2>1. MapsAreRead(d) /\ rs'.quiet = FALSE
    BY <1>3 DEF RelationsAreRead
  <2>2. d = "scope" => ActiveImage(d)' = ActiveImage(d)
    BY <1>3 DEF ActiveImage, ActivePhotos
  <2> QED
    BY <1>3, <2>1, <2>2 DEF MapsAreRead
<1>4. ASSUME NEW e \in ExternalIds, PeopleChange(e)
      PROVE  RelationsAreRead'
  <2>1. Changed(catalog') /\ UNCHANGED <<sources, people, relations>>
        /\ catalog' \in SUBSET ExternalIds
    BY <1>4, CatalogIs DEF PeopleChange, tableVars
  <2>2. PICK new \in SUBSET ExternalIds : Changed(new)
    BY <2>1
  <2> QED
    BY <2>1, <2>2, ChangedIs, <1>3
<1>5. ASSUME NEW a \in Photos, NEW e \in ExternalIds, TagChange(a, e)
      PROVE  RelationsAreRead'
  <2>1. Changed(catalog) /\ UNCHANGED <<sources, people, relations>>
    BY <1>5 DEF TagChange, tableVars
  <2>2. PICK new \in SUBSET ExternalIds : Changed(new)
    BY <2>1, CatalogIs
  <2> QED
    BY <2>1, <2>2, ChangedIs, <1>3
<1>6. ASSUME NEW d \in Domains, NEW a \in Photos, Ingest(d, a)
      PROVE  RelationsAreRead'
  <2>1. /\ rs' = [rs EXCEPT !.quiet = (rs.at = "idle")] /\ UNCHANGED <<people, relations>>
        /\ phase = d /\ (d = "scope" => rs.at = "idle" \/ rs.domain = "legacy")
    BY <1>6 DEF Ingest, MayWrite, LockIsFree
  <2>2. /\ rs'.quiet = (rs.at = "idle") /\ rs'.at = rs.at /\ rs'.domain = rs.domain
        /\ rs'.existing = rs.existing /\ rs'.mapped = rs.mapped
    BY <2>1, <1>0, QuietIs, (rs.at = "idle") \in BOOLEAN
  <2>3. ~ (rs.domain = "scope" /\ rs.at # "idle")
    BY <2>1 DEF OneDomainWrites
  <2> QED
    BY <2>1, <2>2, <2>3, <1>3
<1>7. ASSUME ReconcilePeople
      PROVE  RelationsAreRead'
  <2>1. /\ rs' = [rs EXCEPT !.quiet = (rs.at = "idle" \/ rs.domain # ps.domain)]
        /\ UNCHANGED <<sources, relations>> /\ ps.at = "scanned"
    BY <1>7 DEF ReconcilePeople
  <2>2. /\ rs'.quiet = (rs.at = "idle" \/ rs.domain # ps.domain)
        /\ rs'.at = rs.at /\ rs'.domain = rs.domain
        /\ rs'.existing = rs.existing /\ rs'.mapped = rs.mapped
    BY <2>1, <1>0, QuietIs, (rs.at = "idle" \/ rs.domain # ps.domain) \in BOOLEAN
  <2>3. /\ rs.at # "idle" => rs.domain = ps.domain
        /\ ~ (rs.domain = "scope" /\ rs.at # "idle")
    BY <2>1 DEF OneDomainWrites
  <2> QED
    BY <2>1, <2>2, <2>3, <1>3
<1>8. ASSUME NEW d \in Domains, StartRelations(d)
      PROVE  RelationsAreRead'
  <2>1. /\ rs'.at = "scanning" /\ rs'.domain = d /\ rs'.todo = ActiveIds(people[d])
        /\ rs'.page = 1 /\ rs'.pairs = {}
    BY <1>8, StartRelationsIs
  <2>2. tags' = tags /\ people' = people
    BY <1>8 DEF StartRelations, providerVars, tableVars
  <2>3. \A e : PhotosOf(e)' = PhotosOf(e)
    BY <2>2 DEF PhotosOf
  <2>4. \A e : ReadBefore(PhotosOf(e), 1) = {}
    BY PhotosFinite, PagesContinue
  <2>5. PagesAreRead(d)'
    <3>1. \A e \in rs'.todo : ReadBefore(PhotosOf(e)', rs'.page) \X {e} \subseteq rs'.pairs
      BY <2>1, <2>3, <2>4
    <3> QED
      BY <2>1, <2>2, <3>1 DEF PagesAreRead
  <2> QED
    BY <2>1, <2>5 DEF RelationsAreRead
<1>9. ASSUME RelationPage
      PROVE  RelationsAreRead'
  <2>1. PICK e : e = Turn(rs.todo)
    OBVIOUS
  <2> DEFINE photos == PhotosOf(e)
             n == rs.page
             listed == PageOf(photos, n)
             more == HasNextPage(photos, n)
  <2>2. /\ rs'.at = "scanning" /\ rs'.domain = rs.domain /\ rs'.quiet = rs.quiet
        /\ rs'.pairs = rs.pairs \cup (listed \X {e})
        /\ IF more THEN rs'.page = n + 1 /\ rs'.todo = rs.todo
           ELSE rs'.page = 1 /\ rs'.todo = rs.todo \ {e}
    BY <1>9, <2>1, RelationPageIs
  <2>3. rs.at = "scanning" /\ rs.todo # {} /\ tags' = tags /\ people' = people
    BY <1>9 DEF RelationPage, providerVars, tableVars
  <2>4. e \in rs.todo /\ n \in Nat \ {0}
    BY <1>0, <2>1, <2>3, TurnIs DEF RelationScans
  <2>5. /\ ReadBefore(photos, n) \cup listed = ReadBefore(photos, n + 1)
        /\ ~ more => ReadBefore(photos, n + 1) = photos
        /\ listed \subseteq photos
    BY <2>4, PhotosFinite, PagesContinue
  <2>6. /\ \A f : PhotosOf(f)' = PhotosOf(f)
        /\ \A f : ReadBefore(PhotosOf(f), 1) = {}
        /\ photos \X {e} \subseteq tags
    <3>1. \A f : PhotosOf(f)' = PhotosOf(f)
      BY <2>3 DEF PhotosOf
    <3>2. \A f : ReadBefore(PhotosOf(f), 1) = {}
      BY PhotosFinite, PagesContinue
    <3>3. photos \X {e} \subseteq tags
      BY DEF PhotosOf
    <3> QED
      BY <3>1, <3>2, <3>3
  <2> SUFFICES ASSUME NEW d \in Domains, rs.domain = d, rs.quiet
               PROVE  PagesAreRead(d)'
    BY <2>2 DEF RelationsAreRead
  <2>7. PagesAreRead(d)
    BY <2>3 DEF RelationsAreRead
  <2>8. /\ rs.pairs \subseteq tags
        /\ \A f \in ActiveIds(people[d]) \ rs.todo : PhotosOf(f) \X {f} \subseteq rs.pairs
        /\ ReadBefore(photos, n) \X {e} \subseteq rs.pairs
    BY <2>1, <2>4, <2>7 DEF PagesAreRead
  <2>9. ReadBefore(photos, n + 1) \X {e} \subseteq rs'.pairs
    <3>1. ReadBefore(photos, n + 1) \X {e} = (ReadBefore(photos, n) \X {e}) \cup (listed \X {e})
      BY <2>5
    <3> QED
      BY <3>1, <2>2, <2>8
  <2>10. rs'.pairs \subseteq tags'
    <3>1. listed \X {e} \subseteq photos \X {e}
      BY <2>5
    <3> QED
      BY <3>1, <2>2, <2>3, <2>6, <2>8
  <2> HIDE DEF photos, n, listed, more
  <2>11. \A f \in ActiveIds(people[d]) \ rs.todo : PhotosOf(f) \X {f} \subseteq rs'.pairs
    BY <2>2, <2>8
  <2>12. CASE more
    <3>1. rs'.page = n + 1 /\ rs'.todo = rs.todo
      BY <2>2, <2>12
    <3>2. \A f \in ActiveIds(people'[d]) \ rs'.todo : PhotosOf(f)' \X {f} \subseteq rs'.pairs
      BY <3>1, <2>3, <2>6, <2>11
    <3>3. \A f \in rs'.todo :
            f = Turn(rs'.todo) => ReadBefore(PhotosOf(f)', rs'.page) \X {f} \subseteq rs'.pairs
      BY <3>1, <2>1, <2>6, <2>9 DEF photos
    <3> QED
      BY <3>2, <3>3, <2>10 DEF PagesAreRead
  <2>13. CASE ~ more
    <3>1. rs'.page = 1 /\ rs'.todo = rs.todo \ {e}
      BY <2>2, <2>13
    <3>2. PhotosOf(e) \X {e} \subseteq rs'.pairs
      BY <2>5, <2>9, <2>13 DEF photos
    <3>3. \A f \in ActiveIds(people'[d]) \ rs'.todo : PhotosOf(f)' \X {f} \subseteq rs'.pairs
      BY <3>1, <3>2, <2>3, <2>6, <2>11
    <3>4. \A f \in rs'.todo : ReadBefore(PhotosOf(f)', rs'.page) \X {f} \subseteq rs'.pairs
      BY <3>1, <2>6
    <3> QED
      BY <3>3, <3>4, <2>10 DEF PagesAreRead
  <2> QED
    BY <2>12, <2>13
<1>10. ASSUME ReadRelations
       PROVE  RelationsAreRead'
  <2>1. PICK d \in Domains : d = rs.domain
    BY <1>0
  <2>2. /\ rs'.at = "read" /\ rs'.domain = d /\ rs'.quiet = rs.quiet
        /\ rs'.existing = ActivePairs(relations[d])
        /\ rs'.mapped = Mapped(rs.pairs, ActivePhotos(d), PersonOf(people[d]))
    BY <1>10, <2>1, ReadRelationsIs
  <2>3. rs.at = "scanning" /\ rs.todo = {} /\ UNCHANGED <<tags, sources, people, relations>>
    BY <1>10 DEF ReadRelations, providerVars, tableVars
  <2>4. RelationImage(d)' = RelationImage(d) /\ ActiveImage(d)' = ActiveImage(d)
    BY <2>3 DEF RelationImage, ActiveImage, ActivePhotos
  <2>5. /\ rs.pairs \in SUBSET (Photos \X ExternalIds) /\ tags \in SUBSET (Photos \X ExternalIds)
        /\ ActivePhotos(d) \in SUBSET Photos
        /\ people[d] \in [ExternalIds -> PersonRows]
    <3>1. tags \subseteq Photos \X catalog /\ catalog \subseteq ExternalIds
      BY TypesAre DEF ProviderTyped
    <3>2. tags \in SUBSET (Photos \X ExternalIds)
      BY <3>1
    <3> QED
      BY <3>2, <1>0, TypesAre DEF RelationScans, ActivePhotos, TablesTyped
  <2>6. PICK photos \in SUBSET Photos : photos = ActivePhotos(d)
    BY <2>5
  <2>7. PICK table \in [ExternalIds -> PersonRows] : table = people[d]
    BY <2>5
  <2>8. \A pairs \in SUBSET (Photos \X ExternalIds) :
          /\ \A p \in Mapped(pairs, photos, PersonOf(table)) :
                 \E a \in photos, e \in ActiveIds(table) :
                     <<a, e>> \in pairs /\ p = <<ResourceOf[a], table[e].person>>
          /\ \A a \in photos, e \in ActiveIds(table) :
                 <<a, e>> \in pairs =>
                     <<ResourceOf[a], table[e].person>> \in Mapped(pairs, photos, PersonOf(table))
    BY MappedIs
  <2> DEFINE M(pairs) == Mapped(pairs, photos, PersonOf(table))
  <2>9. rs'.mapped = M(rs.pairs) /\ RelationImage(d) = M(tags)
    BY <2>2, <2>6, <2>7 DEF RelationImage
  <2>10. /\ \A pairs \in SUBSET (Photos \X ExternalIds) : \A p \in M(pairs) :
              \E a \in photos, e \in ActiveIds(table) :
                  <<a, e>> \in pairs /\ p = <<ResourceOf[a], table[e].person>>
         /\ \A pairs \in SUBSET (Photos \X ExternalIds) :
              \A a \in photos, e \in ActiveIds(table) :
                  <<a, e>> \in pairs => <<ResourceOf[a], table[e].person>> \in M(pairs)
    BY <2>8
  <2> HIDE DEF M
  <2>11. ASSUME rs.quiet PROVE M(rs.pairs) = M(tags)
    <3>1. PagesAreRead(d)
      BY <2>1, <2>3, <2>11 DEF RelationsAreRead
    <3>2. /\ rs.pairs \subseteq tags
          /\ \A e \in ActiveIds(table) : PhotosOf(e) \X {e} \subseteq rs.pairs
      BY <3>1, <2>3, <2>7 DEF PagesAreRead
    <3>3. \A a \in photos, e \in ActiveIds(table) : <<a, e>> \in tags <=> <<a, e>> \in rs.pairs
      <4> SUFFICES ASSUME NEW a \in photos, NEW e \in ActiveIds(table), <<a, e>> \in tags
                   PROVE  <<a, e>> \in rs.pairs
        BY <3>2
      <4>1. a \in PhotosOf(e)
        BY <2>5, <2>6 DEF PhotosOf
      <4> QED
        BY <4>1, <3>2
    <3>4. ASSUME NEW p \in M(rs.pairs) PROVE p \in M(tags)
      <4>1. PICK a \in photos, e \in ActiveIds(table) :
                <<a, e>> \in rs.pairs /\ p = <<ResourceOf[a], table[e].person>>
        BY <2>5, <2>10
      <4>2. <<a, e>> \in tags
        BY <3>3, <4>1
      <4>3. <<ResourceOf[a], table[e].person>> \in M(tags)
        BY <4>2, <2>5, <2>10
      <4> QED
        BY <4>1, <4>3
    <3>5. ASSUME NEW p \in M(tags) PROVE p \in M(rs.pairs)
      <4>1. PICK a \in photos, e \in ActiveIds(table) :
                <<a, e>> \in tags /\ p = <<ResourceOf[a], table[e].person>>
        BY <2>5, <2>10
      <4>2. <<a, e>> \in rs.pairs
        BY <3>3, <4>1
      <4>3. <<ResourceOf[a], table[e].person>> \in M(rs.pairs)
        BY <4>2, <2>5, <2>10
      <4> QED
        BY <4>1, <4>3
    <3> QED
      BY <3>4, <3>5
  <2>12. M(rs.pairs) \subseteq ActiveImage(d)
    <3> SUFFICES ASSUME NEW p \in M(rs.pairs) PROVE p \in ActiveImage(d)
      OBVIOUS
    <3>1. PICK a \in photos, e \in ActiveIds(table) : p = <<ResourceOf[a], table[e].person>>
      BY <2>5, <2>10
    <3> QED
      BY <3>1, <2>6, <2>7 DEF ActiveImage
  <2>13. MapsAreRead(d)'
    BY <2>2, <2>3, <2>4, <2>9, <2>11, <2>12 DEF MapsAreRead
  <2> QED
    BY <2>2, <2>13 DEF RelationsAreRead
<1>11. ASSUME BackfillSources
       PROVE  RelationsAreRead'
  <2>1. /\ rs' = rs /\ UNCHANGED <<tags, people, relations>> /\ phase # "scope"
        /\ SourcesReady(sources["legacy"], sources["scope"])
        /\ sources'["legacy"] = [a \in Photos |-> "none"]
        /\ sources'["scope"] = Backfilled(sources["legacy"], sources["scope"])
    BY <1>11 DEF BackfillSources, providerVars
  <2>2. rs.at # "idle" => rs.domain = "legacy"
    BY <2>1, <1>0 DEF OneDomainWrites, Domains
  <2>3. ActivePhotos("legacy")' = ActivePhotos("legacy")
    BY <2>1 DEF ActivePhotos, SourcesReady, Backfilled
  <2> QED
    BY <2>1, <2>2, <2>3, <1>2
<1>12. ASSUME TransitionPersons \/ TransitionRelations
       PROVE  RelationsAreRead'
  <2>1. rs' = rs /\ UNCHANGED <<tags, sources>> /\ phase # "scope"
    BY <1>12 DEF TransitionPersons, TransitionRelations, providerVars
  <2>2. rs.at # "idle" => rs.domain = "legacy"
    BY <2>1, <1>0 DEF OneDomainWrites, Domains
  <2>3. people'["legacy"] = people["legacy"] /\ relations'["legacy"] = relations["legacy"]
    <3>1. TablesTyped
      BY TypesAre
    <3>2. CASE TransitionPersons
      BY <3>2, CopiedIs DEF TransitionPersons
    <3>3. CASE TransitionRelations
      BY <3>1, <3>3 DEF TransitionRelations, TablesTyped, Domains
    <3> QED
      BY <1>12, <3>2, <3>3
  <2>4. ActivePhotos("legacy")' = ActivePhotos("legacy")
    BY <2>1 DEF ActivePhotos
  <2> QED
    BY <2>1, <2>2, <2>3, <2>4, <1>2
<1>13. ASSUME UNCHANGED <<rs, tags, sources, people, relations>>
       PROVE  RelationsAreRead'
  <2>1. \A d \in Domains : ActivePhotos(d)' = ActivePhotos(d)
    BY <1>13 DEF ActivePhotos
  <2> QED
    BY <2>1, <1>13, <1>2
<1>14. ASSUME WriteRelations \/ AbandonRelations
       PROVE  RelationsAreRead'
  BY <1>14, <1>1, IdleIs DEF WriteRelations, AbandonRelations
<1>15. \/ UNCHANGED <<rs, tags, sources, people, relations>>
       \/ \E e \in ExternalIds : PeopleChange(e)
       \/ \E a \in Photos, e \in ExternalIds : TagChange(a, e)
       \/ \E d \in Domains, a \in Photos : Ingest(d, a)
       \/ \E d \in Domains : StartRelations(d)
       \/ ReconcilePeople \/ RelationPage \/ ReadRelations \/ WriteRelations \/ AbandonRelations
       \/ BackfillSources \/ TransitionPersons \/ TransitionRelations
  BY DEF PersonNext, StartPeople, PeoplePage, AbandonPeople, StopLegacy, EnableScope,
         providerVars, tableVars
<1> QED
  BY <1>4, <1>5, <1>6, <1>7, <1>8, <1>9, <1>10, <1>11, <1>12, <1>13, <1>14, <1>15

LEMMA PersonStarts == PersonInit => PersonInv
<1> SUFFICES ASSUME PersonInit PROVE PersonInv
  OBVIOUS
<1>1. PersonTypes
  BY TypesStart
<1>2. ps.at = "idle" /\ rs.at = "idle" /\ phase = "legacy"
  BY IdleIs DEF PersonInit
<1>3. \A d \in Domains : Known(people[d]) = {}
  BY DEF PersonInit, Known, HasRow, NoRow
<1>4. PersonsAreNumbered
  BY <1>2, <1>3 DEF PersonsAreNumbered, Domains
<1>5. RelationsHaveEvidence
  BY DEF PersonInit, RelationsHaveEvidence, Domains
<1> QED
  BY <1>1, <1>2, <1>4, <1>5
     DEF PersonInv, OneDomainWrites, EvidenceIsThere, ScanIsInOrder, RelationsAreRead

LEMMA PersonMoves == PersonInv /\ [PersonNext]_personVars => PersonInv'
<1> SUFFICES ASSUME PersonInv, [PersonNext]_personVars PROVE PersonInv'
  OBVIOUS
<1>1. CASE PersonNext
  BY <1>1, TypesStep, DomainsStep, NumberedStep, EvidenceStep, ScanStep, RelationsStep
     DEF PersonInv
<1>2. CASE UNCHANGED personVars
  <2>1. /\ UNCHANGED <<catalog, tags, changes, sources, people, relations, allocated, clock>>
        /\ UNCHANGED <<phase, ps, rs>>
    BY <1>2 DEF personVars, providerVars, tableVars
  <2>2. PersonTypes'
    BY <2>1 DEF PersonInv, PersonTypes, PersonTypeOK
  <2>3. OneDomainWrites' /\ PersonsAreNumbered'
    BY <2>1 DEF PersonInv, OneDomainWrites, PersonsAreNumbered
  <2>4. EvidenceIsThere'
    BY <2>1 DEF PersonInv, EvidenceIsThere, RelationsHaveEvidence
  <2>5. ScanIsInOrder'
    BY <2>1 DEF PersonInv, ScanIsInOrder
  <2>6. /\ \A d \in Domains : RelationImage(d)' = RelationImage(d)
        /\ \A d \in Domains : ActiveImage(d)' = ActiveImage(d)
        /\ \A e : PhotosOf(e)' = PhotosOf(e)
    BY <2>1 DEF RelationImage, ActiveImage, ActivePhotos, PhotosOf
  <2>7. RelationsAreRead'
    BY <2>1, <2>6 DEF PersonInv, RelationsAreRead, PagesAreRead, MapsAreRead
  <2> QED
    BY <2>2, <2>3, <2>4, <2>5, <2>7 DEF PersonInv
<1> QED
  BY <1>1, <1>2

LEMMA PersonAlways == PersonSpec => []PersonInv
BY PersonStarts, PersonMoves, PTL DEF PersonSpec

\* However often people disappear and come back at the Provider, and whenever
\* an operator moves the tables into the Scope: one Person per external identity
\* in both tables, and every relation of the Scope has its evidence.
THEOREM PersonsKeepTheirIdentity == PersonSpec => []PeopleWellFormed
<1>1. PersonInv => PeopleWellFormed
  BY NumberedIs DEF PersonInv, EvidenceIsThere, PeopleWellFormed, PersonTypes
<1> QED
  BY <1>1, PersonAlways, PTL

\* A snapshot of the people read page by page is theirs, for any page size.
THEOREM PeopleScansAreSound == PersonSpec => PeopleScanIsSound
<1> DEFINE A == ReconcilePeople =>
                  /\ ps.met = 0 => ActiveIds(people'[ps.domain]) = catalog
                  /\ ps.met <= 1 => ps.always \subseteq ActiveIds(people'[ps.domain])
<1>1. ASSUME PersonInv, ReconcilePeople
      PROVE  A
  <2>1. PICK d : d = ps.domain
    OBVIOUS
  <2>2. ActiveIds(people'[d]) = ps.seen
    BY <1>1, <2>1, ReconciledIs DEF PersonInv
  <2>3. ps.at = "scanned"
    BY <1>1 DEF ReconcilePeople
  <2>4. (ps.met = 0 => ps.seen = catalog) /\ (ps.met <= 1 => ps.always \subseteq ps.seen)
    BY <1>1, <2>3 DEF PersonInv, ScanIsInOrder
  <2> QED
    BY <2>1, <2>2, <2>4
<1>2. PersonInv /\ [PersonNext]_personVars => [A]_personVars
  BY <1>1
<1> QED
  BY <1>2, PersonAlways, PTL DEF PersonSpec, PeopleScanIsSound

LEMMA WriteIs ==
    ASSUME PersonInv, WriteRelations, NEW d, d = rs.domain
    PROVE  /\ d \in Domains
           /\ {p \in Pairs : relations'[d][p] = Active} = rs.mapped
           /\ rs.quiet => rs.mapped = RelationImage(d)
           /\ d = "scope" => rs.mapped \subseteq ActiveImage(d)
<1> DEFINE table == relations[d]
           new == ReconcileRelations(table, rs.mapped, rs.existing, clock')
<1>0. TablesTyped /\ ScansTyped
  BY TypesAre DEF PersonInv
<1>1. d \in Domains /\ rs.at = "read" /\ rs.mapped \in SUBSET Pairs
  BY <1>0 DEF ScansTyped, RelationScans, WriteRelations
<1>2. MapsAreRead(d)
  BY <1>1 DEF PersonInv, RelationsAreRead
<1>3. \A p \in Pairs : p \in rs.existing <=> table[p] = Active
  BY <1>2 DEF MapsAreRead, ActivePairs
<1>4. clock' # Active
  BY <1>0, PersonSyncAssumption DEF WriteRelations, TablesTyped, Active
<1>5. \A p \in Pairs : new[p] = Active <=> p \in rs.mapped
  BY <1>3, <1>4 DEF ReconcileRelations
<1>6. relations' = [relations EXCEPT ![d] = new]
  BY DEF WriteRelations
<1> HIDE DEF new
<1>7. relations'[d] = new
  BY <1>0, <1>1, <1>6 DEF TablesTyped
<1> QED
  BY <1>1, <1>2, <1>5, <1>7 DEF MapsAreRead

\* What a synchronization of the relations leaves active is what the Provider
\* says when nothing moved, and has its photo and its person in the Scope
\* whatever moved: for any number of people, photos and pages.
THEOREM RelationsAreMirrored == PersonSpec => RelationsMirror
<1> DEFINE A ==
      WriteRelations =>
        LET d == rs.domain
            active == {p \in Pairs : relations'[d][p] = Active}
        IN  /\ rs.quiet => active = RelationImage(d)
            /\ d = "scope" => active \subseteq
                 {ResourceOf[a] : a \in ActivePhotos(d)}
                   \X {people[d][e].person : e \in ActiveIds(people[d])}
<1>1. ASSUME PersonInv, WriteRelations
      PROVE  A
  <2>1. PICK d : d = rs.domain
    OBVIOUS
  <2>2. /\ {p \in Pairs : relations'[d][p] = Active} = rs.mapped
        /\ rs.quiet => rs.mapped = RelationImage(d)
        /\ d = "scope" => rs.mapped \subseteq ActiveImage(d)
    BY <1>1, <2>1, WriteIs
  <2> QED
    BY <2>1, <2>2 DEF ActiveImage
<1>2. PersonInv /\ [PersonNext]_personVars => [A]_personVars
  BY <1>1
<1> QED
  BY <1>2, PersonAlways, PTL DEF PersonSpec, RelationsMirror

\* A step of the transition can be repeated: it copies and never rewrites.
THEOREM TransitionsAreCopies == PersonSpec => TransitionsCopy
<1> DEFINE A ==
      /\ TransitionPersons =>
           /\ people'["legacy"] = people["legacy"]
           /\ \A e \in Known(people["legacy"]) : people'["scope"][e] = people["legacy"][e]
           /\ \A e \in Known(people["scope"]) : people'["scope"][e] = people["scope"][e]
      /\ TransitionRelations =>
           /\ relations'["legacy"] = relations["legacy"]
           /\ \A p \in Pairs : relations["legacy"][p] # NoRelation =>
                relations'["scope"][p] = relations["legacy"][p]
           /\ \A p \in Pairs : relations["scope"][p] # NoRelation =>
                relations'["scope"][p] = relations["scope"][p]
<1>1. ASSUME PersonInv, TransitionPersons
      PROVE  /\ people'["legacy"] = people["legacy"]
             /\ \A e \in Known(people["legacy"]) : people'["scope"][e] = people["legacy"][e]
             /\ \A e \in Known(people["scope"]) : people'["scope"][e] = people["scope"][e]
  BY <1>1, CopiedIs DEF PersonInv
<1>2. ASSUME PersonInv, TransitionRelations
      PROVE  /\ relations'["legacy"] = relations["legacy"]
             /\ \A p \in Pairs : relations["legacy"][p] # NoRelation =>
                  relations'["scope"][p] = relations["legacy"][p]
             /\ \A p \in Pairs : relations["scope"][p] # NoRelation =>
                  relations'["scope"][p] = relations["scope"][p]
  <2> DEFINE old == relations["legacy"]
             own == relations["scope"]
             new == CopiedRelations(old, own)
  <2>0. TablesTyped
    BY <1>2, TypesAre DEF PersonInv
  <2>1. /\ relations' = [relations EXCEPT !["scope"] = new]
        /\ \A p \in Pairs : old[p] # NoRelation => own[p] \in {NoRelation, old[p]}
    BY <1>2 DEF TransitionRelations, RelationsReady
  <2>2. \A p \in Pairs : new[p] = IF own[p] # NoRelation THEN own[p] ELSE old[p]
    BY DEF CopiedRelations
  <2> HIDE DEF new
  <2>3. relations'["legacy"] = old /\ relations'["scope"] = new
    BY <2>0, <2>1 DEF TablesTyped, Domains
  <2> QED
    BY <2>1, <2>2, <2>3
<1>3. PersonInv /\ [PersonNext]_personVars => [A]_personVars
  BY <1>1, <1>2
<1> QED
  BY <1>3, PersonAlways, PTL DEF PersonSpec, TransitionsCopy
=============================================================================
