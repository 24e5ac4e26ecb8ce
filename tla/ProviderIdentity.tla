-------------------------- MODULE ProviderIdentity --------------------------
(* Provider Instances, Accounts and Observation Scopes of one Personal DB     *)
(* (provider_identity/postgres.py). A row is found by its UUID; UUIDs stand    *)
(* for the unique keys, so that a second row of the same key is a conflict.    *)
(* Rows are never deleted and change only by being enabled or disabled.       *)

CONSTANTS Instances, Accounts, Scopes, ProviderTypes, None

NoIdentity == [instances |-> [i \in Instances |-> None],
               accounts |-> [c \in Accounts |-> None],
               scopes |-> [s \in Scopes |-> None]]

CanCreateInstance(db, i) == db.instances[i] = None
CreateInstance(db, i, type, on) ==
    [db EXCEPT !.instances[i] = [type |-> type, enabled |-> on]]

CanCreateAccount(db, c, i) == db.instances[i] # None /\ db.accounts[c] = None
CreateAccount(db, c, i, on) ==
    [db EXCEPT !.accounts[c] = [instance |-> i, enabled |-> on]]

\* The Account, if the Scope has one, must be one of the Instance.
CanCreateScope(db, s, i, c) ==
    /\ db.instances[i] # None /\ db.scopes[s] = None
    /\ c # None => db.accounts[c] # None /\ db.accounts[c].instance = i

CreateScope(db, s, i, c, on) ==
    [db EXCEPT !.scopes[s] = [instance |-> i, account |-> c, enabled |-> on]]

SetInstanceEnabled(db, i, on) == [db EXCEPT !.instances[i].enabled = on]
SetAccountEnabled(db, c, on) == [db EXCEPT !.accounts[c].enabled = on]
SetScopeEnabled(db, s, on) == [db EXCEPT !.scopes[s].enabled = on]

\* The Provider type a Scope observes.
TypeOf(db, s) == db.instances[db.scopes[s].instance].type

\* A mapping of a Provider's rows to a Scope that every transition accepts.
MapsTo(db, provider, s) == db.scopes[s] # None /\ TypeOf(db, s) = provider

\* What the ingestion runtime, enrichment access and resource access all ask of
\* a Scope before they build anything for a Provider.
IsUsable(db, s, provider) ==
    /\ db.scopes[s] # None /\ db.scopes[s].enabled
    /\ db.instances[db.scopes[s].instance].enabled
    /\ TypeOf(db, s) = provider
    /\ LET c == db.scopes[s].account
       IN  c # None =>
             /\ db.accounts[c] # None /\ db.accounts[c].enabled
             /\ db.accounts[c].instance = db.scopes[s].instance
=============================================================================
