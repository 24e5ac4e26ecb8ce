# Personal Digital Infrastructure in TLA+

PDI reads what a person keeps at several Providers (Nextcloud files, Immich
photos, Gmail messages) and records it in one World Model in PostgreSQL:
*Assets* (resources), *Blobs* (their content states) and *Sources* (the binding
of one Provider object to one Blob). Enrichment derives statements from it, query
and resource access read it, several people share a host through *Scopes*, and
Jarvis is a conversational application on top.

This directory models the parts of that system whose correctness depends on
order: who reads which row when, what a Provider does meanwhile, and what a crash
leaves behind. `PROJECT.json` lists the runs, the mutants, the source lines behind
every definition, the findings, the hazards and the theorems.

## 1. Inventory

Paths are relative to `src/src/`. "Hard" names what a unit test would hardly reach.

| component | state | operations | hard | correct when |
|---|---|---|---|---|
| `pdi/repository` world model | rows of Assets, Blobs, Sources; nothing is ever deleted | `execute`, `execute_many`: one transaction per Decision; lookups by key and hash; the reads behind queries | unique indexes met by two writers | references resolve, bytes stored once per Asset |
| `pdi/identity/matcher.py` | none | `match(fact)`: rows and a fact to a Decision, possibly asking for the body | a fact older or newer than the row, rows of old releases without a size | replay commits nothing; a Source keeps its Asset |
| `pdi/engine/sync_engine.py` | one run: facts left, identifiers seen, whether reconciliation is safe | `sync_once`, `sync_incremental` | stale rows, a Provider changing under the traversal, crashes between transactions | what was absent, and only that, goes inactive |
| `pdi/sync_state`, `adapters/*/incremental.py` | one row per Provider: checkpoint, version, latch | `run_incremental`, `bootstrap`, `recover` | compare-and-swap against other runs, feed purged, clocks | no change falls behind a checkpoint that is followed |
| `pdi/adapters` | none | `scan`, `scan_updated_window`, `open` | listings that are not snapshots | a search that succeeds saw everything that stayed |
| `pdi/operational.py`, `pdi/data_status` | flock, ledger of runs | run a pipeline as a child under the lock; report freshness | signals and deaths between lock, child and ledger | no child outlives its lock; a pipeline reported as validated has read its inputs |
| `pdi/observation`, `pdi/enrichment.py` | claim and statements per resource and generator | claim, extract, guard, publish, fail | lease expiry against a late publication; two reads of one input; archives that lie | current statements are those of the recorded input; no limit is exceeded |
| `pdi/person_identity`, `resource_person_relation` | people, and who is on which photo, per Provider and per Scope | reconcile a snapshot read page by page | a listing that changes under the pages | nobody who stayed goes inactive |
| `pdi/provider_identity`, `principal`, `scoped_ingestion`, `scope_sync_state`, `source_provenance.py` | Instances, Accounts, Scopes; provenance and checkpoints per Scope; routing of Principals | administration, bound runtimes, backfill, copy of state | a runtime that outlives a change of its identities | what is bound to a Scope stays in it, once the legacy writer has ended |
| `pdi/scoped_operational.py`, `scoped_derived_transition.py`, `production_ops` | journal, installation, timers, enabled Scopes, ledger | writer units; `apply`, `verify`, `abort`; the one-shot transition | death or failure at any step, units started meanwhile | an abort that reports success left everything quiet |
| `pdi/query`, `resource_query`, `retrieval`, `rich_retrieval` | none; the client keeps the continuation | pages, staged selection, digest, byte bound | pages over changing data | a complete chain is complete |
| `pdi/resource_access`, `pdi_resource_access` | permits, open streams | stream a representation, a video, a text window | disconnect, cancellation and failure against release | every permit comes back, once |
| `jarvis/web/coordinator.py`, `state`, `runtime` | turns in a database, live turns in memory, one subprocess each | start, stream, cancel, shutdown, restart | cancel against completion, shutdown against a terminal event | one terminal outcome per turn, the one announced |
| `pdi_mcp`, `jarvis/exec*`, `web_*`, `tools`, `apps/jarvis-web` | none of their own | stateless fronts and bounded I/O | - | - |

**Interactions.** A timer starts `pdi.operational`, which takes the flock, writes a
ledger row and runs `pdi.main` (or `pdi.enrichment`) as a child; `pdi.main` builds
one adapter and one engine. The engine pulls facts from the adapter's generator one
at a time, so listing, matching and committing interleave with whatever the Provider
does. Every `match` reads the database anew; every Decision is its own transaction.
The incremental services wrap the engine and write the sync state row last. The plain
command (`pdi sync`) does the same without flock or ledger, so two runs may overlap.
Enrichment reads the World Model under the same flock, but nothing keeps two workers
from overlapping when it is started by hand. In the multi-user deployment, writer
units replace the single commands: each visits the enabled Scopes of its Provider
under the same formal lock, and `cutover` moves a host from one to the other. Jarvis
reaches PDI only through the MCP server.

## 2. Modules

| module | models | uses |
|---|---|---|
| `Repository` | rows, indexes, the transaction of every Decision | |
| `Matcher` | the decision tree | `Repository` |
| `SyncEngine` | Providers, runs, workers, lock, faults | `Matcher` |
| `SyncProperties` | properties and the inductive invariant | `SyncEngine`, `ResourceIdentity` |
| `ResourceIdentity` | abstract: what a reader of the World Model may rely on | |
| `IncrementalSync` | sync state row, feed, window, bootstrap, recovery | |
| `ImmichSearch` | one paged search and its verification pass | |
| `PipelineRegistry` | the registry of pipelines, its validation, mutation groups | |
| `PipelineLedger` | the table `pipeline_runs` and its transactions | |
| `Operations` | runners, flock, children, signals, data status | `PipelineLedger` |
| `Extractors` | per extractor: eligible Sources, fingerprint, statements | |
| `Enrichment` | workers, leases, claims, guard, publication | `Extractors` |
| `DocumentText` | one document from stream to excerpt, with the limits that hold and the one that does not | |
| `PersonIdentity`, `PersonRelations` | the tables of people and of relations, and their reconciliation | |
| `ScopeTransition` | the one-shot moves of legacy rows into a Scope | `PersonRelations` |
| `PersonSync` | the synchronizations of people and relations, legacy and scoped, and the transition | `ScopeTransition` |
| `ProviderIdentity` | Instances, Accounts, Scopes and their administration | |
| `ScopeBinding` | Principals, bound runtimes, decisions on sources read earlier, backfill, scoped state, remote reads | `ProviderIdentity` |
| `ScopedWriter` | the writer units: chain, targets, lock, ledger | `PipelineLedger` |
| `Cutover` | apply, abort, verify, timers, faults | `ScopedWriter` |
| `ResourceReads` | the statements behind every query | |
| `ResourceQuery` | a client following a query through its pages | `ResourceReads` |
| `ResourceAccess` | streams under permits; text in windows | |
| `RuntimeContract` | turns and runtime events | |
| `TurnStore` | the database of Jarvis: rows of turns, calls that raise | `RuntimeContract` |
| `TurnRegistry` | the live view browsers read, eviction | `RuntimeContract` |
| `HermesAdapter` | the coroutine around one bridge subprocess per turn | `RuntimeContract` |
| `TurnCoordinator` | start, consumers, cancel, shutdown, crash, restart | the four above |
| `TurnProperties` | properties and the inductive invariant | `TurnCoordinator` |
| `MCSync`, `MCIncremental`, `MCOperations`, `MCScopes`, `MCEnrichment`, `MCReads`, `MCTurns` | instances for TLC | |
| `SyncEngine_proofs`, `Incremental_proofs`, `Operations_proofs`, `Enrichment_proofs`, `Scopes_proofs`, `Reads_proofs`, `Turn_proofs` | theorems | the parts they are about |
| `SequenceLemmas` | lemmas about sequences, sums and induction over finite sets | |

### Synchronisation (`Repository`, `Matcher`, `SyncEngine`)

*State.* `assets`, `blobs`, `sources` are the tables. A row that is never deleted is
identified by its position, a Source by (provider, external id). A digest is
identified with the bytes it is of; `SizeOf` gives their length; `Null` is a column
that old releases did not fill. `remote` is the Provider: per object its presence,
path, version and bytes. `run[w]` is the local state of `_run_batch` in process `w`,
with two history fields, `gone` (objects absent at some instant of the run) and
`since` (how many Provider changes had happened when it started).

*Steps.* The places where the code can be interleaved are its reads of the Provider
and its database statements, and each is one action:

| action | code |
|---|---|
| `StartFull`, `StartIncremental` | `sync_once`, `sync_incremental` up to the first request |
| `VisitDir`, `ResolveHint` | one PROPFIND or search page; one revalidated candidate |
| `NextFact`, `AskMatcher`, `MatcherRaises` | the loop body up to the decision |
| `ReadBody`, `Disappeared`, `OpenRaises` | `adapter.open` and the digest |
| `Execute`, `ExecuteConflict` | `repository.execute`, or an index refusing it |
| `EndIncomplete`, `EndIncremental`, `ListMissing`, `Reconcile` | the end of `_run_batch` |
| `Abort` | any other exception, or the death of the process |
| `Upload`, `Rewrite`, `Move`, `Remove`, `Restore` | the Provider (external) |

`Match` evaluates several queries in one step. Rows are never deleted, Blobs never
change and a Source changes only in a transaction, so the queries of one `match` see
what a single one would have seen at the time of its last read of the Source, except
that a Blob committed in between may be missed; `ExecuteConflict` is where that ends.

*Assumed of the Providers.* A file's version tag changes with its bytes and a rename
keeps it; an external id is never given to another kind of object; a message's bytes
never change. `Init` ranges over every small World Model of the old release (`Legacy`).

### Incremental synchronisation (`IncrementalSync`, `ImmichSearch`)

The row (`state`) and its compare-and-swap are `_cas`; `job[w]` is one run of
`run_incremental`, `bootstrap`, `recover` or a full traversal. Nextcloud's feed is a
log whose oldest entries the server forgets and whose cursor is checked on each
fetch; Immich has a clock, a stamp per object and a window. A behaviour is about one
Provider, with or without the lock (chosen in `Init`): Providers share no row. Here a
fact is just the revision of its object; what becomes of facts is `SyncEngine`'s.
The code reads the state row twice in a run (`run_incremental` and
`sync_incremental`), and so does the model (`Start`, then `DiscoverPage` or
`DiscoverWindow`).

In `ImmichSearch` a page is a slice by position of a list that changes between
requests. Two passes must agree. Each request is one action, each change another.

### Formal runner and data status (`PipelineRegistry`, `PipelineLedger`, `Operations`)

`ledger` is the table `pipeline_runs`, `lock` the holder of the flock, `runner[r]` a
process of `run_formal_pipeline` (its stage, pipeline, row and the child's result),
`child[r]` its child. Every ledger call is one transaction and one action
(`FailInterrupted`, `Begin`, `Finish`, or `LedgerRaises` for any of them); `Spawn`,
`SetHandlers`, `ChildWaited`, `Interrupt` and `Reaped` are the stages of
`run_child_process`, in its order. What a child does to the world model is counted
(`world`), and `seen[i]` is history: what the child of row `i` found when it began.
`get_status` reads the latest runs and the last successes in two transactions, which
are `ReadLatestRuns` and `ReadLastSuccesses`. `PipelineRegistry` has the pipelines,
dependencies and mutation groups as the source has them; the instance takes three of
its pipelines and computes their dependencies and groups with it.

`Kill` is SIGKILL: systemd kills what is left in the control group of the unit. With
`Detached` the child would survive it, and with `Uncovered` signals also arrive
between `Popen` and the installation of the handlers, or a second time while the
child is being reaped. Both are switches of the model, `FALSE` in the run and in the
theorems: with either, a child can work on without the lock. The first is what the
systemd units exclude; the second is a window of the code (`operational.py:149-170`).

### Enrichment (`Extractors`, `Enrichment`, `DocumentText`)

`sources` and `remote` are the rows and what the Provider answers for them; `enrich`
and `current` the lease row and the current statements of each resource and
generator; `runs[w]` one `run_once` with the resource it is at. A worker's steps are
`StartRun` (the list of the batch), `ReadInput`, `Claim` (`mark_running`),
`DoExtract`, `Guard` (the lock of the Asset row and the look at sibling excerpts),
`Publish`, `PublishFails` (the database refuses it, and the row is marked as failed),
`Fail`, `Crash`. Extractors that read the Provider do so in `ReadInput`
and again in `DoExtract`, and both are separate steps because the code's two reads
may differ. `LeaseExpires` makes a row claimable again, whether its owner is dead or
slow. `Extractors` has all nine generators; the run schedules eight, as ODT goes the way
of DOCX.
`nextcloud_text` publishes without the family guard, as in the code.

`DocumentText` follows one document: `CheckSize`, chunks (`ReadChunk`), digest
(`Verify`), the ZIP inventory, entry by entry as unpacked (what an archive declares
and what comes out of it are independent; directories are passed over, nothing of them
is unpacked or compared), the parser under its deadline (`EnterParser`,
`DeadlineExpires`, `LeaveParser`), the cut of the text in characters and of the excerpt
in bytes. The texts are sequences of character widths. A unit of text (page, paragraph,
table) is a sequence of pieces, the cells of a table and one otherwise: the code renders
a whole table (`RenderPiece`, into `held`), each paragraph cut by a collector of its own, before the
collector of the document cuts it (`AddBlock`). So what is held of a table is bounded by
its paragraphs times the limit and not by the limit, and `ExtractionIsBounded` says so.

### People, relations and Scopes (`PersonSync` with its tables, `ScopeBinding`)

`people[d]` and `relations[d]` are the tables of the two domains, `"legacy"` (keyed by
Provider) and `"scope"`. A scan reads one page per action (`PeoplePage`,
`RelationPage`) while `catalog` and `tags` change; the snapshot is reconciled in one
transaction (`ReconcilePeople`) or in two steps, because the code reads the maps and
rows before it writes (`ReadRelations`, `WriteRelations`). Legacy commands take no
lock; the Scope's do. `BackfillSources`, `TransitionPersons` and `TransitionRelations`
are the operator's one-shot transactions, tried at any time and refused as a whole
while their plan is not ready; `EnableScope` is the acceptance of the copy.

`ScopeBinding` has one database per Principal. `AdminInstance`, `AdminAccount`,
`AdminScope` and `SetEnabled` are the repository of `provider_identity`; `Build` makes
a runtime (`ObservationContext`) after its checks, and what it does later it does without
looking again: `MatchScoped` reads a Source and decides, `CreateSource` and `UpdateSource`
execute what was decided, by then perhaps of an older row, `CreateState` and
`CompareAndSwap` keep the incremental state. `MatchLegacy` decides for the legacy command,
which has no Scope: it overlooks a Source of one Scope and refuses those of several. An
update writes the Scope of the row as it was read (`Written`), which is why `decisions`
carry it; `Abandon` is a run that dies between. `LegacyAdvance`, `Backfill` and
`CopyStates` are done without a runtime. `bound` is history, the Scopes each Source was
ever stored under, and `spanned` is set when a backfill meets a decision of the legacy
command that is about a Source (see the notes). `Fetch` is a read from a Provider for
enrichment or resource access with the credentials found for the Scope of the source.

### Writer units and cutover (`ScopedWriter`, `Cutover`)

`writer[w]` is the process of a unit: its place in the chain, the Scopes left, its
rows in the ledger. `op` is the operator's process, `journal` the file `state.json`,
`installed`, `timers`, `enabled` what it changes. One action per step between two
journal saves or commands: the steps of `apply` in their order, those of `abort`,
which go on after a failing one and collect `problems`, and `verify`. `Fault` is a
failing command or check, a signal or the death of the operator; `StartByTimer` and
`StartByHand` start units at any time. A Scope that was disabled after the targets were
listed fails for the pipelines that build a runtime for it (`LooksAgain`) and is worked on
by those of people and relations, which do not look again. What preflight and evidence look at is one
condition each.

### Reading (`ResourceReads`, `ResourceQuery`, `ResourceAccess`)

`ResourceReads` translates each statement of `repository/postgres.py` behind the
queries as an operator on the committed rows. `ResourceQuery` is one client that asks,
follows the continuation it is given, and stops; every call is taken apart into the
statements it makes (`Service`), between which Assets are committed, synchronized and restated
(`CommitAsset`, `SyncSource`, `Restate`) and time passes. `steady` and `stirred` are history: what the query selects at
every moment of the chain, and whether anything it reads has changed.

`ResourceAccess` has the semaphore (`permits`, `queue`) and a step per request from
waiting to release, with `CancelWaiting`, `Disconnect` and repeated `Close` anywhere;
and the text reader, which resolves, reads and cuts while the file changes at the
Provider (`live`) and in the World Model (`blob`).

### Jarvis turns (`TurnStore`, `TurnRegistry`, `HermesAdapter`, `TurnCoordinator`)

*State.* `stored[t]` is the row of a turn, the only thing that survives the process;
`registry` and `live` are `ActiveTurnRegistry`; `task[t]` is `_run` with its
`_HermesTurn` (`at` is where it is suspended, `process` the bridge); `consumer[t]` is
the task `_consume`; `request[c]` is a call of `cancel` that waits; `mode` is the web
process. `announced`, `spoken`, `failures` and `response` are history: outcomes
published, pieces of text passed on, calls that raised, the last answer to a cancel.

*Steps.* One event loop runs everything. Store calls are synchronous and block it;
`publish` holds a condition that nobody keeps over a suspension and never waits. So
what a coroutine does between two waits - for a queue, a subprocess, a task - is one
action:

| action | code |
|---|---|
| `Start`, `StartRaises`, `StartRefused` | `TurnCoordinator.start`, under the lifecycle lock |
| `Spawn` ... `PutOutcome` | `_run`, one action per suspension; `BridgeExits` is external |
| `ConsumeProgress`, `ConsumeOutcome` | one event in `_consume`, its commits and publication |
| `CancelEnded`, `Cancel`, `CancelGraceOver`, `CancelJoined`, `Disconnect` | the cancel route, up to its response or the loss of the browser |
| `Shutdown`, `ShutdownRaises`, `Exit` | `shutdown` and the end of `lifespan` |
| `Crash`, `CrashAfterCommit`, `Startup` | loss of the process (also between a commit and its publication), and the sweep at the next start |

A write of the store has two or three endings (`Written`): done, rolled back, and,
if `LostAck`, committed though the caller sees an exception. `Endings` composes them
along the nested handlers of `_consume`; each ending says what is stored, what is
announced and what becomes of the consumer.

*Abstractions.* Phase and tool events are one kind, `"activity"`: only deltas carry
text, and a delta is its number in the stream. A record of the bridge is chosen when
it is read. Records after an outcome change nothing and are left out. A finished
consumer leaves `_tasks` in the step that ends it, where the code does so one loop
iteration later.

## 3. Runs

All runs finish exhaustively; the bounds are in the cfgs.

| run | instance | shows |
|---|---|---|
| `sync_locked` | Nextcloud and Gmail, two ids each, two folders, one old row, 2 Provider changes, 1 aborted run | `ReplayIsNoop`, `DecisionsNeverConflict`, `StableTraversalMirrors` |
| `sync_concurrent` | Immich, two unlocked workers, 2 changes | `Inv` (the invariant of the proofs), `ImplementsIdentity`, `DeactivatedWasAbsent` |
| `sync_liveness` | Immich, one worker, three ids of which two have old rows, three contents, 2 changes, 1 abort | `EventuallyMirrored` |
| `incremental` | both Providers, locked or not, two workers, one object, 2 changes, a clock of 2 ticks with lag and skew; a search of 3 assets in pages of one, 4 moves | `NothingLost`, `CheckpointNeverRegresses`, `LatchOutlivesItsGap`; `SearchIsSound` |
| `operations` | 2 runners, the Immich pipelines and the OCR that depends on them, 3 runs, 1 change of each Provider pipeline, 1 fault | `LockAndLedgerAgree`, `ValidatedCoversInputs`, `OnlyLostRunsAreInterrupted` |
| `scopes` | people: 2 people, 2 photos, pages of one, 3 changes, 3 reconciliations; sources: 2 Instances, one Account, 2 Scopes (of one or of two Providers), 2 Sources, 2 decisions, 2 runtimes, a foreign credential; states: the same identities; cutover: 3 units, 2 Scopes, 2 faults, 1 start by hand | `PeopleWellFormed`, `PeopleScanIsSound`, `RelationsMirror`, `TransitionsCopy`; `ScopeIsolation`, `ScopedStateAdvances`; `CutoverIsSound`, `ScopesFlipUnderLock`, `AttemptsEnd` |
| `enrichment` | 2 workers, 2 resources, batches of one, eight schedules of extractors, 1 crash or refused publication; documents around each limit, with a table and a directory | `CompletedMatchesStatements`, `OneOwner`, `BatchIsEnriched`; `ExtractionIsSound`, `DocumentEnds` |
| `reads` | 10 queries over 4 resources, 2 changes, 1 timeout; 3 requests on 2 permits; texts of 3 to 4 characters in windows of 4 bytes | `CompleteIsAll`, `PagesAreOneSelection`, `ChainEnds`; `PermitsBalance`, `PermitsReturn`; `WindowsAreWhole` |
| `turns` | 2 turns, 2 conversations, 1 browser, 1 store failure, registry of one place, 1 start | `OneBridgePerConversation`, `EventsFindTheirTurn`, `CancelIsSynchronous` |
| `turn_restart` | 1 turn, 2 browsers, 2 store failures, 2 progress events, 2 starts | `AnswerIsWhatWasStreamed`, `AnnouncedIsStored`, `NobodyWaitsForever` |
| `shared_bytes`, `turn_lost_ack` | small | findings, below |

*Several parts in one run.* `MCIncremental`, `MCScopes`, `MCEnrichment` and `MCReads`
put parts side by side that share no variable. The initial state picks the part that
moves (a variable `part`, or a part whose own initial state lets nothing happen), so
the state space is the sum of theirs and not the product, and every property is
checked exactly as it would be alone. In `scopes` the Sources and the incremental states of
`ScopeBinding` are two such parts, both under the operator's changes of the identities:
no action reads the ones and writes the others. They start where the operator has
created the first Instance and its Scope.

*What the properties say.* Each is stated in a comment where it is defined. The ones
that took most thought: `ValidatedCoversInputs` relates an answer put together from
two queries to the history of the world model. `CompletedMatchesStatements` says that
a completed row's statements are those of the fingerprint it records, whatever
changed between the two reads and whoever published last. `PeopleScanIsSound` bounds
what a paged snapshot may get wrong by the number of changes it met.
`CompleteIsAll` compares a complete chain of pages with what the query selected at
every moment of the chain, and with the counts; nothing is in a chain twice, except where
the Provider ranks (`provider_semantic`): a Resource of which it ranked two Sources is
delivered once for each, and the instance has such a Resource. `PagesAreOneSelection`
says of the catalog (`recent`, `metadata_text`, `path_tree`) that a chain is refused only
because what it reads changed, never for what was first observed after its snapshot. Of
`observation_text` and `person_label` it does not: their limit and `scanned_count` come
before the time filter (`resource_query/service.py:374-418`), so a Resource observed later
changes the digest and the chain is refused; nor of a Provider's ranking. `EventuallyMirrored`
excepts a Provider that holds a file the Matcher refuses (`Refused`, the finding
`shared_bytes`). `AttemptsEnd` holds although a
Provider may keep the formal lock busy for ever.

*Why the bounds are enough.* A race needs two actors and one object, and sharing
needs two objects and two contents; the counterexamples of all mutants and findings
need at most three Provider changes. Two changes are enough to change an object
twice within a run or to move one and replace it. `sync_liveness` needs a third id and two
old rows, so that two changes reach a file the Matcher refuses: one file is rewritten to the
bytes of the other, and a third is uploaded with them. One abort is enough because a new
run starts from the rows alone: what `n` aborts leave is what one leaves. The
incremental model needs two changes (one before, one after the checkpoint), an
overlap larger than lag plus skew, and four writes of the row: bootstrap, latch,
recovery, advance. `operations` needs three runs: a dependency, its reader, and one
that changes the input again; one fault loses a row and a child. A Source is taken from a Scope, or given to another, by two decisions and
a backfill between reading and executing them. People need three
reconciliations: found, missing, found again. A cutover takes two faults to fail and
to fail in its abort, and a unit may be started once in between. An enriched resource
needs an owner, a usurper and one crash; the batch of one makes the second resource
wait. A query needs a page boundary within a tie, and three resources on it. Turns
meet only in their conversation and in the registry: two turns and one registry place
show every meeting. One turn takes two store failures to get past both handlers of
`_consume` and two starts to be swept after being interrupted or after having ended.
Symmetry is used over objects, workers, runners and conversations, which no
definition distinguishes, and never in a liveness run.

*Where deadlock is not checked.* The runs with `CHECK_DEADLOCK FALSE` have actors that
really stop: turns, starts, runs, changes and faults are bounded, a query that is
over and a document that is stored have nothing left to do.

*Fairness.* A process that runs goes on running (`WF` on each worker's steps): the
code has no wait in a run but the request timeouts, and an expired timeout is an
abort. Full runs of each Provider keep being started (`SF` on `StartFull`): systemd
timers do so (`deployment/systemd/*.timer`), and strong fairness is needed because
with several Providers the lock may be busy whenever one timer fires; the code waits
for it (`acquire_formal_lock`). Nothing forces a Provider to change or a run to be
aborted, and both are bounded, which is what "once it is quiet" means. A file the Matcher
refuses aborts every full run, however often it is started, and no fairness helps.

- *Enrichment*: timers start the runs of every extractor again and again, a run takes
  its next step, the sync engine catches up with the Provider, and the lease of a
  *dead* owner runs out. A lease that runs out under a live owner may happen and need
  not. Refused publications are bounded like crashes: a text the database refuses every time is
  never enriched. `BatchIsEnriched` speaks of the batch only: the code lists the first eligible
  resources by identifier, finished ones included, so that resources behind the batch
  have no turn while it does not shrink. Documents: requests have timeouts and the
  interval timer fires; parsers are libraries and may take for ever, but the signal ends them: one that
  swallows the exception is not modelled.
- *Cutover*: the operator's process goes on (`WF`), and the human retries an abort that
  came to no end (`SF` on `Retry`). Nothing is assumed of units or Providers.
- *Reading*: a client goes on while it is given continuations and calls end; closing a
  response ends, the Provider's side of it included. How long a client reads is its own affair.
- *Turns*: the event loop runs what is ready (`WF` on consumers, on the adapter's own
  steps and on waiting cancel requests), and the timeout of a turn expires. Two
  assumptions are about the bridge: it takes its request (the write at
  `hermes_adapter.py:189` is outside of the timeout), and once it has closed its output
  it exits (so is the wait at `:256`). While a cancel request waits for it, it exits
  because the request escalates to SIGKILL; a request that is dropped escalates no
  further, and nothing is assumed then.

### Findings

* `shared_bytes` - bytes may be stored under two Assets (each file changed to them),
  after which `find_blob_by_hash` raises for every new file with those bytes. Every full run of
  that Provider then ends before its missing pass: `EventuallyMirrored` holds but for
  this case, and would be violated without its exception.
* `turn_lost_ack` - the commit of a completed turn takes effect but its acknowledgement
  is lost. `_consume` takes it for a failed commit; `finish_without_message` returns
  the completed row as it is, and `turn.failed` is published all the same: what the
  browser was told is not what the database keeps
  (`docs/releases/jarvis-web-ui-v0.1-stage5b-e8-4.md:21-22`).

The property the second violates, `AnnouncedIsStored`, holds where a call that raises
has not committed (`turn_restart`, and as a theorem).

### Notes on behaviour the models contain

The models take the following steps because the code does; the properties are stated
so that a reader sees where they stop.

* A Nextcloud traversal has no stability check, although
  `docs/architecture/11-sync-lifecycle.md:287` promises that only a *stable* full
  traversal reconciles absence: a file moved from a folder not yet listed into one
  already listed is deactivated although it was never absent. The next full run
  activates it again. `DeactivatedWasAbsent` is checked and proved for Providers listed
  from one place.
* `open` of the Nextcloud adapter requests the listed path, so after a rename another
  object's bytes may be stored under the listed object's version tag; as the tag
  matches, no later scan reads the body again. `VersionPinsContent`, a conjunct of
  `Inv`, is stated for Providers that read bodies by identifier.
* `start` of a turn reads the history after it has committed the running turn. If that
  one read raises, the turn has no consumer: it blocks its conversation until the
  process is restarted, and cancel answers with a turn that is still running.
  `CancelIsSynchronous` is stated for turns without a store failure.
* Nothing in the code keeps a legacy run from executing after the backfill what it decided
  before: its update writes the Scope of the row as it was read, that is none
  (`repository/postgres.py:1780-1812`), and so takes the provenance away again, after which
  a backfill with another plan may move the Source to another Scope. The operator is told to end the
  legacy writer first (`docs/design/pdi-scope-incremental-state-v0.1.md:9-11`). `ProvenanceStays`, a conjunct of `ScopeIsolation`, is stated for
  databases in which no backfill met such a decision (`spanned`).
* A runtime of a Scope that was started before the transition of people goes on after
  it. `MayWrite` keeps it out in `PersonSync`, as the procedure does, so the interference of such a
  run is not explored.
* The cells of a table are rendered before any limit of the document applies: the text
  held in memory is bounded by the archive's limits only.
* A Resource two of whose Sources a Provider ranks is delivered twice
  (`retrieval/service.py:53-69`); neither `rich_retrieval` nor `resource_query` looks for the
  Resource again.
* People that leave and others that come in the same number between two pages leave the total as
  it was; `PeopleScanIsSound` bounds the error by one change met, and such a pair is outside of it.
* A new file with exactly the bytes of a stored message joins the message's Asset
  (`matcher.py:117` looks the hash up among all Blobs). The
  next match of that file finds an Asset of another kind and raises
  (`existing_source_resource_type_mismatch`). Files and messages hold different bytes in the instances, and `KindsApart` says so in
  the theorem about replays.
* A signal between `Popen` and the installation of the handlers ends the runner and
  leaves its child, and a second signal raises out of the reaping of the child
  (`operational.py:149-170`). `Uncovered` is `FALSE` where `LockAndLedgerAgree` is
  checked and proved.

## 4. Proofs

TLAPS proves, for all values of the constants that meet the assumptions below:

| theorem | states | hypotheses |
|---|---|---|
| `SyncEngine_proofs!InvHolds`, and from it `TypeCorrect`, `WellFormed`, `VersionPins`, `KeepsAsset` | `Inv` | |
| `...!LockedRunsNeverConflict`, `LockedRunsMirror` | `DecisionsNeverConflict`, `StableTraversalMirrors` | `UseLock` |
| `...!DeactivationsAreEarned` | `DeactivatedWasAbsent` | every Provider lists its objects in one place |
| `...!ReplaysAreNoops` | `ReplayIsNoop` | `KindsApart` |
| `...!EngineImplementsIdentity` | `ImplementsIdentity`: the engine refines `ResourceIdentity` | |
| `Incremental_proofs!NoUpdateIsLost`, `CheckpointsAdvance`, `LatchesOutliveTheirGaps` | `NothingLost`, `CheckpointNeverRegresses`, `LatchOutlivesItsGap` | |
| `...!SearchInvHolds`, `SearchMissesNothing` | `SearchInv`, `SearchIsSound` | |
| `Operations_proofs!LockAndLedgerAlwaysAgree`, `OnlyLostRunsAreCalledInterrupted`, `ValidationCoversItsInputs` | `LockAndLedgerAgree`, `OnlyLostRunsAreInterrupted`, `ValidatedCoversInputs` | `~Detached`, `~Uncovered` |
| `Enrichment_proofs!CompletedIsPromised`, `ClaimsHaveOneOwner` | `CompletedMatchesStatements`, `OneOwner` | |
| `...!ExcerptsAreGenuine` | `ExtractionIsSound` | every document is one (`IsDocument`) |
| `Scopes_proofs!ScopesAreIsolated`, `ScopedStatesAdvance` | `ScopeIsolation`, `ScopedStateAdvances` | (in `ScopeIsolation`: no backfill met a legacy decision) |
| `...!CutoverEarnsItsSteps`, `ScopesFlipUnderTheLock` | `CutoverIsSound`, `ScopesFlipUnderLock` | |
| `...!PersonsKeepTheirIdentity`, `PeopleScansAreSound`, `RelationsAreMirrored`, `TransitionsAreCopies` | `PeopleWellFormed`, `PeopleScanIsSound`, `RelationsMirror`, `TransitionsCopy` | |
| `Reads_proofs!PagesFollowOneSelection`, `CompleteChainsAreAll` | `PagesAreOneSelection`, `CompleteIsAll` | the queries are accepted ones (`IsQuery`); "none" is not a digest (`NoneIsNoDigest`) |
| `...!PermitsAreBalanced`, `WindowsCoverTheText` | `PermitsBalance`, `WindowsAreWhole` | |
| `Turn_proofs!TurnInvHolds`, and from it `OneBridge`, `OutcomesAreFinal` | `TypeOK /\ LifeInv`, `OneBridgePerConversation` | |
| `...!EventsAreFollowed`, `AnswersAreWhole`, `CancelsAreSynchronous` | `EventsFindTheirTurn`, `AnswerIsWhatWasStreamed`, `CancelIsSynchronous` | |
| `...!AnnouncementsAreStored` | `AnnouncedIsStored` | `~LostAck` |

A hypothesis of the third column is either a mode of operation the code has (the lock,
one listing place, a control group that dies with its runner), a check the code makes on
its input (an accepted query, a document), or one of the notes and findings above, where
the property fails without it. All are met by the runs that check
the property (`CasesAreQueries` in `MCReads` says so of the queries).

### The arguments

*Synchronization.* `VersionPinsContent` says an equal version tag stands for equal
bytes. It is not inductive: a run between its listing and its transaction holds a
fact, perhaps with evidence, perhaps with a decision naming a row, and all of that may
be stale. `InFlightSound` says what staleness cannot break: a fact's version is at
most the object's, its evidence belongs to that version or the version is old by now,
and the rows named by a decision exist, belong to the Source's Asset and hold the
bytes the fact speaks of. Two lemmas, `ObservedStable` and `RunStable`, show that
this survives every step of others, because rows only accumulate and versions only
grow; then each action needs only to be looked at for its own worker. `LockHeld` adds
that under the flock the rows are also those of the decision, which is why no index
is met. Three more invariants go on top of `Inv`. `TraversalsAccount`: an object that
is not in what a traversal has seen is still ahead of it, or was absent since the run
began; with several places an object can move behind the traversal, hence the
hypothesis. `RecordsAgree`: rows and facts in flight have bytes that
their kind may have, and sizes that agree with those bytes, so a decision taken again
finds nothing to do; a file with the bytes of a message is where that ends. `QuietRunsMirror`: while the Providers hold still, the run
under the lock has done or will do whatever a row lacks.

*Incremental runs.* `IncrementalInv` relates each Resource to the checkpoint of the
row and to that of every run: what changed after a checkpoint is still ahead of it in
the log or the window; what did not is recorded or is in the hands of the run that will
commit that checkpoint (`Covers`), or the latch is set. Runs overtake each other unless
locked, so this is said of every run and not of the latest; the version of the
compare-and-swap then selects the one that counts. The overlap enters as `MaxLag +
MaxAhead <= Overlap`: a stamp written late by a slow clock still falls into the next
window. For the search, `SearchInv` counts: while the first pass runs it has listed
as many different assets as its pages hold, so at its last page it has the whole
result unless something left, and what left cannot be in the second pass.

*Runner and data status.* `OpInv` says what a runner has at each of its stages: the
lock from `recover` on, a running row from `spawn` on, a child only while it waits or
reaps; a running row is the latest of its pipeline. One lemma, `RunnerMoves`, covers
every step that leaves the ledger alone, another, `LedgerStep`, the three that write
it, since under the lock nobody else has a row or a child (`OthersHaveNothing`). That a
row is called interrupted only when it is lost follows: the one who does so holds the
lock and has no row yet. `CoverInv` adds the order of instants to the history of what
each child found: between a dependency's last success and the start of a validating run
no child of the dependency's mutation group has written, because its row would be
running or would have finished in between; and the first of the two reads of a status
can only be older. The assumption on `Groups` is that of the registry: what is grouped
with a dependency reads no pipeline itself (checked as `RegistryIsValid`).

*Enrichment.* `EnrInv`: a batch holds what its own fingerprint promises, whatever the two
reads of the Provider answered, so it does not matter whose batch is published last. Until
the lease of a row runs out its claimant is alone and the row says so (`LeasesExclude`).
Who publishes under the guard has the lock of the Asset row and has seen no sibling since
(`LocksHeld`), which keeps `OneExcerpt`. `DocumentInv` has what each step of
an extraction has earned (`StepsAreEarned`): a total is
compared after each chunk, so that one chunk is the most it is exceeded by; what is rendered of
a table grows by one cut paragraph and its separator at a time; the excerpt is cut by whole
characters, so that it lacks fewer bytes than the widest of them. Totals over entries
and texts are sums, for which see below.

*Scopes.* `BindInv`: identities refer to each other and only grow (`Referenced`,
`Grown`); so the identity a runtime was built with is still that of its Scope, though
nobody looks again. A decision of a runtime, however old, is about a Source that was in its
Scope or did not exist, and writes that Scope; a legacy decision about a Source without
Scope does harm only if a backfill came between, and then `spanned` says so. That is `DecisionsFollowRows`; hence a Source
once bound keeps its Scope, whatever order decisions are executed in. `CutoverInv` is `WriterInv` (a unit under the lock has the running
rows, in the order of its chain) and `OperatorInv` (the journal tells the operator's
step; what is qualified has succeeded, in order; an abort has passed the steps before
the one it is at). `PersonInv` is about paged scans and copies. What a scan has read is
the people whose rank is below its position (`ReadBefore`), unless the total changed,
which is compared with that of the first page; one writer per domain
(`OneDomainWrites`), so the rows between the two steps of a relation write are those
that were read; Persons come from one counter, so a number names one row of both
domains (`PersonsAreNumbered`); the Scope's tables are copies until it is enabled,
after which nothing writes the copy but the Scope's own runs; and evidence is never
taken back (`EvidenceIsThere`).

*Queries.* `ChainInv` says what a continuation is worth: its digest names the Resources of the
first selection in their order, so an equal digest means the same list, and what was
delivered is that list up to its offset. `QuietInv` adds that while nothing it reads has changed
and no call timed out, every call of a paged chain comes to one and the same result (`Settled`), whatever is
first observed in the meantime, because the snapshot bounds the scan; so its
digest is the one expected. `CompleteInv` has four parts, which every step of a call
keeps. `CoverInv`: what answered the query all along is found, or still ahead of the position,
or among the rows read; the position is a row of the order and no offset, so what comes and goes
around it does not move it. `OrderInv`: the rows found are in order and none is twice, since a
page begins behind the last row of the one before (what a Provider ranks is excepted). `GenuineInv`: while nothing changes, nothing else is found.
`SteadyInv`: what is steady is selected now. The
lemmas about `Ranked` (a finite set under a strict order has a list of its own, whose
first `n` are before all others) carry the page steps; the count by days is a sum over parts (`SumOfParts`).

*Streams and texts.* For the permits, the queue and the holders are counted over every
way a request can end. For texts, `WindowInv` has that a window begins at the boundary
where the last one of the same text ended; a window of at least four bytes, the width of
the widest character, holds another boundary, so the reader gets on.

*Turns.* `OneBridgePerConversation` needs the whole chain of a turn's life, which is
`LifeInv`: a bridge lives within its coroutine, the coroutine has a consumer as long as
it has not ended (`OutcomeComesLast`), a consumer has a running row, and a running row
refuses another turn. `WriteShape`, `RescuedShape`, `CommitFailedShape` and
`EndingsShape` then say once, for each level of handlers in `_consume`, that what is
announced is what is stored; with `EndedRowStays` that is all `AnnouncedIsStored` takes.
`FlowInv` counts: queue and consumed events of a turn are consecutive numbers, the
registry's sequence is the last one consumed, the deltas among them are the text spoken;
and a turn with a consumer is not evicted, being active.

*Sums and induction.* The library's induction theorems cannot be instantiated here, so
`SequenceLemmas` does induction over a finite set as a smallest counterexample:
`SmallestSubset` gives, of a set of subsets of a finite set, one without a proper subset
in it. With it a fold with `+` is shown to be the sum it stands for (`SumIs`), to change
by what one term changes by (`SumUpdate`), and to be no less than a part of it
(`SumOfPart`); and a non-empty set of numbers to have a least and, if bounded, a greatest
element.

### Assumptions

The named `ASSUME`s of the modules, which the runs evaluate on their instances:

* bounds, limits and sizes are numbers, pages and batches are not empty, and the
  members of `Requests`, `Asset` are finitely many;
* "none" is none of the things it stands for the absence of (`Null`, `None`, `Unset`,
  `NoRunner`, `Nobody`);
* `RepositoryAssumption`, `EngineAssumption`: kinds and sizes, old rows are distinct files;
* `IncrementalAssumption`: clock skew and delay fit into the overlap;
* `OperationsAssumption`: the registry's rules for dependencies and groups;
* `EnrichmentAssumption`: resources are ordered; `DocumentAssumption`: the marker of a
  cut fits into the excerpt;
* `ScopeBindingAssumption`: a database has one Principal, credentials are registered
  once per Principal and Scope; `CutoverAssumption`: chains are not empty, and a unit that
  qualifies others has one pipeline; `PersonSyncAssumption`: people and photos are
  numbered in the order Immich lists them;
* `ReadsAssumption`, `QueryAssumption`: times, titles and path keys are numbers, a prefix that
  matches exactly also matches when case is ignored, no single Resource exceeds the byte
  limit;
* `AccessAssumption`: characters have one to four bytes, a window has at least four
  (`MIN_TEXT_WINDOW_BYTES`).

### Only model-checked

* All liveness: `EventuallyMirrored`, `BatchIsEnriched`, `DocumentEnds`, `AttemptsEnd`,
  `ChainEnds`, `PermitsReturn`, `NobodyWaitsForever`. Fairness and `ENABLED` are out of the
  prover's reach.

No module that is proved about contains a `RECURSIVE` operator.

## 5. Plan

Every safety property of the runs is now a theorem. What is left, in this order:

1. Enabled steps: what the safety part of the liveness properties needs, that is, that
   no actor is stuck in a state that is not its last. `ENABLED` is out of reach, so each is
   to be stated as a condition of the state that implies the guard of some action.
2. What is `partly` modelled: detail views and person-label aggregation of the query
   component, the Gmail adapter.

## 6. Not modelled

HTTP, WebDAV, Gmail and SQL text, serialization, logging, the parsing of
configuration, provisioning, the MCP and web fronts, the sandboxed tools, the
TypeScript client, migrations: they keep no protocol state of their own. Streaming a
digest is a library call. PostgreSQL is taken to be what its transactions promise.
Clock arithmetic uses small integers.

Of what is modelled in part: *Data status*, ages and the provider state views.
*Scopes*, the labels of people, more than one Provider and Scope at a time for people
and relations, and the order in which Immich lists. *Enrichment*, what a parser makes
of well-formed content; how many of the bounded changes a schedule of extractors gets
differs by schedule (`MCEnrichment`). *Queries*, detail views, the aggregation over
person labels, signals other than the capture time, ascending sorts, queries that
give no continuation, continuations altered by the client, resource types other than
files, and the semaphore of text reads. *Jarvis turns*, subscribers of the registry
and its bounded replay buffer, the bridge process itself, conversations and messages
other than the answer.
