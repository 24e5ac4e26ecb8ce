----------------------------- MODULE Enrichment -----------------------------
(* EnrichmentWorker (observation/service.py) over the statements and the      *)
(* lease rows of PostgreSQLObservationRepository (observation/postgres.py):   *)
(* list the Resources, and for each of the first BatchSize compute the        *)
(* fingerprint of its input, claim its row, extract, publish. Runs of the     *)
(* same or of sibling extractors overlap, die, and outlive their lease, while *)
(* the Provider and the synchronized rows change under them.                  *)
EXTENDS Extractors

CONSTANTS
    Workers, Resources,
    Contents,       \* what a Provider may come to hold for a Source
    FormatSets,     \* the formats a Source may come to be named
    Metas,          \* the metadata it may come to have
    Moving,         \* the Sources that change
    BatchSize, MaxChanges,
    MaxCrashes      \* deaths and refused publications

ASSUME EnrichmentAssumption ==
    Resources \subseteq Nat /\ BatchSize \in Nat \ {0} /\ None \notin Workers

VARIABLES
    gens,           \* the extractors that are scheduled
    sources,        \* asset_sources: id -> row
    remote,         \* id -> what the Provider answers, None for an error
    enrich,         \* resource_enrichments: <<resource, generator>> -> row, NoRow for none
    current,        \* the current resource_statements of <<resource, generator>>
    assetLock,      \* resource -> the worker that has locked its Asset row
    runs,           \* worker -> its run
    lost,           \* <<resource, generator>> whose live owner lost its lease
    changes, crashes

enrichmentVars == <<gens, sources, remote, enrich, current, assetLock, runs, lost, changes, crashes>>

\* A row that is not there, and no run.
NoRow == [status |-> "absent", fp |-> None, fresh |-> FALSE]
NoRun == [g |-> None, todo |-> <<>>, phase |-> "idle", fp |-> None, batch |-> None]
Rows == {<<r, g>> : r \in Resources, g \in gens}

\* list_enrichment_resources: the active Sources of a Resource, as read by one query.
Listed(r) == {sources[i] : i \in {j \in DOMAIN sources :
                                     sources[j].resource = r /\ sources[j].active}}

\* resources[:batch_size] of the eligible ones, finished or not, in identifier order.
Batch(g) ==
    LET eligible == {r \in Resources : EligibleSources(g, Listed(r)) # {}}
    IN  {r \in eligible : Cardinality({q \in eligible : q <= r}) <= BatchSize}

\* The extractors that the command can be asked to run.
Generators ==
    Family \cup {"immich_metadata", "immich_geo", "immich_ocr", "gmail_metadata", "file_metadata"}

\* Any table of Sources that the sync engine has left.
EnrichmentInit ==
    /\ gens \subseteq Generators /\ IsFiniteSet(DOMAIN sources)
    /\ remote = [i \in DOMAIN sources |-> sources[i].blob]
    /\ enrich = [x \in Rows |-> NoRow] /\ current = [x \in Rows |-> {}]
    /\ assetLock = [r \in Resources |-> None]
    /\ runs = [w \in Workers |-> NoRun]
    /\ lost = {} /\ crashes = 0

-----------------------------------------------------------------------------
(* A run                                                                      *)

Working(w) == runs[w].phase # "idle"
ResourceOf(w) == Min(DOMAIN runs[w].todo)
RowOf(w) == <<ResourceOf(w), runs[w].g>>

Goto(w, phase) == runs' = [runs EXCEPT ![w].phase = phase]

\* The next resource of the batch, or the end of the run.
Advance(w) ==
    LET rest == DOMAIN runs[w].todo \ {ResourceOf(w)}
    IN  runs' = [runs EXCEPT ![w] =
                    IF rest = {} THEN NoRun
                    ELSE [NoRun EXCEPT !.g = runs[w].g, !.phase = "input",
                                       !.todo = [r \in rest |-> runs[w].todo[r]]]]

world == <<gens, sources, remote, lost, changes, crashes>>

StartRun(w, g) ==
    /\ ~Working(w) /\ Batch(g) # {}
    /\ runs' = [runs EXCEPT ![w] = [NoRun EXCEPT !.g = g, !.phase = "input",
                                    !.todo = [r \in Batch(g) |-> Listed(r)]]]
    /\ UNCHANGED <<world, enrich, current, assetLock>>

\* input_fingerprint of the listed Sources; an exception is counted, no row is written.
ReadInput(w) ==
    /\ runs[w].phase = "input"
    /\ LET fp == InputFingerprint(runs[w].g, runs[w].todo[ResourceOf(w)], remote)
       IN  IF fp = None THEN Advance(w)
           ELSE runs' = [runs EXCEPT ![w].phase = "claim", ![w].fp = fp]
    /\ UNCHANGED <<world, enrich, current, assetLock>>

\* Mutant: completed is final, whatever the input became.
ClaimableOnce(row, fp) ==
    row.status # "completed" /\ ~(row.status = "running" /\ row.fresh)

\* mark_running: not done with this very input, and not leased to somebody else.
Claimable(row, fp) ==
    /\ ~(row.status = "completed" /\ row.fp = fp)
    /\ ~(row.status = "running" /\ row.fresh)

Claim(w) ==
    /\ runs[w].phase = "claim"
    /\ IF Claimable(enrich[RowOf(w)], runs[w].fp)
       THEN /\ enrich' = [enrich EXCEPT ![RowOf(w)] =
                             [status |-> "running", fp |-> runs[w].fp, fresh |-> TRUE]]
            /\ Goto(w, "extract")
       ELSE Advance(w) /\ UNCHANGED enrich
    /\ UNCHANGED <<world, current, assetLock>>

DoExtract(w) ==
    /\ runs[w].phase = "extract"
    /\ LET batch == Extract(runs[w].g, runs[w].todo[ResourceOf(w)], remote)
       IN  IF batch = None \/ ~ValidBatch(batch) THEN Goto(w, "fail")
           ELSE runs' = [runs EXCEPT ![w].batch = batch,
                            ![w].phase = IF ExclusiveFamily(runs[w].g) = {} THEN "publish"
                                         ELSE "guard"]
    /\ UNCHANGED <<world, enrich, current, assetLock>>

\* A current statement of another generator of the family for the same predicate.
Conflicting(r, g) == \E h \in (gens \cap ExclusiveFamily(g)) \ {g} : current[<<r, h>>] # {}

\* Mutant: the Asset row is not locked.
LookOnly(w) ==
    /\ runs[w].phase = "guard"
    /\ Goto(w, IF Conflicting(ResourceOf(w), runs[w].g) THEN "fail" ELSE "publish")
    /\ UNCHANGED <<world, enrich, current, assetLock>>

\* publish of a generator with a family: lock the Asset, look for a sibling; the
\* lock is held to the end of the transaction, and the conflict is its end.
Guard(w) ==
    /\ runs[w].phase = "guard" /\ assetLock[ResourceOf(w)] = None
    /\ IF Conflicting(ResourceOf(w), runs[w].g)
       THEN Goto(w, "fail") /\ UNCHANGED assetLock
       ELSE Goto(w, "publish") /\ assetLock' = [assetLock EXCEPT ![ResourceOf(w)] = w]
    /\ UNCHANGED <<world, enrich, current>>

Unlocked(w) == [r \in Resources |-> IF assetLock[r] = w THEN None ELSE assetLock[r]]

\* Mutant: completes with the fingerprint of the claim.
PublishAsClaimed(w) ==
    /\ runs[w].phase = "publish"
    /\ enrich' = [enrich EXCEPT ![RowOf(w)] =
                     [status |-> "completed", fp |-> runs[w].fp, fresh |-> FALSE]]
    /\ current' = [current EXCEPT ![RowOf(w)] = runs[w].batch.statements]
    /\ assetLock' = Unlocked(w) /\ Advance(w)
    /\ UNCHANGED world

\* The rest of publish: statements and completion in one transaction, whoever
\* holds the lease by now.
Publish(w) ==
    /\ runs[w].phase = "publish"
    /\ enrich' = [enrich EXCEPT ![RowOf(w)] =
                     [status |-> "completed", fp |-> runs[w].batch.fingerprint, fresh |-> FALSE]]
    /\ current' = [current EXCEPT ![RowOf(w)] = runs[w].batch.statements]
    /\ assetLock' = Unlocked(w) /\ Advance(w)
    /\ UNCHANGED world

\* The database refuses a statement or the connection is gone: publish rolls back,
\* and with it goes the lock of the Asset.
PublishFails(w) ==
    /\ runs[w].phase = "publish" /\ crashes < MaxCrashes /\ crashes' = crashes + 1
    /\ Goto(w, "fail") /\ assetLock' = Unlocked(w)
    /\ UNCHANGED <<gens, sources, remote, enrich, current, lost, changes>>

\* mark_failed: a transaction of its own that keeps the statements.
Fail(w) ==
    /\ runs[w].phase = "fail"
    /\ enrich' = [enrich EXCEPT ![RowOf(w)] =
                     [status |-> "failed", fp |-> runs[w].fp, fresh |-> FALSE]]
    /\ Advance(w)
    /\ UNCHANGED <<world, current, assetLock>>

\* A dead process; also the end of a run whose insert of a row lost a race, or whose
\* mark_failed raised.
Crash(w) ==
    /\ Working(w) /\ crashes < MaxCrashes /\ crashes' = crashes + 1
    /\ runs' = [runs EXCEPT ![w] = NoRun] /\ assetLock' = Unlocked(w)
    /\ UNCHANGED <<gens, sources, remote, enrich, current, lost, changes>>

-----------------------------------------------------------------------------
(* The world around                                                           *)

Claimants(x) == {w \in Workers : /\ runs[w].phase \in {"extract", "guard", "publish", "fail"}
                                 /\ RowOf(w) = x}

\* stale_after passes: half an hour since the claim.
LeaseExpires(x) ==
    /\ enrich[x].status = "running" /\ enrich[x].fresh
    /\ enrich' = [enrich EXCEPT ![x].fresh = FALSE]
    /\ lost' = IF Claimants(x) = {} THEN lost ELSE lost \cup {x}
    /\ UNCHANGED <<gens, sources, remote, current, assetLock, runs, changes, crashes>>

Change ==
    /\ changes < MaxChanges /\ changes' = changes + 1
    /\ UNCHANGED <<gens, enrich, current, assetLock, runs, lost, crashes>>

ProviderEdits(i) ==
    /\ Change /\ \E c \in Contents \ {remote[i]} : remote' = [remote EXCEPT ![i] = c]
    /\ UNCHANGED sources

\* The sync engine stores a new name, new metadata, an absence, a return.
RowChanges(i) ==
    /\ Change
    /\ \/ \E f \in FormatSets \ {sources[i].formats} :
             sources' = [sources EXCEPT ![i].formats = f]
       \/ \E m \in Metas \ {sources[i].meta} : sources' = [sources EXCEPT ![i].meta = m]
       \/ sources' = [sources EXCEPT ![i].active = ~sources[i].active]
    /\ UNCHANGED remote

\* ... and the content the Provider holds now. What Immich recognises in a photo
\* is not content.
Synchronize(i) ==
    /\ sources[i].provider # "immich" /\ remote[i] \notin {None, sources[i].blob}
    /\ sources' = [sources EXCEPT ![i].blob = remote[i]]
    /\ UNCHANGED <<gens, remote, enrich, current, assetLock, runs, lost, changes, crashes>>

Work(w) ==
    \/ ReadInput(w) \/ Claim(w) \/ DoExtract(w) \/ Guard(w) \/ Publish(w) \/ Fail(w)

EnrichmentNext ==
    \/ \E w \in Workers : \/ \E g \in gens : StartRun(w, g)
                          \/ ReadInput(w) \/ Claim(w) \/ DoExtract(w) \/ Guard(w)
                          \/ Publish(w) \/ PublishFails(w) \/ Fail(w) \/ Crash(w)
    \/ \E x \in Rows : LeaseExpires(x)
    \/ \E i \in Moving \cap DOMAIN sources : ProviderEdits(i) \/ RowChanges(i) \/ Synchronize(i)

EnrichmentSpec == EnrichmentInit /\ [][EnrichmentNext]_enrichmentVars

First == IF gens = {} THEN None ELSE CHOOSE g \in gens : TRUE

\* Timers start the runs of every extractor again and again, a run takes its next
\* step, the lease of a dead owner runs out, and the sync engine catches up.
EnrichmentFairness ==
    /\ \A w \in Workers : WF_enrichmentVars(Work(w))
    /\ SF_enrichmentVars(\E w \in Workers : StartRun(w, First))
    /\ SF_enrichmentVars(\E w \in Workers, g \in gens \ {First} : StartRun(w, g))
    /\ WF_enrichmentVars(\E x \in Rows : Claimants(x) = {} /\ LeaseExpires(x))
    /\ WF_enrichmentVars(\E i \in Moving \cap DOMAIN sources : Synchronize(i))

-----------------------------------------------------------------------------
(* Properties                                                                 *)

\* The statements a fingerprint stands for, input by input.
PromisedOf(fp, i) ==
    CASE fp.generator = "immich_ocr"      -> Excerpt("media.ocr_text", i.text)
      [] fp.generator \in Family          -> Excerpt("document.text_excerpt", i.blob)
      [] fp.generator = "gmail_metadata"  -> Excerpt("gmail.subject", i.blob)
                                             \cup Draft("gmail.internal_date", i.date)
      [] fp.generator = "immich_metadata" -> Draft("media.captured_at", i.captured)
                                             \cup Draft("media.position", i.gps)
      [] fp.generator = "immich_geo"      -> IF i.gps \in {None, "bad"} THEN {}
                                             ELSE Draft("geo.label", i.label)
      [] OTHER -> IF \A j \in fp.inputs : j.modified = i.modified
                  THEN Draft("file.modified_at", i.modified) ELSE {}

Promised(fp) == UNION {PromisedOf(fp, i) : i \in fp.inputs}

\* A row that says completed says of which input: the current statements are the
\* ones of the fingerprint it records, whatever changed between the two reads of
\* the Provider and whoever published last (publish, observation/postgres.py).
CompletedMatchesStatements ==
    \A x \in Rows : enrich[x].status = "completed" => current[x] = Promised(enrich[x].fp)

\* Of the generators with an exclusive family at most one has a current excerpt of
\* a Resource, even when two of them publish at the same time.
OneGuardedExcerpt ==
    \A r \in Resources :
        Cardinality({g \in gens : ExclusiveFamily(g) # {} /\ current[<<r, g>>] # {}}) <= 1

\* Two workers are past the claim of one row only after an owner that was alive
\* has lost its lease (mark_running).
ClaimsExclude == \A x \in Rows \ lost : Cardinality(Claimants(x)) <= 1

\* The runs and the rows are well formed, and an Asset is locked by who publishes.
EnrichmentTypeOK ==
    /\ \A x \in Rows : enrich[x].status \in {"absent", "running", "completed", "failed"}
    /\ \A w \in Workers : Working(w) => DOMAIN runs[w].todo # {} /\ runs[w].g \in gens
    /\ \A r \in Resources : assetLock[r] # None =>
          runs[assetLock[r]].phase = "publish" /\ ResourceOf(assetLock[r]) = r

\* Claims and excerpts have one owner.
OneOwner == EnrichmentTypeOK /\ OneGuardedExcerpt /\ ClaimsExclude

Settled(r, g) ==
    /\ enrich[<<r, g>>].status = "completed"
    /\ enrich[<<r, g>>].fp = InputFingerprint(g, Listed(r), remote)

\* Once nothing changes, every Resource among the first BatchSize that can be
\* extracted, and that no excerpt of a sibling blocks, is enriched from what it
\* now is: crashes, lost leases, refused and stale publications are repaired.
\* Resources beyond the batch are not reached, finished ones keep their place; text
\* that the database refuses every time never gets in.
BatchIsEnriched ==
    <>[](\A g \in gens : \A r \in Batch(g) :
            Extract(g, Listed(r), remote) # None /\ ~Conflicting(r, g) => Settled(r, g))
=============================================================================
