--------------------------- MODULE ResourceQuery ---------------------------
(* One client following a query through its continuations: the paged scan of  *)
(* QueryService (query/service.py), the staged selection of                   *)
(* RichRetrievalService and RetrievalService, and the selection, digest, page *)
(* and byte bound of ResourceQueryService (resource_query/service.py), while  *)
(* synchronization and enrichment change what is read.                        *)
EXTENDS ResourceReads, FiniteSetsExt

CONSTANTS
    PathKey, Safe,      \* what a location sorts as; those with a safe relative path
    RecentWindow,       \* the 30 days of a recent query without observed_from
    PageLimit,          \* _PAGE_LIMIT
    ProviderLimit,      \* _PROVIDER_SEMANTIC_CANDIDATE_LIMIT
    Size, MaxBytes,     \* serialized size of each Resource, and of a result at most
    MaxNow, MaxAssetChanges, MaxTimeouts    \* bounds of the model

ASSUME QueryAssumption ==
    /\ PageLimit \in Nat \ {0} /\ ProviderLimit \in Nat \ {0} /\ RecentWindow \in Nat
    /\ \A p \in Safe : PathKey[p] \in Nat
    /\ MaxBytes \in Nat /\ \A r \in Resources : Size[r] \in Nat /\ Size[r] <= MaxBytes
    /\ None \notin {"timeout", "scan_limit", "serialized_byte_limit", "ambiguous", "projection",
                      "changed"}

VARIABLES
    query,              \* what the client asks, the same in every call of a chain
    now, assetChanges, timeouts,
    pc,
    token,              \* the continuation in the client's hands
    offset, snapshot, expected,     \* of the call, from its continuation
    ids, found, position, scanned, more, timedOut,
    delivered,          \* every Resource the client has been given, in order
    status,             \* of the last answer
    chosen,             \* the selection of the first answer
    steady,             \* what the query would select, at every moment of the chain
    stirred             \* something it reads changed, or a call timed out, since it began

queryVars == <<assets, query, now, assetChanges, timeouts, pc, token, offset, snapshot, expected,
               ids, found, position, scanned, more, timedOut, delivered, status, chosen, steady, stirred>>
callVars == <<offset, snapshot, expected>>
scanVars == <<ids, found, position, scanned, more, timedOut>>
clientVars == <<token, delivered, status, chosen>>
worldVars == <<assets, now, assetChanges, timeouts, steady, stirred>>

Paged == {"recent", "metadata_text", "path_tree"}
NoToken == [digest |-> None]

\* What each primary can be ordered by.
AllowedSorts(primary) ==
    CASE primary = "recent" -> {"observed", "captured"}
      [] primary = "path_tree" -> {"path", "observed", "captured"}
      [] primary = "provider_semantic" -> {"relevance"}
      [] primary = "person_label" -> {"relevance", "observed", "captured"}
      [] primary \in {"metadata_text", "observation_text"} ->
             {"relevance", "observed", "captured", "path"}

\* A query that is accepted.
IsQuery(q) ==
    /\ q.primary \in Paged \cup {"observation_text", "person_label", "provider_semantic"}
    /\ q.sort \in AllowedSorts(q.primary)
    /\ q.scan \in Nat \ {0} /\ q.limit \in Nat \ {0}
    /\ q.primary = "path_tree" => q.filters.prefix # None

Since(q, at) ==
    IF q.since # None THEN q.since
    ELSE IF q.primary = "recent" THEN at - RecentWindow ELSE 0

-----------------------------------------------------------------------------
(* What a query asks for, as one reading of the rows                          *)

\* _eligible_sources, of the Sources of a summary: the prefix is compared exactly.
EligibleIn(sources, f) ==
    {s \in sources : /\ f.provider # None => s.provider = f.provider
                     /\ f.mime # None => s.mime = f.mime
                     /\ f.prefix # None => s.location \in Below[f.prefix]}

PathsOf(sources, f) == {s.location : s \in EligibleIn(sources, f)} \cap Safe

\* The smallest path, ignoring case.
PathOf(row, f) ==
    LET paths == PathsOf(row.sources, f)
    IN  IF paths = {} THEN None
        ELSE CHOOSE p \in paths : \A o \in paths : PathKey[p] <= PathKey[o]

Taken(q, captured) == q.taken # None => captured \in q.taken
NeedsSignals(q) == q.taken # None \/ q.sort = "captured"
SignalsMatch(q, captured) == Taken(q, captured) /\ (q.sort = "captured" => captured # None)

Primary(q, at) ==
    CASE q.primary \in {"recent", "path_tree"} -> Listed(q.filters, Since(q, at), at)
      [] q.primary = "metadata_text" -> Searched(q.filters, Since(q, at), at)
      [] q.primary \in {"observation_text", "person_label"} ->
             Observed \cap Listed(q.filters, Since(q, at), at)
      [] q.primary = "provider_semantic" ->
             {r \in Listed(q.filters, Since(q, at), at) :
                 \E i \in DOMAIN Ranking : \E m \in Mapped(Ranking[i]) : m[1] = r}

\* The Resources the query selects now, for the clock of its snapshot.
Selected(q, at) ==
    {r \in Primary(q, at) :
        /\ SignalsMatch(q, assets[r].captured)
        /\ q.sort = "path" => PathOf(Summary(r), q.filters) # None}

-----------------------------------------------------------------------------
(* The world                                                                  *)

\* Every change of an Asset, its Sources or its statements.
Change(r, asset) ==
    /\ pc # "over" /\ assetChanges < MaxAssetChanges
    /\ asset # assets[r]
    /\ assets' = [assets EXCEPT ![r] = asset]
    /\ UNCHANGED <<query, now, timeouts, pc>> /\ UNCHANGED callVars
    /\ UNCHANGED scanVars /\ UNCHANGED clientVars
    /\ assetChanges' = assetChanges + 1 /\ stirred' = (stirred \/ Created[r] < snapshot)
    /\ steady' = steady \cap Selected(query, snapshot)'

\* A transaction commits an Asset it created before.
CommitAsset(r) ==
    ~assets[r].stored /\ Created[r] <= now /\ Change(r, [assets[r] EXCEPT !.stored = TRUE])

\* Synchronization moves a Source, deactivates it or finds it again.
SyncSource(r, s, active, location) ==
    /\ assets[r].stored /\ s \in assets[r].sources
    /\ Change(r, [assets[r] EXCEPT !.sources =
           (@ \ {s}) \cup {[s EXCEPT !.active = active, !.location = location]}])

\* Enrichment publishes other statements.
Restate(r, said, captured) ==
    assets[r].stored /\ Change(r, [assets[r] EXCEPT !.said = said, !.captured = captured])

Tick ==
    /\ now < MaxNow /\ pc # "over" /\ now' = now + 1
    /\ UNCHANGED <<assets, assetChanges, timeouts, steady, stirred, query, pc>>
    /\ UNCHANGED callVars /\ UNCHANGED scanVars /\ UNCHANGED clientVars

-----------------------------------------------------------------------------
(* One call                                                                   *)

\* The snapshot of a chain is the clock of its first call.
CallTime == IF token = NoToken THEN now ELSE token.snapshot

\* query_resources up to the selection.
Ask ==
    /\ pc = "client" /\ pc' = "select"
    /\ snapshot' = CallTime
    /\ offset' = IF token = NoToken THEN 0 ELSE token.offset
    /\ expected' = token.digest
    /\ ids' = <<>> /\ found' = <<>> /\ position' = None
    /\ scanned' = 0 /\ more' = FALSE /\ timedOut' = FALSE
    /\ IF token = NoToken
       THEN /\ steady' = Selected(query, now) /\ stirred' = FALSE
       ELSE UNCHANGED <<steady, stirred>>
    /\ UNCHANGED <<assets, query, now, assetChanges, timeouts>> /\ UNCHANGED clientVars

\* The cooperative budget has run out where the code looks at it.
TimeOut ==
    /\ timeouts < MaxTimeouts /\ ~timedOut
    /\ pc = "answer" \/ (pc = "select" /\ query.primary \in Paged)
    /\ timeouts' = timeouts + 1 /\ timedOut' = TRUE /\ stirred' = TRUE
    /\ pc' = "answer"
    /\ UNCHANGED <<assets, query, now, assetChanges, steady, ids, found, position, scanned, more>>
    /\ UNCHANGED callVars /\ UNCHANGED clientVars

PageSize == IF query.scan - Len(found) < PageLimit THEN query.scan - Len(found) ELSE PageLimit

RecentPage(since) == ListPage(query.filters, since, snapshot, position, PageSize + 1)
TextPage(since) == SearchPage(query.filters, since, snapshot, position, PageSize + 1)

\* One page and the row behind it.
ReadPage ==
    /\ pc = "select" /\ query.primary \in Paged
    /\ LET since == Since(query, snapshot)
       IN  ids' = IF query.primary = "metadata_text" THEN TextPage(since) ELSE RecentPage(since)
    /\ pc' = "load"
    /\ UNCHANGED <<query, found, position, scanned, more, timedOut>>
    /\ UNCHANGED worldVars /\ UNCHANGED callVars /\ UNCHANGED clientVars

\* A page's cursor names the last Resource in it.
Cursor(page, rest) == IF rest THEN Last(page) ELSE None

Row(r, rank) ==
    [ref |-> r, sources |-> Summary(r).sources, rank |-> rank, captured |-> None]

\* The summaries of the page; the next one starts behind its last Resource.
LoadPage ==
    /\ pc = "load" /\ query.primary \in Paged
    /\ LET page == SubSeq(ids, 1, IF Len(ids) < PageSize THEN Len(ids) ELSE PageSize)
       IN  /\ found' = found \o [i \in DOMAIN page |-> Row(page[i], 0)]
           /\ more' = (Len(ids) > PageSize)
           /\ position' = Cursor(page, more')
    /\ scanned' = Len(found')
    /\ pc' = IF more' /\ Len(found') < query.scan THEN "select" ELSE "answer"
    /\ ids' = <<>> /\ UNCHANGED <<query, timedOut>>
    /\ UNCHANGED worldVars /\ UNCHANGED callVars /\ UNCHANGED clientVars

Fail(outcome) ==
    /\ pc' = "over" /\ status' = outcome /\ token' = NoToken
    /\ UNCHANGED <<query, delivered, chosen>> /\ UNCHANGED scanVars
    /\ UNCHANGED worldVars /\ UNCHANGED callVars

CandidateLimit ==
    IF query.primary = "provider_semantic" /\ ProviderLimit < query.scan
    THEN ProviderLimit ELSE query.scan

\* The primary of a rich selection: statements, Person labels, or the Provider's own search.
ReadPrimary ==
    /\ pc = "select" /\ query.primary \notin Paged
    /\ ids' = CASE query.primary = "observation_text" -> ObservationText(CandidateLimit)
                [] query.primary = "person_label" -> PersonLabel(CandidateLimit)
                [] query.primary = "provider_semantic" ->
                       SubSeq(Ranking, 1, IF Len(Ranking) < CandidateLimit THEN Len(Ranking)
                                          ELSE CandidateLimit)
    /\ scanned' = Len(ids') /\ more' = (Len(ids') >= CandidateLimit)
    /\ pc' = "load"
    /\ UNCHANGED <<query, found, position, timedOut>>
    /\ UNCHANGED worldVars /\ UNCHANGED callVars /\ UNCHANGED clientVars

\* Positions of a sequence, from the first to the last.
Indexes(set) == Ranked(set, LAMBDA i, j : i < j)

\* Hits of the Provider become Resources; a hit of two Sources is ambiguous.
MapHits ==
    /\ pc = "load" /\ query.primary = "provider_semantic"
    /\ IF \E i \in DOMAIN ids : \E m, n \in Mapped(ids[i]) : m # n THEN Fail("ambiguous")
       ELSE LET known == Indexes({i \in DOMAIN ids : Mapped(ids[i]) # {}})
                resource(i) == (CHOOSE m \in Mapped(ids[i]) : TRUE)[1]
            IN  /\ found' = [k \in DOMAIN known |-> Row(resource(known[k]), known[k])]
                /\ pc' = "refine"
                /\ UNCHANGED <<query, ids, position, scanned, more, timedOut>>
                /\ UNCHANGED worldVars /\ UNCHANGED callVars /\ UNCHANGED clientVars

LoadCandidates ==
    /\ pc = "load" /\ query.primary \in {"observation_text", "person_label"}
    /\ found' = [i \in DOMAIN ids |-> Row(ids[i], i)]
    /\ pc' = "refine"
    /\ UNCHANGED <<query, ids, position, scanned, more, timedOut>>
    /\ UNCHANGED worldVars /\ UNCHANGED callVars /\ UNCHANGED clientVars

\* The filters of a rich selection, by the signals of all its candidates.
Refine ==
    /\ pc = "refine"
    /\ LET f == query.filters
           keeps(row) == LET sig == Signal(row.ref, f)
                         IN  (f # AnySource => sig.match) /\ SignalsMatch(query, sig.captured)
           signed(row) == [row EXCEPT !.captured = IF NeedsSignals(query)
                                                   THEN Signal(row.ref, f).captured ELSE None]
           kept == Indexes({i \in DOMAIN found : keeps(found[i])})
       IN  found' = [i \in DOMAIN kept |-> signed(found[kept[i]])]
    /\ pc' = "answer"
    /\ UNCHANGED <<query, ids, position, scanned, more, timedOut>>
    /\ UNCHANGED worldVars /\ UNCHANGED callVars /\ UNCHANGED clientVars

-----------------------------------------------------------------------------
(* The answer: candidates, order, digest, page, bound                         *)

\* _metadata_match: a title or name, then a path that may be shown. That a name is
\* matched in whole, at its start or within is one rank here, and the names of the
\* Sources are one with the title.
MatchRank(row) ==
    IF Title[row.ref] \in TitleHits THEN 0
    ELSE IF PathsOf(row.sources, query.filters) \cap Mentions # {} THEN 3 ELSE None

\* _query_candidate has nothing it could show for a Resource.
Unprojectable(row) ==
    \/ query.primary = "path_tree" /\ PathOf(row, query.filters) = None
    \/ query.primary = "metadata_text" /\ MatchRank(row) = None

ShownPath(row, rank) ==
    IF query.primary = "metadata_text" /\ rank = 3
    THEN PathOf([sources |-> {s \in row.sources : s.location \in Mentions}], query.filters)
    ELSE IF \/ query.primary = "path_tree" \/ query.sort = "path"
            \/ query.primary \in Paged /\ query.filters.prefix # None
    THEN PathOf(row, query.filters)
    ELSE None

Candidate(row) ==
    LET rank == IF query.primary = "metadata_text" THEN MatchRank(row) ELSE row.rank
    IN  [ref |-> row.ref, sources |-> row.sources, rank |-> rank, captured |-> row.captured,
         path |-> ShownPath(row, rank)]

\* _apply_signal_filters reads the signals once more.
Kept(row) ==
    /\ Since(query, snapshot) <= Created[row.ref] /\ Created[row.ref] < snapshot
    /\ NeedsSignals(query) => SignalsMatch(query, assets[row.ref].captured)
    /\ query.sort = "path" => row.path # None

WithSignal(row) ==
    IF NeedsSignals(query) THEN [row EXCEPT !.captured = assets[row.ref].captured] ELSE row

Precedes(a, b) ==
    LET x == a.ref
        y == b.ref
    IN  CASE query.sort = "observed" -> Newer(x, y)
          [] query.sort = "captured" ->
                 a.captured > b.captured \/ (a.captured = b.captured /\ x < y)
          [] query.sort = "path" ->
                 PathKey[a.path] < PathKey[b.path] \/ (PathKey[a.path] = PathKey[b.path] /\ x < y)
          [] query.sort = "relevance" -> a.rank < b.rank \/ (a.rank = b.rank /\ Newer(x, y))

\* No two rows are equal: they differ in their Resource or in their rank.
Candidates(rows) ==
    LET kept == {row \in {Candidate(row) : row \in Range(rows)} : Kept(row)}
        signed == {WithSignal(row) : row \in kept}
    IN  Ranked(signed, LAMBDA a, b : Precedes(a, b))

\* What a row is worth to the digest: its place and all that is shown of it.
DigestKey(row) ==
    [ref |-> row.ref, rank |-> row.rank, captured |-> row.captured, path |-> row.path,
     sources |-> {<<s.provider, s.mime>> : s \in EligibleIn(row.sources, query.filters)}]

DigestOf(rows) ==
    <<scanned, more, timedOut, [i \in DOMAIN rows |-> DigestKey(rows[i])]>>

PartialReason ==
    IF timedOut THEN "timeout"
    ELSE IF ~more THEN None
    ELSE IF /\ query.primary = "provider_semantic"
            /\ Len(found) >= offset + query.limit THEN None
    ELSE "scan_limit"

Bytes(refs) == FoldSeq(LAMBDA r, sum : Size[r] + sum, 0, refs)

\* Mutant: a result of just as many bytes as allowed is cut as well.
FittingBelow(refs) ==
    LET fits == {n \in 0..Len(refs) : n = 0 \/ Bytes(SubSeq(refs, 1, n)) < MaxBytes}
    IN  SubSeq(refs, 1, CHOOSE n \in fits : \A m \in fits : m <= n)

\* _enforce_serialized_bound drops Resources from the end until the result fits.
Fitting(refs) ==
    LET fits == {n \in 0..Len(refs) : Bytes(SubSeq(refs, 1, n)) <= MaxBytes}
    IN  SubSeq(refs, 1, CHOOSE n \in fits : \A m \in fits : m <= n)

NextToken(digest, next) == [digest |-> digest, snapshot |-> snapshot, offset |-> next]

Page ==
    LET end == IF offset + query.limit < Len(found) THEN offset + query.limit ELSE Len(found)
    IN  [i \in 1..(end - offset) |-> found[offset + i].ref]

Give(refs, next, rest, reason) ==
    /\ delivered' = delivered \o refs
    /\ chosen' = IF expected = None THEN [i \in DOMAIN found |-> found[i].ref] ELSE chosen
    /\ token' = IF rest THEN NextToken(DigestOf(found), next) ELSE NoToken
    /\ status' = reason
    /\ pc' = IF rest THEN "client" ELSE "over"

\* A page and, when there is more of the selection, the position behind it.
AnswerPage ==
    LET kept == Fitting(Page)
        next == offset + Len(kept)
    IN  IF Len(kept) < Len(Page)
        THEN Give(kept, next, TRUE, "serialized_byte_limit")
        ELSE Give(kept, next, next < Len(found) \/ (more /\ PartialReason = None), PartialReason)

ProjectionError ==
    /\ pc = "answer" /\ \E i \in DOMAIN found : Unprojectable(found[i])
    /\ Fail("projection")

\* The ordered selection, of which every page is a slice.
Select ==
    /\ pc = "answer" /\ \A i \in DOMAIN found : ~Unprojectable(found[i])
    /\ found' = Candidates(found) /\ pc' = "reply"
    /\ UNCHANGED <<query, ids, position, scanned, more, timedOut>>
    /\ UNCHANGED worldVars /\ UNCHANGED callVars /\ UNCHANGED clientVars

\* Mutant: the digest of the continuation is not looked at.
AcceptAny == TRUE

\* The selection is the one the continuation was cut from.
SameSelection == expected # None => DigestOf(found) = expected

Answer ==
    /\ pc = "reply" /\ SameSelection /\ AnswerPage
    /\ ids' = <<>> /\ found' = <<>> /\ position' = None
    /\ scanned' = 0 /\ more' = FALSE /\ timedOut' = FALSE
    /\ UNCHANGED query /\ UNCHANGED worldVars /\ UNCHANGED callVars

SelectionChanged == pc = "reply" /\ ~SameSelection /\ Fail("changed")

-----------------------------------------------------------------------------

Service == \/ TimeOut \/ ReadPage \/ LoadPage \/ ReadPrimary \/ MapHits \/ LoadCandidates
           \/ Refine \/ Select \/ Answer \/ SelectionChanged \/ ProjectionError

InitQuery(asked, world, step) ==
    /\ query = asked /\ assets = world
    /\ now = 2 /\ assetChanges = 0 /\ timeouts = 0
    /\ pc = step /\ token = NoToken /\ offset = 0 /\ snapshot = 0 /\ expected = None
    /\ ids = <<>> /\ found = <<>> /\ position = None
    /\ scanned = 0 /\ more = FALSE /\ timedOut = FALSE
    /\ delivered = <<>> /\ status = None /\ chosen = <<>> /\ steady = {} /\ stirred = FALSE

QueryNext ==
    \/ \E r \in Resources :
           \/ CommitAsset(r)
           \/ \E s \in assets[r].sources, active \in BOOLEAN, location \in Locations :
                  SyncSource(r, s, active, location)
           \/ \E said \in BOOLEAN, captured \in Captures \cup {None} : Restate(r, said, captured)
    \/ Tick \/ Ask \/ Service

\* Accepted queries, each with the rows it finds at first.
QuerySpec(cases) ==
    (\E c \in cases : InitQuery(c[1], c[2], "client")) /\ [][QueryNext]_queryVars

QueryFairness == WF_queryVars(Ask) /\ WF_queryVars(Service)

-----------------------------------------------------------------------------
(* Properties                                                                 *)

Whole == pc = "over" /\ status = None

\* Nothing that answers the query all along is missing from a chain that ends complete, whatever
\* else changed between its pages; when nothing changed it is exactly what the query selects, as
\* many as aggregation counts, in total and over all days; and nothing is in it twice, except where
\* the Provider ranks: a Resource of which it ranked two Sources is there once for each of them
\* (retrieve_resources makes a hit of every locator, and nothing after it looks for the Resource).
CompleteIsAll ==
    Whole =>
        LET q == query
            since == Since(q, snapshot)
            days == Buckets(q.filters, since, snapshot, "day")
        IN  /\ steady \subseteq Range(delivered)
            /\ q.primary # "provider_semantic" => IsInjective(delivered)
            /\ ~stirred => Range(delivered) = Selected(q, snapshot)
            /\ ~stirred /\ q.primary = "recent" /\ ~NeedsSignals(q) =>
                   /\ Total(q.filters, since, snapshot) = Len(delivered)
                   /\ MapThenSumSet(LAMBDA d : days[d], DOMAIN days) = Len(delivered)

\* The pages of a chain follow one another through one selection, the one of the first answer,
\* though every call selects anew. A chain over the catalog is refused only because something it
\* reads changed, never for what was first observed after its snapshot. The other primaries promise
\* no such thing: the limit of observation_text and person_label is taken before the snapshot
\* filters, so that a Resource observed later moves the count of what was scanned, and a Provider
\* may rank otherwise.
PagesAreOneSelection ==
    /\ IsPrefix(delivered, chosen)
    /\ status = "changed" /\ query.primary \in Paged => stirred

\* A client that goes on as long as it is given continuations comes to an end.
ChainEnds == []<>(pc = "over")
=============================================================================
