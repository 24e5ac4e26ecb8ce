--------------------------- MODULE SyncProperties ---------------------------
(***************************************************************************)
(* What synchronisation promises of the World Model.                       *)
(***************************************************************************)
EXTENDS SyncEngine

\* Every Source names a Blob row and every Blob row an Asset row, and the same
\* bytes are stored at most once under one Asset: the foreign keys and
\* uq_blobs_asset_hash, which the transactions of Matcher decisions must never
\* rely on a database error to keep.
WorldWellFormed ==
    /\ \A k \in DOMAIN sources : sources[k].blob \in DOMAIN blobs
    /\ \A b \in DOMAIN blobs : blobs[b].asset \in DOMAIN assets
    /\ \A b, c \in DOMAIN blobs :
         blobs[b].asset = blobs[c].asset /\ blobs[b].content = blobs[c].content
           => b = c

\* A Source that carries the Provider's current version tag holds the bytes the
\* Provider holds: a body is read after its fact was listed and a version tag
\* is never stored over bytes older than it, so an equal tag may stand for the
\* bytes (Matcher._match_same_version_source).  A message's bytes never change.
VersionPinsContent ==
    \A k \in DOMAIN sources :
      k[1] \notin PathAddressed
        /\ (Kind(k) = "message" \/ sources[k].ver = remote[k].ver)
        => ContentOf(k) = remote[k].content

\* The fact of object k together with the bytes its Provider serves for it.
FullFact(k) == WithEvidence(FactOf(k), remote[k].content)

\* A run that is repeated, after a crash or a lost checkpoint, over objects
\* whose state is already recorded commits nothing: Matcher.match decides
\* nothing with the body (source_content_verified_unchanged) and, for a file,
\* without reading it (source_unchanged).  Only the bytes of a row older than
\* recorded sizes are read again and again.
ReplayIsNoop ==
    \A k \in DOMAIN sources :
      remote[k].present /\ Unchanged(FullFact(k), sources[k]) =>
        /\ k[1] \notin PathAddressed => Match(FullFact(k)).op = "keep"
        /\ Kind(k) = "file" /\ sources[k].blob > Len(Legacy) =>
             Match(FactOf(k)).op = "keep"

\* Under the formal lock no transaction ever meets a unique index: the rows a
\* decision was read off are the rows it is committed to.
DecisionsNeverConflict ==
    \A w \in Worker :
      run[w].pc = "execute" => ~ Conflicts(run[w].fact, run[w].decision)

\* A Source is deactivated only if its object was absent from the Provider at
\* some instant of the run that deactivates it (SyncEngine._run_batch's
\* reconciliation of active Sources against seen_external_ids).
DeactivatedWasAbsent ==
    [][\A k \in DOMAIN sources :
         sources[k].active /\ ~ sources'[k].active =>
           \E w \in Worker : run[w].pc = "deactivate" /\ k \in run[w].gone]_vars

\* What the World Model shows of object k is what its Provider holds.
Shows(k) ==
    IF remote[k].present
    THEN /\ k \in DOMAIN sources /\ sources[k].active
         /\ sources[k].path = remote[k].path
         /\ k[1] \notin PathAddressed => ContentOf(k) = remote[k].content
    ELSE k \in DOMAIN sources => ~ sources[k].active

\* A full run that completes while the Providers held still leaves the World
\* Model showing exactly what its Provider holds, whatever earlier runs left
\* behind when they were aborted, refused or raced by changes.
StableTraversalMirrors ==
    [][\A w \in Worker :
         run[w].pc = "deactivate" /\ run'[w].pc = "idle" /\ faults' = faults
           /\ run[w].since = changes
         => \A k \in Key : k[1] = run[w].provider => Shows(k)']_vars

\* A Source never leaves the Asset it was created in, whatever its content,
\* path or activity become, and is never deleted.
SourceKeepsAsset ==
    [][\A k \in DOMAIN sources :
         k \in DOMAIN sources' /\ blobs'[sources'[k].blob].asset = AssetOf(k)]_vars

\* The content states of each Asset, and what each Source is bound to.
History ==
    [a \in DOMAIN assets |->
       {blobs[b].content : b \in {c \in DOMAIN blobs : blobs[c].asset = a}}]

BindingOf ==
    [k \in DOMAIN sources |->
       [asset |-> AssetOf(k), content |-> ContentOf(k),
        active |-> sources[k].active]]

Identity == INSTANCE ResourceIdentity WITH history <- History,
                                           binding <- BindingOf

\* Every behaviour of the engine, locked or not, is one ResourceIdentity allows:
\* no transaction, retry, conflict or reconciliation loses a content state or
\* rebinds a Source to another resource.
ImplementsIdentity == Identity!Spec

-----------------------------------------------------------------------------
(* What the transactions rely on: the strengthening of the properties above  *)
(* that every step preserves.                                                *)

\* c may be stored for object k under version tag ver.
Pins(k, ver, c) ==
    Kind(k) = "message" \/ ver = remote[k].ver => c = remote[k].content

\* A version tag that was read of object k is not newer than the object, and
\* an object of which something was read has existed.
Observed(k, ver) ==
    IF Kind(k) = "file" THEN ver \in Nat /\ ver =< remote[k].ver
    ELSE remote[k].ver > 0

FactSound(f) ==
    /\ Observed(f.key, f.ver)
    /\ f.evid # Null /\ f.key[1] \notin PathAddressed =>
         Pins(f.key, f.ver, f.evid)

\* A decision that waits for its transaction names rows that exist, of the
\* Asset its Source belongs to, with the bytes its fact speaks of.
DecisionSound(f, d) ==
    /\ d.op \in {"keep", "create", "attach", "update", "version"}
    /\ d.op \in {"create", "attach", "version"} => f.evid \in Content
    /\ d.op = "attach" => /\ d.blob \in DOMAIN blobs
                          /\ blobs[d.blob].content = f.evid
    /\ d.op = "update" => /\ f.key \in DOMAIN sources
                          /\ d.blob \in DOMAIN blobs
                          /\ blobs[d.blob].asset = AssetOf(f.key)
                          /\ f.key[1] \notin PathAddressed =>
                               Pins(f.key, f.ver, blobs[d.blob].content)
    /\ d.op = "version" => /\ f.key \in DOMAIN sources
                           /\ d.asset = AssetOf(f.key)

\* What a worker holds between two of its steps is sound for the rows and the
\* Provider as they are now, whatever other workers and the Provider did.
RunSound(r) ==
    /\ \A f \in r.page : FactSound(f) /\ f.evid = Null
    /\ r.pc \in {"match", "open", "execute"} =>
         r.fact \in Fact /\ FactSound(r.fact)
    /\ r.pc = "open" => r.fact.evid = Null
    /\ r.pc = "execute" => DecisionSound(r.fact, r.decision)

InFlightSound == \A w \in Worker : RunSound(run[w])

\* Where nothing is stored yet, nothing is claimed: a message object that was
\* never there has no facts, and stored version tags are observed ones.
StoredSound ==
    /\ \A k \in Key : remote[k].present /\ Kind(k) = "message" =>
                       remote[k].ver > 0
    /\ \A k \in DOMAIN sources : Observed(k, sources[k].ver)

\* The flock: at most one run is under way.
LockHeld ==
    UseLock => \A v, w \in Worker :
                 run[v].pc # "idle" /\ run[w].pc # "idle" => v = w

\* The inductive invariant.
Inv ==
    /\ TypeOK
    /\ WorldWellFormed
    /\ VersionPinsContent
    /\ InFlightSound
    /\ StoredSound
    /\ LockHeld

-----------------------------------------------------------------------------
(* What reconciliation, repetition and mirroring rely on.                  *)

\* A Provider that lists its objects in one place; in a Provider that has
\* several, an object may move from a place still to be listed to one that was.
ListsInOnePlace(p) == \A d, e \in PathsOf[p] : d = e

RemoteInPlace ==
    \A k \in Key : /\ remote[k].path \in PathsOf[k[1]]
                   /\ remote[k].content \in MayHold[k]

\* What a run has made of object k: its place is still to be listed, its fact
\* was listed, or it was not there at some instant of the run.
Accounted(r, k) ==
    \/ r.dirs # {}
    \/ k[2] \in r.seen
    \/ k \in r.gone
    \/ \E f \in r.page : f.key = k

TraversalSound(r) ==
    /\ r.dirs \subseteq PathsOf[r.provider]
    /\ \A k \in Key : k[1] = r.provider =>
         /\ ~ remote[k].present => k \in r.gone
         /\ r.full /\ ListsInOnePlace(r.provider) => Accounted(r, k)
    /\ r.pc = "deactivate" =>
         /\ r.full
         /\ \A k \in r.missing : k[1] = r.provider /\ k[2] \notin r.seen
         /\ r.dirs = {} /\ r.page = {}

\* A run under way accounts for every object of its Provider.
TraversalsAccount ==
    /\ RemoteInPlace
    /\ \A w \in Worker : run[w].pc # "idle" => TraversalSound(run[w])

\* The bytes that objects of one kind may have.
HeldBy(kind) == UNION {MayHold[k] : k \in {l \in Key : Kind(l) = kind}}

\* No bytes are both a file's and a message's: find_blob_by_hash does not ask
\* what the Asset of the Blob it finds is.
KindsApart == HeldBy("file") \cap HeldBy("message") = {}

\* A size that is recorded twice is recorded alike.
SizesMeet(size, known) == size = Null \/ known = Null \/ size = known

RowsAgree ==
    /\ \A b \in DOMAIN blobs :
         /\ blobs[b].content \in HeldBy(assets[blobs[b].asset])
         /\ SizesMeet(SizeOf[blobs[b].content], blobs[b].size)
         /\ b > Len(Legacy) => blobs[b].size # Null
    /\ \A k \in DOMAIN sources :
         /\ assets[AssetOf(k)] = Kind(k)
         /\ SizesMeet(sources[k].size, blobs[sources[k].blob].size)

\* A fact speaks of the bytes its kind may have, and of their size once the
\* Matcher has accepted them.
FactAgrees(r) ==
    /\ r.pc \in {"match", "open", "execute"} /\ r.fact.evid # Null =>
         /\ r.fact.evid \in HeldBy(Kind(r.fact.key))
         /\ r.pc = "execute" => SizesMeet(r.fact.size, SizeOf[r.fact.evid])
    /\ r.pc = "execute" /\ r.decision.op \in {"attach", "update"} =>
         SizesMeet(r.fact.size, blobs[r.decision.blob].size)

RecordsAgree ==
    /\ RemoteInPlace
    /\ RowsAgree
    /\ \A w \in Worker : FactAgrees(run[w])

\* A fact that is still true of its object.
Current(f) ==
    /\ remote[f.key].present
    /\ f.path = FactOf(f.key).path
    /\ f.size = FactOf(f.key).size
    /\ Kind(f.key) = "file" => f.ver = remote[f.key].ver

\* What a run during which no Provider changed has done for object k.
Mirrored(r, k) ==
    \/ remote[k].path \in r.dirs
    \/ FactOf(k) \in r.page
    \/ r.pc \in {"match", "open", "execute"} /\ r.fact.key = k
    \/ Shows(k) /\ k[2] \in r.seen

MirrorSound(r) ==
    /\ \A f \in r.page : f.key[1] = r.provider /\ Current(f)
    /\ r.pc \in {"match", "open", "execute"} =>
         /\ r.fact.key[1] = r.provider /\ r.fact.key[2] \in r.seen
         /\ Current(r.fact)
    /\ r.pc = "execute" /\ r.decision.op = "keep" => Shows(r.fact.key)
    /\ \A k \in Key : k[1] = r.provider =>
         IF remote[k].present THEN r.full /\ r.safe => Mirrored(r, k)
                              ELSE k[2] \notin r.seen
    /\ r.pc = "deactivate" =>
         /\ r.full /\ r.safe /\ r.dirs = {} /\ r.page = {}
         /\ r.missing = {k \in ActiveSources(r.provider) : k[2] \notin r.seen}

\* A run alone under the lock, while the Providers hold still.
QuietRunsMirror ==
    /\ RemoteInPlace
    /\ \A w \in Worker : run[w].pc # "idle" =>
         /\ run[w].since =< changes
         /\ run[w].since = changes => MirrorSound(run[w])

-----------------------------------------------------------------------------
\* A file whose bytes are already stored gets a Source on a stored Blob.
StoredContentIsAttached ==
    \A k \in Key \ DOMAIN sources, b \in DOMAIN blobs :
      Kind(k) = "file" /\ blobs[b].size # Null =>
        Match([FactOf(k) EXCEPT !.size = Null, !.evid = blobs[b].content]).op
          = "attach"

\* The Matcher raises for the object of k as it is: a file with no Source yet,
\* whose bytes are stored under two Assets, or in one row that recorded no size.
Refused(k) == remote[k].present /\ Match(FullFact(k)).op = "fail"

\* Whatever happened before, once the Providers stop changing and runs stop
\* being aborted, the timers' full runs bring the World Model to what a Provider
\* holds, and it stays there; unless the Provider holds a file that the Matcher
\* refuses, which ends every full run of it before reconciliation.
EventuallyMirrored ==
    \A p \in Provider :
      \/ <>[](\A k \in Key : k[1] = p => Shows(k))
      \/ <>[](\E k \in Key : k[1] = p /\ Refused(k))
=============================================================================
