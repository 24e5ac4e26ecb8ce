------------------------------- MODULE Matcher -------------------------------
(***************************************************************************)
(* Identity V1: what one Provider fact means for the current World Model.  *)
(* Match(f) is the decision Matcher.match returns for f; it writes nothing.*)
(***************************************************************************)
EXTENDS Repository

Keep == Decide("keep", 0, 0)
NeedEvidence == Decide("evidence", 0, 0)
Fail == Decide("fail", 0, 0)

\* _get_content_evidence refuses a body whose length is not the reported size.
EvidenceRefused(f) ==
    f.evid # Null /\ f.size # Null /\ f.size # SizeOf[f.evid]

\* _require_blob_matches_content_evidence, for a Blob found by its hash.
BlobAgrees(b, f, legacyAllowed) ==
    \/ blobs[b].size = SizeOf[f.evid]
    \/ legacyAllowed /\ blobs[b].size = Null

\* An unknown (provider, external_id).  A Message never shares a Blob; a File
\* is looked up in the whole World Model, and scalar_one_or_none raises when
\* several rows carry the hash.
MatchNew(f) ==
    LET same == BlobsWithHash(f.evid) IN
    CASE f.evid = Null -> NeedEvidence
      [] f.evid # Null /\ Kind(f.key) = "message" -> Decide("create", 0, 0)
      [] f.evid # Null /\ Kind(f.key) = "file" /\ same = {} ->
            Decide("create", 0, 0)
      [] f.evid # Null /\ Kind(f.key) = "file" /\ same # {} ->
            IF \E b \in same : same = {b} /\ BlobAgrees(b, f, FALSE)
            THEN Decide("attach", CHOOSE b \in same : TRUE, 0)
            ELSE Fail

\* Mutant: is_active is not compared.
UnchangedUnlessVisible(f, row) ==
    [row EXCEPT !.active = TRUE] = RowFor(f, row.blob)

\* _source_state_is_unchanged
Unchanged(f, row) == row = RowFor(f, row.blob)

\* _same_version_requires_content_evidence
SizeDrifted(f, row) ==
    LET known == blobs[row.blob].size IN
    IF row.size # f.size
    THEN ~ (row.size = Null /\ f.size # Null /\ known = f.size)
    ELSE f.size # Null /\ known # f.size

\* Mutant: the Asset's own Blobs are not looked up.
MatchVerifiedWithoutLookup(f, row) ==
    IF blobs[row.blob].content = f.evid
    THEN IF Unchanged(f, row) THEN Keep ELSE Decide("update", row.blob, 0)
    ELSE Decide("version", 0, blobs[row.blob].asset)

\* _match_verified_existing_content: the body has been read.
MatchVerified(f, row) ==
    LET current == blobs[row.blob]
        known == BlobsInAsset(current.asset, f.evid)
    IN  IF current.content = f.evid
        THEN IF ~ BlobAgrees(row.blob, f, TRUE) THEN Fail
             ELSE IF Unchanged(f, row) THEN Keep
             ELSE Decide("update", row.blob, 0)
        ELSE IF known = {} THEN Decide("version", 0, current.asset)
             ELSE IF \E b \in known : BlobAgrees(b, f, TRUE)
             THEN Decide("update", CHOOSE b \in known : TRUE, 0)
             ELSE Fail

\* _match_existing_source: the version tag decides whether bytes are needed.
MatchExisting(f, row) ==
    IF f.evid # Null THEN MatchVerified(f, row)
    ELSE IF row.ver # f.ver \/ SizeDrifted(f, row) THEN NeedEvidence
    ELSE IF Unchanged(f, row) THEN Keep
    ELSE Decide("update", row.blob, 0)

\* Matcher.match
Match(f) ==
    IF f.key \notin DOMAIN sources
    THEN IF EvidenceRefused(f) THEN Fail ELSE MatchNew(f)
    ELSE IF assets[AssetOf(f.key)] # Kind(f.key) \/ EvidenceRefused(f)
         THEN Fail
         ELSE MatchExisting(f, sources[f.key])
=============================================================================
