----------------------------- MODULE Repository -----------------------------
(***************************************************************************)
(* The World Model that synchronisation writes: Assets, the Blobs that are *)
(* their content states, and the Sources that bind one Provider object to  *)
(* one Blob.  No row is ever deleted, so an Asset or a Blob is identified  *)
(* by its position in the sequence of all rows ever created; a Source is   *)
(* identified by the pair (provider, external id).                         *)
(*                                                                         *)
(* Path stands for everything a Source records of its Provider object      *)
(* besides version and size (path, name, MIME type, raw metadata).         *)
(***************************************************************************)
EXTENDS Integers, Sequences, FiniteSets

CONSTANTS
    Provider,   \* the Provider identities PDI reads ("nextcloud", "gmail", ...)
    ExtId,      \* the external ids a Provider may give its objects
    Path,       \* the directories (or result pages) a scan visits
    Content,    \* byte strings; a SHA-256 digest is identified with its bytes
    Null,       \* Python's None and SQL's NULL
    KindOf,     \* the kind of the facts a Provider's Adapter yields
    SizeOf      \* the byte length of a content

ASSUME RepositoryAssumption ==
    /\ Provider # {}
    /\ KindOf \in [Provider -> {"file", "message"}]
    /\ SizeOf \in [Content -> Nat]
    /\ Null \notin Nat
    /\ Null \notin Content

Key == Provider \X ExtId
Kind(k) == KindOf[k[1]]

Size == Nat \cup {Null}
Version == Nat \cup Content \cup {Null}

BlobRow == [asset : Nat, content : Content, size : Size]
SourceRow == [blob : Nat, path : Path, ver : Version, size : Size,
              active : BOOLEAN]

VARIABLES
    assets,     \* the resource_type of every Asset row
    blobs,      \* every Blob row
    sources     \* the Source rows, a function on the keys that have one

worldVars == <<assets, blobs, sources>>

WorldTypeOK ==
    /\ assets \in Seq({"file", "message"})
    /\ blobs \in Seq(BlobRow)
    /\ DOMAIN sources \subseteq Key
    /\ \A k \in DOMAIN sources : sources[k] \in SourceRow

ContentOf(k) == blobs[sources[k].blob].content
AssetOf(k) == blobs[sources[k].blob].asset

\* find_blob_by_hash reads every row with the hash, whatever Asset owns it.
BlobsWithHash(c) == {b \in DOMAIN blobs : blobs[b].content = c}

\* find_blob_by_hash_in_asset, and the key of uq_blobs_asset_hash.
BlobsInAsset(a, c) == {b \in BlobsWithHash(c) : blobs[b].asset = a}

ActiveSources(p) == {k \in DOMAIN sources : k[1] = p /\ sources[k].active}

-----------------------------------------------------------------------------
(***************************************************************************)
(* Facts and decisions.  A fact is what an Adapter reports of one object;  *)
(* evid is the content evidence the engine adds after reading the body.    *)
(* A decision names the rows its actions write:                            *)
(*   keep      no action                                                   *)
(*   evidence  no action, Requirement(CONTENT_EVIDENCE)                    *)
(*   fail      the Matcher or a query raised                               *)
(*   create    CREATE_ASSET, CREATE_BLOB, CREATE_SOURCE                    *)
(*   attach    CREATE_SOURCE on Blob blob                                  *)
(*   update    UPDATE_SOURCE onto Blob blob                                *)
(*   version   CREATE_BLOB in Asset asset, UPDATE_SOURCE onto it           *)
(***************************************************************************)
Fact == [key : Key, path : Path, ver : Version, size : Size,
         evid : Content \cup {Null}]

Decision == [op : {"keep", "evidence", "fail", "create", "attach", "update",
                   "version"},
             blob : Nat, asset : Nat]

Decide(op, b, a) == [op |-> op, blob |-> b, asset |-> a]

\* What _build_source and _updated_source write: the observation, active, on b.
RowFor(f, b) == [blob |-> b, path |-> f.path, ver |-> f.ver, size |-> f.size,
                 active |-> TRUE]

WithSource(k, row) ==
    [x \in DOMAIN sources \cup {k} |-> IF x = k THEN row ELSE sources[x]]

\* Mutant: the byte length is not recorded.
AddBlobWithoutSize(f, a) ==
    blobs' = Append(blobs, [asset |-> a, content |-> f.evid, size |-> Null])

AddBlob(f, a) ==
    blobs' = Append(blobs, [asset |-> a, content |-> f.evid,
                            size |-> SizeOf[f.evid]])

\* Mutant: uq_blobs_asset_hash is missing.
ConflictsOnSourceOnly(f, d) ==
    d.op \in {"create", "attach"} /\ f.key \in DOMAIN sources

\* The unique indexes that make the transaction of decision d fail.
Conflicts(f, d) ==
    \/ d.op \in {"create", "attach"} /\ f.key \in DOMAIN sources
    \/ d.op = "version" /\ BlobsInAsset(d.asset, f.evid) # {}

\* Mutant: a new content state overwrites the Source's current Blob.
ApplyInPlace(f, d) ==
    \/ /\ d.op = "create"
       /\ assets' = Append(assets, Kind(f.key))
       /\ AddBlob(f, Len(assets) + 1)
       /\ sources' = WithSource(f.key, RowFor(f, Len(blobs) + 1))
    \/ /\ d.op = "version"
       /\ blobs' = [blobs EXCEPT ![sources[f.key].blob].content = f.evid]
       /\ UNCHANGED <<assets, sources>>

\* PostgreSQLRepository.execute: every action of d, in one transaction.
Apply(f, d) ==
    \/ /\ d.op = "keep"
       /\ UNCHANGED worldVars
    \/ /\ d.op = "create"
       /\ assets' = Append(assets, Kind(f.key))
       /\ AddBlob(f, Len(assets) + 1)
       /\ sources' = WithSource(f.key, RowFor(f, Len(blobs) + 1))
    \/ /\ d.op \in {"attach", "update"}
       /\ sources' = WithSource(f.key, RowFor(f, d.blob))
       /\ UNCHANGED <<assets, blobs>>
    \/ /\ d.op = "version"
       /\ AddBlob(f, d.asset)
       /\ sources' = WithSource(f.key, RowFor(f, Len(blobs) + 1))
       /\ UNCHANGED assets

\* execute_many of one DEACTIVATE_SOURCE per key: is_active and deleted_at only.
Deactivate(K) ==
    /\ sources' = [k \in DOMAIN sources |->
                     [sources[k] EXCEPT !.active = @ /\ k \notin K]]
    /\ UNCHANGED <<assets, blobs>>
=============================================================================
