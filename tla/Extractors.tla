----------------------------- MODULE Extractors -----------------------------
(* What each extractor of observation/ computes from a Resource: which of its *)
(* active Sources it reads, the fingerprint of that input, and the statements *)
(* it derives. SHA-256 is taken as injective: a fingerprint is the payload    *)
(* that is hashed.                                                            *)
EXTENDS FiniteSets, Integers, FiniteSetsExt

CONSTANTS
    None,
    Format,     \* bytes -> the document generator that can parse them
    Blank       \* the bytes without any text

Family == {"nextcloud_text", "nextcloud_pdf", "nextcloud_odt", "nextcloud_docx"}

\* exclusive_generator_family: nextcloud_text is in the family of the others,
\* and has none itself.
ExclusiveFamily(g) == IF g \in Family \ {"nextcloud_text"} THEN Family ELSE {}

ProvidersOf(g) ==
    CASE g \in Family                                            -> {"nextcloud"}
      [] g \in {"immich_metadata", "immich_geo", "immich_ocr"}   -> {"immich"}
      [] g = "gmail_metadata"                                    -> {"gmail"}
      [] g = "file_metadata"                                     -> {"nextcloud", "immich"}

\* is_eligible, source by source. A name and a MIME type may name two formats:
\* the text extractor looks at either, the others at the name only for lack of
\* a type.
EligibleSources(g, sources) ==
    {s \in sources : s.provider \in ProvidersOf(g) /\ (g \in Family => g \in s.formats)}

Digests(g, sources) == {s.blob : s \in EligibleSources(g, sources)}

\* _selected_source: the first of the Sources with the one content, or the one
\* Source; None is the error "ambiguous" or "no source".
SelectedSource(g, sources) ==
    LET eligible == EligibleSources(g, sources)
        only     == CHOOSE s \in eligible : \A t \in eligible : s.id <= t.id
        clear    == IF g \in Family THEN Cardinality(Digests(g, sources)) = 1
                    ELSE Cardinality(eligible) = 1
    IN  IF clear THEN only ELSE None

\* Where the payload names the Source: always for metadata, for content only
\* when it belongs to a Scope.
SourceKey(s) == IF s.scope = None THEN None ELSE s.id

\* What of a Source each extractor hashes.
ImmichMetadataInput(s) == [id |-> s.id, captured |-> s.meta.captured, gps |-> s.meta.gps]
ImmichGeoInput(s)      == [id |-> s.id, gps |-> s.meta.gps, label |-> s.meta.label]
FileMetadataInput(s)   == [id |-> s.id, modified |-> s.meta.modified]
GmailInput(s)          == [blob |-> s.blob, date |-> s.meta.modified]
TextInput(s)           == [blob |-> s.blob, formats |-> s.formats, key |-> SourceKey(s)]
DocumentInput(s)       == [blob |-> s.blob, formats |-> s.formats, key |-> SourceKey(s)]
OcrInput(s, regions)   == [locator |-> s.id, text |-> regions, key |-> SourceKey(s)]

\* get_asset_ocr: the answer of the account that was asked for, or an error.
Regions(s, remote) == remote[s.id]

InputOf(g, s, remote) ==
    CASE g = "immich_metadata" -> ImmichMetadataInput(s)
      [] g = "immich_geo"      -> ImmichGeoInput(s)
      [] g = "gmail_metadata"  -> GmailInput(s)
      [] g = "nextcloud_text"  -> TextInput(s)
      [] g \in Family \ {"nextcloud_text"} -> DocumentInput(s)
      [] g = "immich_ocr"      -> OcrInput(s, Regions(s, remote))

\* input_fingerprint; None is an exception. Several Immich Sources have a
\* fingerprint for metadata, and fail only later.
InputFingerprint(g, sources, remote) ==
    LET s        == SelectedSource(g, sources)
        eligible == EligibleSources(g, sources)
        payload(inputs) == [generator |-> g, inputs |-> inputs]
    IN  CASE g = "file_metadata" -> payload({FileMetadataInput(t) : t \in eligible})
          [] g \in {"immich_metadata", "immich_geo"} ->
                IF eligible = {} THEN None
                ELSE IF s = None THEN payload({t.id : t \in eligible})
                ELSE payload({InputOf(g, s, remote)})
          [] OTHER ->
                IF s = None \/ (g = "immich_ocr" /\ Regions(s, remote) = None) THEN None
                ELSE payload({InputOf(g, s, remote)})

-----------------------------------------------------------------------------
(* Statements. "bad" is a value that does not parse or has the wrong type,    *)
(* None one that is missing.                                                  *)

Fact(predicate, value) == [predicate |-> predicate, value |-> value]
Draft(predicate, value) ==
    IF value \in {None, "bad"} THEN {} ELSE {Fact(predicate, value)}

\* FileMetadataExtractor.extract: every Source has a valid time, and the same.
Consensus(times) ==
    IF Cardinality(times) = 1 THEN UNION {Draft("file.modified_at", t) : t \in times} ELSE {}

\* The text of verified bytes; _truncate_text and _normalize keep it non-empty.
Excerpt(predicate, bytes) == IF bytes \in Blank THEN {} ELSE {Fact(predicate, bytes)}

\* The statements of each extractor; None is an exception: a label that is not a
\* string, bytes that are not those of the Blob or are of another format.
ImmichMetadataFacts(s) ==
    Draft("media.captured_at", s.meta.captured) \cup Draft("media.position", s.meta.gps)

ImmichGeoFacts(s) ==
    IF s.meta.label = "bad" THEN None
    ELSE IF s.meta.gps \in {None, "bad"} THEN {} ELSE Draft("geo.label", s.meta.label)

GmailFacts(s, bytes) ==
    IF bytes # s.blob THEN None
    ELSE Excerpt("gmail.subject", s.blob) \cup Draft("gmail.internal_date", s.meta.modified)

TextFacts(s, bytes) ==
    IF bytes # s.blob \/ Format[s.blob] # "nextcloud_text" THEN None
    ELSE Excerpt("document.text_excerpt", s.blob)

DocumentFacts(g, s, bytes) ==
    IF bytes # s.blob \/ Format[s.blob] # g THEN None
    ELSE Excerpt("document.text_excerpt", s.blob)

\* The regions are normalized and joined; what is cut stays an excerpt.
OcrFacts(regions) == Excerpt("media.ocr_text", regions)

FactsOf(g, s, remote) ==
    CASE g = "immich_metadata" -> ImmichMetadataFacts(s)
      [] g = "immich_geo"      -> ImmichGeoFacts(s)
      [] g = "immich_ocr"      -> OcrFacts(Regions(s, remote))
      [] g = "gmail_metadata"  -> GmailFacts(s, remote[s.id])
      [] g = "nextcloud_text"  -> TextFacts(s, remote[s.id])
      [] g \in Family \ {"nextcloud_text"} -> DocumentFacts(g, s, remote[s.id])

\* extract, as a fingerprint and statements; None is an exception here too, which
\* no Source, or a Provider that does not answer, is as well.
Extract(g, sources, remote) ==
    LET s     == SelectedSource(g, sources)
        fp    == InputFingerprint(g, sources, remote)
        facts == IF g = "file_metadata"
                 THEN Consensus({t.meta.modified : t \in EligibleSources(g, sources)})
                 ELSE IF s = None \/ fp = None THEN None ELSE FactsOf(g, s, remote)
    IN  IF facts = None THEN None ELSE [fingerprint |-> fp, statements |-> facts]

\* _validate_statement_set: one value of a predicate.
ValidBatch(batch) ==
    \A a, b \in batch.statements : a.predicate = b.predicate => a = b
=============================================================================
