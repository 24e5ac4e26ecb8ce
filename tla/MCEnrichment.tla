---------------------------- MODULE MCEnrichment ----------------------------
(* Two Resources and a batch of one: the second has its turn when the first   *)
(* has no eligible Source left. The initial state picks the extractors that   *)
(* run, and with them the Provider of the Sources and how many the first      *)
(* Resource has; the first Source is the one that changes. Or it picks a      *)
(* document to extract, with no extractor scheduled.                          *)
EXTENDS Enrichment, DocumentText

MCFormat == [b1 |-> "nextcloud_text", b2 |-> "nextcloud_pdf", b0 |-> "nextcloud_pdf",
             b3 |-> "nextcloud_docx"]
MCContents == {"b2", None}
MCFormatSets == {{"nextcloud_pdf"}}

Meta(t, label) == [modified |-> t, captured |-> t, gps |-> "g1", label |-> label]
MCMetas == {Meta("t2", "bad")}

\* A Source of content has the last of the Metas from the start, one of metadata
\* the last of the FormatSets: what the extractor does not read does not change.
Source(id, r, provider, blob, formats, scope) ==
    [id |-> id, resource |-> r, provider |-> provider, blob |-> blob, formats |-> formats,
     scope |-> scope, active |-> TRUE, meta |-> Meta("t2", "bad")]
Described(s) == [s EXCEPT !.meta = Meta("t1", "l1"), !.formats = {"nextcloud_pdf"}]

OneSource(provider, formats) ==
    <<Source(1, 1, provider, "b1", formats, None), Source(2, 2, provider, "b1", formats, "s1")>>

TwoSources(provider) ==
    <<Source(1, 1, provider, "b1", {"nextcloud_text"}, None),
      Source(2, 1, provider, "b1", {"nextcloud_text"}, "s1")>>

Documents ==
    <<Source(1, 1, "nextcloud", "b2", {"nextcloud_pdf"}, None),
      Source(2, 1, "nextcloud", "b3", {"nextcloud_docx"}, None)>>

All(rows) == [i \in DOMAIN rows |-> Described(rows[i])]

\* Extractors, Sources, and how many of the MaxChanges are spent.
Scheduled == {<<{"nextcloud_text", "nextcloud_pdf"},
                <<Source(1, 1, "nextcloud", "b1", {"nextcloud_text", "nextcloud_pdf"}, None)>>, 1>>,
              <<{"nextcloud_pdf", "nextcloud_docx"}, Documents, 2>>,
              <<{"nextcloud_text"}, TwoSources("nextcloud"), 1>>,
              <<{"immich_ocr"}, All(OneSource("immich", {})), 1>>,
              <<{"immich_metadata"}, All(TwoSources("immich")), 1>>,
              <<{"immich_geo"}, All(OneSource("immich", {})), 1>>,
              <<{"file_metadata"}, All(TwoSources("nextcloud")), 1>>,
              <<{"gmail_metadata"}, All(OneSource("gmail", {})), 1>>}

-----------------------------------------------------------------------------

Doc(kind, declared, size, same, ok, encrypted, entries, units) ==
    [kind |-> kind, declared |-> declared, size |-> size, same |-> same, wellFormed |-> ok,
     encrypted |-> encrypted, entries |-> entries, units |-> units]
Entry(name, size, packed, actual) ==
    [name |-> name, size |-> size, packed |-> packed, actual |-> actual,
     safe |-> TRUE, encrypted |-> FALSE, dir |-> FALSE]

Small == <<Entry("body", 1, 1, 1)>>
Bodies == {Entry("body", size, packed, actual) : size \in 0..3, packed \in 0..1, actual \in 0..4}
Others == {<<>>, <<Entry("other", 3, 2, 3)>>, <<Entry("other", 2, 1, 4)>>,
           <<Entry("manifest", 2, 1, 2)>>, Small,
           <<[Entry("other", 1, 1, 4) EXCEPT !.dir = TRUE]>>}

\* Texts of characters of one and of three bytes.
Texts == UNION {[1..n -> {1, 3}] : n \in 0..4}

\* Around every limit: of the stream, of the text, of the archive.
Streams == {Doc("text", d, size, same, TRUE, FALSE, <<>>, <<<<<<1>>>>>>) :
               d \in {NoSize, -1, 3, 5}, size \in 0..6, same \in BOOLEAN}
\* A text is one unit, and a table several pieces, two of them beyond the limit.
Table == <<<<1, 3>>, <<1, 1, 1, 1>>, <<3>>>>
Contained == {d \in
             {Doc(kind, NoSize, 2, TRUE, ok, enc, IF kind \in {"odt", "docx"} THEN Small ELSE <<>>, units) :
                 kind \in {"text", "pdf", "odt", "docx"}, ok \in BOOLEAN, enc \in BOOLEAN,
                 units \in {<<<<t>>>> : t \in Texts}
                           \cup {<<<<<<3>>>>, <<<<1, 3>>>>>>, <<<<<<>>>>, <<<<1>>>>, <<<<3>>>>>>,
                                 <<<<<<1>>>>, Table>>, <<<<>>, <<<<1>>, <<3>>>>>>}} :
              /\ d.kind = "text" => Len(d.units) = 1
              /\ d.kind \in {"text", "pdf"} => \A u \in DOMAIN d.units : Len(d.units[u]) = 1}
Archives == {Doc(kind, 2, 2, TRUE, TRUE, FALSE, <<b>> \o o, <<<<<<1>>>>, <<<<1>>>>>>) :
                kind \in {"odt", "docx"}, b \in Bodies, o \in Others}
MCDocuments == Streams \cup Contained \cup Archives

\* The theorem about documents speaks of these.
ASSUME DocumentsAreDocuments == \A d \in MCDocuments : IsDocument(d)

-----------------------------------------------------------------------------

Init ==
    \/ /\ \E s \in Scheduled : gens = s[1] /\ sources = s[2] /\ changes = s[3]
       /\ EnrichmentInit
       /\ doc = Doc("text", NoSize, 0, TRUE, TRUE, FALSE, <<>>, <<>>) /\ mainThread = TRUE
       /\ pc = "done" /\ sent = 0 /\ got = 0 /\ timer = FALSE
       /\ unpacked = <<>> /\ unit = 1 /\ piece = 1 /\ held = <<>> /\ text = <<>> /\ stored = 0
    \/ /\ gens = {} /\ sources = <<>> /\ changes = 0 /\ EnrichmentInit
       /\ InitDocument(MCDocuments)

Next ==
    \/ EnrichmentNext /\ UNCHANGED documentVars
    \/ DocumentNext /\ UNCHANGED enrichmentVars

Spec ==
    /\ Init /\ [][Next]_<<enrichmentVars, documentVars>>
    /\ EnrichmentFairness /\ DocumentFairness
=============================================================================
