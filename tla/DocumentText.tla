---------------------------- MODULE DocumentText ----------------------------
(* From the stream of a document to its excerpt: the bounded read and the     *)
(* digest (observation/nextcloud_text.py, nextcloud_documents.py), the ZIP    *)
(* inventory and the entries actually unpacked, the parser with its deadline, *)
(* and the cut of the text. Sizes are small numbers, a text is the sequence   *)
(* of the widths of its characters in UTF-8.                                  *)
EXTENDS Integers, Sequences, FiniteSets, SequencesExt

CONSTANTS
    NoSize,
    MaxSource, MaxEntries, MaxTotal, MaxEntry, MaxBody, MaxRatio, MaxUnits,
    MaxChars,       \* MAX_EXTRACTED_CHARACTERS
    MaxStored,      \* MAX_STORED_TEXT_BYTES
    Marker,         \* the size of the truncation marker
    Chunk           \* what one read of an archive entry returns at most

ASSUME DocumentAssumption ==
    /\ Marker \in Nat /\ MaxStored \in Nat /\ Marker <= MaxStored
    /\ MaxSource \in Nat /\ MaxTotal \in Nat /\ MaxChars \in Nat /\ Chunk \in Nat

VARIABLES
    doc,            \* the document: what is declared, and what it really is
    mainThread,     \* SIGALRM can be used
    pc,
    sent, got,      \* bytes the Provider has sent, and bytes kept of them
    unpacked,       \* bytes unpacked of each archive entry so far
    timer,          \* the interval timer of the process is running
    unit, text,     \* the next page, paragraph or table; the text collected
    piece, held,    \* the next cell of that unit; what is rendered of it
    stored          \* the excerpt, as the size of what is stored

documentVars == <<doc, mainThread, pc, sent, got, unpacked, timer, unit, piece, held, text, stored>>

Parsing == {"inventory", "entries", "xml", "body", "pdf", "pages"}
Entries == DOMAIN doc.entries
Files == {e \in Entries : ~doc.entries[e].dir}
Minimum(a, b) == IF a < b THEN a ELSE b
Total(numbers) == FoldSeq(+, 0, numbers)

\* What there is to read: only an archive has entries, a text file is one unit, and
\* only a table has more pieces than one, its cells.
IsDocument(d) ==
    /\ d.kind \in {"text", "pdf", "odt", "docx"} /\ d.size \in Nat
    /\ d.units \in Seq(Seq(Seq(1..4))) /\ (d.kind = "text" => Len(d.units) = 1)
    /\ d.kind \in {"text", "pdf"} => \A u \in 1..Len(d.units) : Len(d.units[u]) = 1
    /\ d.entries = [e \in 1..Len(d.entries) |-> d.entries[e]] /\ Len(d.entries) \in Nat
    /\ \A e \in DOMAIN d.entries : /\ d.entries[e].size \in Nat /\ d.entries[e].actual \in Nat
                                  /\ d.entries[e].dir \in BOOLEAN
    /\ d.kind \in {"text", "pdf"} => d.entries = <<>>

InitDocument(documents) ==
    /\ doc \in documents /\ mainThread \in BOOLEAN
    /\ pc = "size" /\ sent = 0 /\ got = 0 /\ timer = FALSE
    /\ unpacked = [e \in Entries |-> 0] /\ unit = 1 /\ text = <<>> /\ stored = 0
    /\ piece = 1 /\ held = <<>>

\* Every error ends the extraction; leaving the with blocks stops the timer.
End(outcome) == pc' = outcome /\ timer' = FALSE
Reject == End("failed") /\ UNCHANGED <<doc, mainThread, sent, got, unpacked, unit, piece, held, text, stored>>
Proceed(next) == pc' = next /\ UNCHANGED timer

-----------------------------------------------------------------------------
(* Reading                                                                    *)

\* _validate_declared_size
CheckSize ==
    /\ pc = "size"
    /\ IF doc.declared # NoSize /\ (doc.declared < 0 \/ doc.declared > MaxSource)
       THEN Reject
       ELSE Proceed("stream") /\ UNCHANGED <<doc, mainThread, sent, got, unpacked, unit, piece, held, text, stored>>

\* One chunk, of which at most one byte more than the limit is kept.
ReadChunk(n) ==
    /\ pc = "stream" /\ sent + n <= doc.size
    /\ sent' = sent + n /\ got' = Minimum(got + n, MaxSource + 1)
    /\ IF got' > MaxSource THEN End("failed") ELSE UNCHANGED <<pc, timer>>
    /\ UNCHANGED <<doc, mainThread, unpacked, unit, piece, held, text, stored>>

StreamFails == pc = "stream" /\ Reject

\* Where the bytes of each format go.
FirstStep == CASE doc.kind = "text" -> "decode" [] doc.kind = "pdf" -> "open"
               [] doc.kind \in {"odt", "docx"} -> "archive"

\* Mutant: the digest is taken and not compared.
VerifyNothing ==
    /\ pc = "stream" /\ sent = doc.size /\ Proceed(FirstStep)
    /\ UNCHANGED <<doc, mainThread, sent, got, unpacked, unit, piece, held, text, stored>>

\* The digest of what was read against the digest of the Blob.
Verify ==
    /\ pc = "stream" /\ sent = doc.size
    /\ IF ~doc.same THEN Reject
       ELSE Proceed(FirstStep)
            /\ UNCHANGED <<doc, mainThread, sent, got, unpacked, unit, piece, held, text, stored>>

-----------------------------------------------------------------------------
(* Parsing under _parser_deadline                                             *)

\* setitimer, unless there is no signal to be had or a timer is running already.
Arm == timer' = (timer \/ mainThread)

EnterParser ==
    /\ pc \in {"open", "archive"} /\ Arm
    /\ pc' = IF pc = "open" THEN "pdf" ELSE "inventory"
    /\ UNCHANGED <<doc, mainThread, sent, got, unpacked, unit, piece, held, text, stored>>

OpenPdf ==
    /\ pc = "pdf"
    /\ IF doc.encrypted \/ ~doc.wellFormed \/ Len(doc.units) > MaxUnits THEN Reject
       ELSE Proceed("pages") /\ UNCHANGED <<doc, mainThread, sent, got, unpacked, unit, piece, held, text, stored>>

DeadlineExpires == pc \in Parsing /\ timer /\ Reject

\* _validate_zip_inventory, from the sizes the archive declares.
InventoryOk ==
    LET infos == doc.entries
    IN  /\ Len(infos) <= MaxEntries
        /\ Cardinality({infos[e].name : e \in Entries}) = Len(infos)
        /\ \A e \in Entries : /\ infos[e].safe /\ ~infos[e].encrypted
                              /\ infos[e].size <= MaxEntry
                              /\ infos[e].size > 0 => /\ infos[e].packed > 0
                                                      /\ infos[e].size <= MaxRatio * infos[e].packed
        /\ Total([e \in Entries |-> infos[e].size]) <= MaxTotal
        /\ \E e \in Files : infos[e].name = "body" /\ infos[e].size <= MaxBody

\* An encrypted DOCX is no archive at all.
Inventory ==
    /\ pc = "inventory"
    /\ IF ~InventoryOk \/ (doc.kind = "docx" /\ doc.encrypted) THEN Reject
       ELSE Proceed("entries")
            /\ UNCHANGED <<doc, mainThread, sent, got, unpacked, unit, piece, held, text, stored>>

\* Directories are passed over: nothing of them is unpacked or compared.
NextEntry == CHOOSE e \in Files : /\ unpacked[e] < doc.entries[e].actual
                                  /\ \A d \in Files : d < e => unpacked[d] = doc.entries[d].actual
Unpacked == \A e \in Files : unpacked[e] = doc.entries[e].actual
Wanted(e) == doc.entries[e].name \in IF doc.kind = "odt" THEN {"body", "manifest"} ELSE {"body"}

\* One read of one entry: what comes out is counted, whatever was declared.
Unpack ==
    /\ pc = "entries" /\ ~Unpacked
    /\ LET e == NextEntry
           n == Minimum(Chunk, doc.entries[e].actual - unpacked[e])
           now == [unpacked EXCEPT ![e] = @ + n]
       IN  /\ unpacked' = now
           /\ IF \/ now[e] > MaxEntry \/ Total(now) > MaxTotal
                 \/ Wanted(e) /\ now[e] > MaxBody
                 \/ now[e] = doc.entries[e].actual /\ now[e] # doc.entries[e].size
              THEN End("failed") ELSE UNCHANGED <<pc, timer>>
    /\ UNCHANGED <<doc, mainThread, sent, got, unit, piece, held, text, stored>>

\* An entry of which nothing came out ends here too.
EntriesRead ==
    /\ pc = "entries" /\ Unpacked
    /\ IF \E e \in Files : doc.entries[e].actual # doc.entries[e].size THEN Reject
       ELSE Proceed("xml") /\ UNCHANGED <<doc, mainThread, sent, got, unpacked, unit, piece, held, text, stored>>

\* Mutant: the inner deadline stops the timer of the outer one.
ParseXmlAlone ==
    /\ pc = "xml"
    /\ IF doc.encrypted \/ ~doc.wellFormed THEN Reject
       ELSE /\ pc' = "body" /\ timer' = FALSE
            /\ UNCHANGED <<doc, mainThread, sent, got, unpacked, unit, piece, held, text, stored>>

\* _safe_xml_root: a deadline within a deadline leaves the outer one alone.
ParseXml ==
    /\ pc = "xml"
    /\ IF doc.encrypted \/ ~doc.wellFormed THEN Reject
       ELSE Proceed("body") /\ UNCHANGED <<doc, mainThread, sent, got, unpacked, unit, piece, held, text, stored>>

\* The first characters of a text.
Cut(widths) == SubSeq(widths, 1, Minimum(Len(widths), MaxChars))

\* _CharacterCollector.add_unit: the separator and the unit, cut at the limit.
Separator == IF unit = 1 THEN <<>> ELSE IF doc.kind = "pdf" THEN <<1, 1>> ELSE <<1>>
Collected(value) == Cut(text \o Separator \o value)

Collecting == unit <= Len(doc.units) /\ Len(text) < MaxChars

AddUnit(value) ==
    /\ text' = Collected(value) /\ unit' = unit + 1 /\ piece' = 1 /\ held' = <<>>
    /\ UNCHANGED <<pc, timer, doc, mainThread, sent, got, unpacked, stored>>

\* A page is what the library says it is, however long.
AddPage == pc = "pages" /\ Collecting /\ AddUnit(doc.units[unit][1])

\* _odt_cell_text, _docx_cell_text: each paragraph of a table has a collector of its
\* own, and all of the table is rendered before the collector of the document cuts it.
RenderPiece ==
    /\ pc = "body" /\ Collecting /\ piece <= Len(doc.units[unit])
    /\ held' = held \o (IF piece = 1 THEN <<>> ELSE <<1>>) \o Cut(doc.units[unit][piece])
    /\ piece' = piece + 1
    /\ UNCHANGED <<pc, timer, doc, mainThread, sent, got, unpacked, unit, text, stored>>

AddBlock == pc = "body" /\ Collecting /\ piece > Len(doc.units[unit]) /\ AddUnit(held)

LeaveParser ==
    /\ pc \in {"body", "pages"} /\ (unit > Len(doc.units) \/ Len(text) >= MaxChars)
    /\ pc' = "cut" /\ timer' = FALSE
    /\ UNCHANGED <<doc, mainThread, sent, got, unpacked, unit, piece, held, text, stored>>

\* _decode_and_normalize: all of it, or an error.
Decode ==
    /\ pc = "decode"
    /\ IF ~doc.wellFormed \/ Len(doc.units[1][1]) > MaxChars THEN Reject
       ELSE /\ Proceed("cut") /\ text' = doc.units[1][1]
            /\ UNCHANGED <<doc, mainThread, sent, got, unpacked, unit, piece, held, stored>>

-----------------------------------------------------------------------------
(* Storing                                                                    *)

\* _truncate_text: whole characters, as many as leave room for the marker.
Truncated(widths) ==
    LET room == IF Total(widths) <= MaxStored THEN MaxStored ELSE MaxStored - Marker
        fits == {k \in 0..Len(widths) : Total(SubSeq(widths, 1, k)) <= room}
        kept == CHOOSE k \in fits : \A j \in fits : j <= k
    IN  Total(SubSeq(widths, 1, kept)) + (IF kept = Len(widths) THEN 0 ELSE Marker)

StoreExcerpt ==
    /\ pc = "cut" /\ stored' = Truncated(text) /\ Proceed("done")
    /\ UNCHANGED <<doc, mainThread, sent, got, unpacked, unit, piece, held, text>>

DocumentNext ==
    \/ CheckSize \/ Verify \/ StreamFails \/ \E n \in 1..Chunk : ReadChunk(n)
    \/ EnterParser \/ DeadlineExpires \/ Inventory \/ Unpack \/ EntriesRead \/ ParseXml \/ OpenPdf
    \/ AddPage \/ RenderPiece \/ AddBlock \/ LeaveParser \/ Decode \/ StoreExcerpt

DocumentSpec(documents) == InitDocument(documents) /\ [][DocumentNext]_documentVars

\* A request to the Provider has a timeout of its own, a timer fires; the parsers
\* are libraries and may take for ever.
DocumentFairness ==
    WF_documentVars(\/ CheckSize \/ Verify \/ \E n \in 1..Chunk : ReadChunk(n)
                    \/ EnterParser \/ DeadlineExpires \/ Decode \/ StoreExcerpt)

-----------------------------------------------------------------------------
(* Properties                                                                 *)

\* Whatever the Provider sends and an archive claims, the bytes kept and unpacked
\* stay within the limits and one chunk, and the text collected and the text stored
\* within theirs. What is rendered of one table has no limit of its own: only that
\* of a paragraph times the paragraphs it has.
ExtractionIsBounded ==
    /\ got <= MaxSource + 1
    /\ Total(unpacked) <= MaxTotal + Chunk
    /\ Len(text) <= MaxChars
    /\ Len(held) <= (piece - 1) * (MaxChars + 1)
    /\ stored <= MaxStored

\* An excerpt comes from bytes that are those of the Blob, every file of its archive
\* is of the size declared (directories are not looked at), and it is cut no earlier
\* than the marker and one character need.
ExcerptIsGenuine ==
    pc = "done" =>
        /\ doc.same /\ doc.size <= MaxSource
        /\ \A e \in Files : doc.entries[e].actual = doc.entries[e].size
        /\ stored < Total(text) => stored > MaxStored - 4

ExtractionIsSound == ExtractionIsBounded /\ ExcerptIsGenuine

\* On the main thread no document keeps the worker for ever, and the timer never
\* outlives the parser (_parser_deadline).
DocumentEnds == []<>(mainThread => pc \in {"done", "failed"} /\ ~timer)
=============================================================================
