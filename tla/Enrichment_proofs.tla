-------------------------- MODULE Enrichment_proofs --------------------------
(***************************************************************************)
(* Proof that a completed row stands for the current statements, and that  *)
(* claims and excerpts have one owner, for any number of workers, Sources, *)
(* Resources and extractors and any contents; and that what is extracted   *)
(* of a document is bounded and genuine, for any documents and limits.     *)
(***************************************************************************)
EXTENDS Enrichment, DocumentText, SequenceLemmas, FiniteSetTheorems, WellFoundedInduction, TLAPS

-----------------------------------------------------------------------------
(* Lemmas about the operators.                                             *)

\* Identifiers are ordered: a run always has a next Resource.
LEMMA MinIsMember ==
  ASSUME NEW S \in SUBSET Nat, S # {}
  PROVE  Min(S) \in S
<1>1. PICK m \in S : \A y \in S : m <= y
  BY LeastExists
<1> QED
  BY <1>1 DEF Min

\* At most one, when any two are the same.
LEMMA AtMostOne ==
  ASSUME NEW S, \A a, b \in S : a = b
  PROVE  Cardinality(S) <= 1
<1>1. CASE S = {}
  BY <1>1, FS_EmptySet
<1>2. CASE \E a : S = {a}
  BY <1>2, FS_Singleton
<1> QED
  BY <1>1, <1>2

\* The metadata of several files is one statement, if they all agree.
LEMMA ConsensusIsPromised ==
  ASSUME NEW eligible, IsFiniteSet(eligible)
  PROVE  Consensus({t.meta.modified : t \in eligible})
           = Promised([generator |-> "file_metadata",
                       inputs |-> {FileMetadataInput(t) : t \in eligible}])
<1> DEFINE times == {t.meta.modified : t \in eligible}
           inputs == {FileMetadataInput(t) : t \in eligible}
           of(i) == IF \A j \in inputs : j.modified = i.modified
                    THEN Draft("file.modified_at", i.modified) ELSE {}
           fp == [generator |-> "file_metadata", inputs |-> inputs]
<1> SUFFICES Consensus(times) = Promised(fp)
  OBVIOUS
<1>1. Promised(fp) = UNION {of(i) : i \in inputs}
  <2>1. fp.inputs = inputs /\ fp.generator = "file_metadata"
    OBVIOUS
  <2> HIDE DEF inputs, fp
  <2>2. \A i : PromisedOf(fp, i) = of(i)
    BY <2>1 DEF PromisedOf, Family
  <2> QED
    BY <2>1, <2>2 DEF Promised
<1>2. \A t \in eligible : FileMetadataInput(t).modified = t.meta.modified
  BY DEF FileMetadataInput
<1>3. IsFiniteSet(times)
  <2> DEFINE f == [t \in eligible |-> t.meta.modified]
  <2>1. f \in Surjection(eligible, times)
    BY DEF Surjection
  <2> QED
    BY <2>1, FS_Surjection
<1>4. Cardinality(times) = 1 <=> \E x : times = {x}
  BY <1>3, FS_Singleton
<1>5. CASE \E x : times = {x}
  <2>1. PICK x : times = {x}
    BY <1>5
  <2>2. Consensus(times) = Draft("file.modified_at", x)
    BY <1>4, <2>1 DEF Consensus
  <2>3. \A i \in inputs : i.modified = x
    BY <1>2, <2>1
  <2>4. inputs # {}
    BY <2>1
  <2> HIDE DEF inputs
  <2>5. \A i \in inputs : of(i) = Draft("file.modified_at", x)
    BY <2>3
  <2> HIDE DEF of
  <2>6. UNION {of(i) : i \in inputs} = Draft("file.modified_at", x)
    BY <2>4, <2>5
  <2> QED
    BY <1>1, <2>2, <2>6
<1>6. CASE ~ \E x : times = {x}
  <2>1. Consensus(times) = {}
    BY <1>4, <1>6 DEF Consensus
  <2>2. ASSUME NEW i \in inputs PROVE of(i) = {}
    <3>1. PICK t \in eligible : i = FileMetadataInput(t)
      OBVIOUS
    <3>2. PICK q \in eligible : q.meta.modified # t.meta.modified
      BY <1>6
    <3> QED
      BY <1>2, <3>1, <3>2
  <2> HIDE DEF of
  <2>3. UNION {of(i) : i \in inputs} = {}
    BY <2>2
  <2> QED
    BY <1>1, <2>1, <2>3
<1> QED
  BY <1>5, <1>6

\* What an extractor derives is what its fingerprint stands for: the bytes are
\* those the fingerprint names, and so are the metadata.
LEMMA ExtractKeepsPromise ==
  ASSUME NEW g \in Generators, NEW of, IsFiniteSet(of), NEW answers,
         Extract(g, of, answers) # None
  PROVE  LET batch == Extract(g, of, answers)
         IN  batch.statements = Promised(batch.fingerprint)
<1> DEFINE batch == Extract(g, of, answers)
           s == SelectedSource(g, of)
           fp == InputFingerprint(g, of, answers)
<1> SUFFICES batch.statements = Promised(batch.fingerprint)
  OBVIOUS
<1>1. CASE g = "file_metadata"
  <2>1. IsFiniteSet(EligibleSources(g, of))
    BY FS_Subset DEF EligibleSources
  <2>2. /\ batch.statements = Consensus({t.meta.modified : t \in EligibleSources(g, of)})
        /\ batch.fingerprint = fp
    BY <1>1 DEF Extract
  <2>3. fp = [generator |-> g, inputs |-> {FileMetadataInput(t) : t \in EligibleSources(g, of)}]
    BY <1>1 DEF InputFingerprint
  <2> QED
    BY <1>1, <2>1, <2>2, <2>3, ConsensusIsPromised
<1>2. CASE g # "file_metadata"
  <2>1. /\ s # None /\ fp # None /\ FactsOf(g, s, answers) # None
        /\ batch.statements = FactsOf(g, s, answers) /\ batch.fingerprint = fp
    BY <1>2 DEF Extract
  <2>2. fp = [generator |-> g, inputs |-> {InputOf(g, s, answers)}]
    BY <1>2, <2>1 DEF InputFingerprint, Generators, Family
  <2> DEFINE i == InputOf(g, s, answers)
  <2>3. fp.generator = g /\ Promised(fp) = PromisedOf(fp, i)
    BY <2>2 DEF Promised
  <2> HIDE DEF fp, s, batch, i
  <2>4. CASE g = "immich_ocr"
    <3>1. i = OcrInput(s, Regions(s, answers)) /\ FactsOf(g, s, answers) = OcrFacts(Regions(s, answers))
      BY <2>4 DEF i, InputOf, FactsOf, Family
    <3> QED
      BY <2>1, <2>3, <2>4, <3>1 DEF PromisedOf, OcrFacts, OcrInput, Family
  <2>5. CASE g = "gmail_metadata"
    <3>1. i = GmailInput(s) /\ FactsOf(g, s, answers) = GmailFacts(s, answers[s.id])
      BY <2>5 DEF i, InputOf, FactsOf, Family
    <3> QED
      BY <2>1, <2>3, <2>5, <3>1 DEF PromisedOf, GmailFacts, GmailInput, Family
  <2>6. CASE g = "immich_metadata"
    <3>1. i = ImmichMetadataInput(s) /\ FactsOf(g, s, answers) = ImmichMetadataFacts(s)
      BY <2>6 DEF i, InputOf, FactsOf, Family
    <3> QED
      BY <2>1, <2>3, <2>6, <3>1 DEF PromisedOf, ImmichMetadataFacts, ImmichMetadataInput, Family
  <2>7. CASE g = "immich_geo"
    <3>1. i = ImmichGeoInput(s) /\ FactsOf(g, s, answers) = ImmichGeoFacts(s)
      BY <2>7 DEF i, InputOf, FactsOf, Family
    <3> QED
      BY <2>1, <2>3, <2>7, <3>1 DEF PromisedOf, ImmichGeoFacts, ImmichGeoInput, Family
  <2>8. CASE g = "nextcloud_text"
    <3>1. i = TextInput(s) /\ FactsOf(g, s, answers) = TextFacts(s, answers[s.id])
      BY <2>8 DEF i, InputOf, FactsOf, Family
    <3> QED
      BY <2>1, <2>3, <2>8, <3>1 DEF PromisedOf, TextFacts, TextInput, Family
  <2>9. CASE g \in Family \ {"nextcloud_text"}
    <3>1. i = DocumentInput(s) /\ FactsOf(g, s, answers) = DocumentFacts(g, s, answers[s.id])
      BY <2>9 DEF i, InputOf, FactsOf, Family
    <3> QED
      BY <2>1, <2>3, <2>9, <3>1 DEF PromisedOf, DocumentFacts, DocumentInput, Family
  <2> QED
    BY <1>2, <2>4, <2>5, <2>6, <2>7, <2>8, <2>9 DEF Generators
<1> QED
  BY <1>1, <1>2

-----------------------------------------------------------------------------
(* The inductive invariant.                                                *)

Phases == {"idle", "input", "claim", "extract", "guard", "publish", "fail"}
Claiming == {"extract", "guard", "publish", "fail"}
Guarded(g) == ExclusiveFamily(g) # {}
RowFor(run) == <<Min(DOMAIN run.todo), run.g>>

\* A run works through some Resources, and holds only what its fingerprint promises.
IsRun(run) ==
    /\ DOMAIN run = {"g", "todo", "phase", "fp", "batch"} /\ run.phase \in Phases
    /\ run.phase # "idle" =>
         /\ run.g \in gens /\ DOMAIN run.todo # {} /\ DOMAIN run.todo \subseteq Resources
         /\ \A r \in DOMAIN run.todo : IsFiniteSet(run.todo[r])
    /\ run.phase \in {"guard", "publish"} => run.batch.statements = Promised(run.batch.fingerprint)

IsRow(row) ==
    /\ DOMAIN row = {"status", "fp", "fresh"}
    /\ row.status \in {"absent", "running", "completed", "failed"}

EnrichmentTypes ==
    /\ gens \subseteq Generators /\ IsFiniteSet(DOMAIN sources)
    /\ DOMAIN enrich = Rows /\ \A x \in Rows : IsRow(enrich[x])
    /\ DOMAIN current = Rows
    /\ assetLock \in [Resources -> Workers \cup {None}]
    /\ DOMAIN runs = Workers /\ \A w \in Workers : IsRun(runs[w])

\* No other generator of the family has a current excerpt.
NoSibling(r, g) == \A h \in gens \ {g} : Guarded(h) => current[<<r, h>>] = {}

\* An Asset is locked by who publishes, and who publishes under the guard has
\* locked it and has seen no sibling since.
LocksHeld ==
    /\ \A r \in Resources : assetLock[r] # None =>
         runs[assetLock[r]].phase = "publish" /\ ResourceOf(assetLock[r]) = r
    /\ \A w \in Workers : runs[w].phase = "publish" /\ Guarded(runs[w].g) =>
         assetLock[ResourceOf(w)] = w /\ NoSibling(ResourceOf(w), runs[w].g)

OneExcerpt ==
    \A r \in Resources : \A g, h \in gens :
        Guarded(g) /\ Guarded(h) /\ current[<<r, g>>] # {} /\ current[<<r, h>>] # {} => g = h

\* While a lease has not been lost, its claimant is alone and the row says running.
LeasesExclude ==
    \A x \in Rows \ lost :
        /\ \A v, w \in Claimants(x) : v = w
        /\ Claimants(x) # {} => enrich[x].status = "running" /\ enrich[x].fresh

EnrInv ==
    /\ EnrichmentTypes /\ CompletedMatchesStatements
    /\ LocksHeld /\ OneExcerpt /\ LeasesExclude

-----------------------------------------------------------------------------
(* What a step of one worker does to the claims and the locks.             *)

LEMMA WorkingRow ==
  ASSUME EnrInv, NEW w \in Workers, Working(w)
  PROVE  /\ ResourceOf(w) \in DOMAIN runs[w].todo /\ ResourceOf(w) \in Resources
         /\ runs[w].g \in gens /\ RowOf(w) \in Rows
<1>1. IsRun(runs[w]) /\ runs[w].phase # "idle"
  BY DEF EnrInv, EnrichmentTypes, Working
<1>2. DOMAIN runs[w].todo \in SUBSET Nat /\ DOMAIN runs[w].todo # {}
  BY <1>1, EnrichmentAssumption DEF IsRun
<1>3. ResourceOf(w) \in DOMAIN runs[w].todo
  BY <1>2, MinIsMember DEF ResourceOf
<1> QED
  BY <1>1, <1>3 DEF IsRun, RowOf, Rows

LEMMA RunMoved ==
  ASSUME EnrInv, NEW w \in Workers, NEW new, runs' = [runs EXCEPT ![w] = new]
  PROVE  /\ DOMAIN runs' = Workers /\ runs'[w] = new
         /\ \A v \in Workers : v # w => runs'[v] = runs[v]
         /\ \A v \in Workers : v # w => ResourceOf(v)' = ResourceOf(v) /\ RowOf(v)' = RowOf(v)
         /\ ResourceOf(w)' = Min(DOMAIN new.todo) /\ RowOf(w)' = RowFor(new)
BY DEF EnrInv, EnrichmentTypes, ResourceOf, RowOf, RowFor

LEMMA ClaimantsMoved ==
  ASSUME EnrInv, NEW w \in Workers, NEW new, runs' = [runs EXCEPT ![w] = new], NEW x
  PROVE  Claimants(x)' = (Claimants(x) \ {w})
                           \cup (IF new.phase \in Claiming /\ RowFor(new) = x THEN {w} ELSE {})
BY RunMoved DEF Claimants, Claiming

LEMMA ClaimantIs ==
  ASSUME NEW w \in Workers, NEW x
  PROVE  w \in Claimants(x) <=> runs[w].phase \in Claiming /\ RowOf(w) = x
BY DEF Claimants, Claiming

\* A worker that does not publish under the guard, before or after, has no lock.
LEMMA LocksMoved ==
  ASSUME EnrInv, NEW w \in Workers, NEW new, runs' = [runs EXCEPT ![w] = new],
         UNCHANGED <<gens, current, assetLock>>,
         runs[w].phase # "publish", new.phase # "publish" \/ ~Guarded(new.g)
  PROVE  LocksHeld'
<1>1. \A r \in Resources : assetLock[r] # None => assetLock[r] \in Workers /\ assetLock[r] # w
  BY DEF EnrInv, EnrichmentTypes, LocksHeld
<1>2. runs'[w] = new /\ \A v \in Workers : v # w => runs'[v] = runs[v]
  BY RunMoved
<1>3. ASSUME NEW r \in Resources, assetLock'[r] # None
      PROVE  /\ runs'[assetLock'[r]].phase = "publish"
             /\ Min(DOMAIN runs'[assetLock'[r]].todo) = r
  BY <1>1, <1>2, <1>3 DEF EnrInv, LocksHeld, ResourceOf
<1>4. ASSUME NEW v \in Workers, runs'[v].phase = "publish", Guarded(runs'[v].g)
      PROVE  /\ assetLock'[Min(DOMAIN runs'[v].todo)] = v
             /\ \A h \in gens' \ {runs'[v].g} :
                  Guarded(h) => current'[<<Min(DOMAIN runs'[v].todo), h>>] = {}
  BY <1>2, <1>4 DEF EnrInv, LocksHeld, NoSibling, ResourceOf
<1> QED
  BY <1>3, <1>4 DEF LocksHeld, NoSibling, ResourceOf

\* The worker keeps its claim or gives it up; nothing else moves.
LEMMA MoveStep ==
  ASSUME EnrInv, NEW w \in Workers, NEW new, IsRun(new), runs' = [runs EXCEPT ![w] = new],
         UNCHANGED <<gens, sources, enrich, current, assetLock, lost>>,
         runs[w].phase # "publish", new.phase # "publish" \/ ~Guarded(new.g),
         new.phase \in Claiming => runs[w].phase \in Claiming /\ RowFor(new) = RowOf(w)
  PROVE  EnrInv'
<1>1. EnrichmentTypes'
  BY RunMoved DEF EnrInv, EnrichmentTypes, IsRun, Rows, IsRow
<1>2. CompletedMatchesStatements' /\ OneExcerpt'
  BY DEF EnrInv, CompletedMatchesStatements, Rows, OneExcerpt
<1>3. LocksHeld'
  BY LocksMoved
<1>4. LeasesExclude'
  <2>1. ASSUME NEW x \in Rows PROVE Claimants(x)' \subseteq Claimants(x)
    <3>1. CASE new.phase \in Claiming /\ RowFor(new) = x
      <4>1. w \in Claimants(x)
        BY <3>1, ClaimantIs
      <4>2. Claimants(x)' = (Claimants(x) \ {w}) \cup {w}
        BY <3>1, ClaimantsMoved
      <4> QED
        BY <4>1, <4>2
    <3>2. CASE ~(new.phase \in Claiming /\ RowFor(new) = x)
      <4>1. Claimants(x)' = (Claimants(x) \ {w}) \cup {}
        BY <3>2, ClaimantsMoved
      <4> QED
        BY <4>1
    <3> QED
      BY <3>1, <3>2
  <2> QED
    BY <2>1 DEF EnrInv, LeasesExclude, Rows
<1> QED
  BY <1>1, <1>2, <1>3, <1>4 DEF EnrInv

\* The next Resource of the batch, or the end of the run.
LEMMA AdvanceMoves ==
  ASSUME EnrInv, NEW w \in Workers, Working(w), Advance(w)
  PROVE  \E new : /\ IsRun(new) /\ new.phase \in {"idle", "input"}
                  /\ runs' = [runs EXCEPT ![w] = new]
<1> DEFINE rest == DOMAIN runs[w].todo \ {ResourceOf(w)}
           next == [NoRun EXCEPT !.g = runs[w].g, !.phase = "input",
                                 !.todo = [r \in rest |-> runs[w].todo[r]]]
<1>1. runs' = [runs EXCEPT ![w] = IF rest = {} THEN NoRun ELSE next]
  BY DEF Advance
<1>2. IsRun(NoRun) /\ NoRun.phase = "idle"
  BY DEF NoRun, IsRun, Phases
<1>3. /\ DOMAIN next = {"g", "todo", "phase", "fp", "batch"} /\ next.phase = "input"
      /\ next.g = runs[w].g /\ next.todo = [r \in rest |-> runs[w].todo[r]]
  BY DEF NoRun
<1>4. rest # {} => IsRun(next)
  BY <1>3 DEF IsRun, Phases, EnrInv, EnrichmentTypes, Working
<1> HIDE DEF next, rest
<1> QED
  BY <1>1, <1>2, <1>3, <1>4

-----------------------------------------------------------------------------
(* The steps of a run.                                                     *)

LEMMA StartRunStep ==
  ASSUME EnrInv, NEW w \in Workers, NEW g \in gens, StartRun(w, g)
  PROVE  EnrInv'
<1> DEFINE todo == [r \in Batch(g) |-> Listed(r)]
           new == [NoRun EXCEPT !.g = g, !.phase = "input", !.todo = todo]
<1>1. /\ runs' = [runs EXCEPT ![w] = new] /\ Batch(g) # {} /\ runs[w].phase = "idle"
      /\ UNCHANGED <<gens, sources, enrich, current, assetLock, lost>>
  BY DEF StartRun, world, Working
<1>2. Batch(g) \subseteq Resources
  BY DEF Batch
<1>3. ASSUME NEW r PROVE IsFiniteSet(Listed(r))
  <2> DEFINE ids == {j \in DOMAIN sources : sources[j].resource = r /\ sources[j].active}
             f == [i \in ids |-> sources[i]]
  <2>1. IsFiniteSet(ids)
    BY FS_Subset DEF EnrInv, EnrichmentTypes
  <2>2. f \in Surjection(ids, Listed(r))
    BY DEF Surjection, Listed
  <2> HIDE DEF f, ids
  <2> QED
    BY <2>1, <2>2, FS_Surjection
<1>4. /\ DOMAIN new = {"g", "todo", "phase", "fp", "batch"} /\ new.phase = "input"
      /\ new.g = g /\ new.todo = todo
  BY DEF NoRun
<1>5. IsRun(new)
  BY <1>1, <1>2, <1>3, <1>4 DEF IsRun, Phases
<1> HIDE DEF new
<1> QED
  BY <1>1, <1>4, <1>5, MoveStep DEF Claiming

LEMMA ReadInputStep ==
  ASSUME EnrInv, NEW w \in Workers, ReadInput(w)
  PROVE  EnrInv'
<1>1. /\ runs[w].phase = "input" /\ Working(w)
      /\ UNCHANGED <<gens, sources, enrich, current, assetLock, lost>>
  BY DEF ReadInput, world, Working
<1>2. CASE Advance(w)
  BY <1>1, <1>2, AdvanceMoves, MoveStep DEF Claiming
<1>3. CASE \E fp : runs' = [runs EXCEPT ![w].phase = "claim", ![w].fp = fp]
  <2>1. PICK fp : runs' = [runs EXCEPT ![w].phase = "claim", ![w].fp = fp]
    BY <1>3
  <2> DEFINE new == [runs[w] EXCEPT !.phase = "claim", !.fp = fp]
  <2>2. runs' = [runs EXCEPT ![w] = new]
    BY <2>1 DEF EnrInv, EnrichmentTypes
  <2>3. IsRun(new) /\ new.phase = "claim"
    BY <1>1 DEF EnrInv, EnrichmentTypes, IsRun, Phases
  <2> HIDE DEF new
  <2> QED
    BY <1>1, <2>2, <2>3, MoveStep DEF Claiming
<1> QED
  BY <1>2, <1>3 DEF ReadInput

\* Only the phase of a run changes.
LEMMA GotoMoves ==
  ASSUME EnrInv, NEW w \in Workers, Working(w), NEW phase \in Phases \ {"idle"},
         phase \in {"guard", "publish"} => runs[w].phase \in {"guard", "publish"}, Goto(w, phase)
  PROVE  \E new : /\ IsRun(new) /\ new.phase = phase /\ RowFor(new) = RowOf(w)
                  /\ runs' = [runs EXCEPT ![w] = new]
<1> DEFINE new == [runs[w] EXCEPT !.phase = phase]
<1>1. runs' = [runs EXCEPT ![w] = new]
  BY DEF Goto, EnrInv, EnrichmentTypes
<1>2. IsRun(runs[w])
  BY DEF EnrInv, EnrichmentTypes
<1>3. /\ new.phase = phase /\ new.g = runs[w].g /\ new.todo = runs[w].todo
      /\ new.batch = runs[w].batch /\ DOMAIN new = DOMAIN runs[w]
  BY <1>2 DEF IsRun
<1> HIDE DEF new
<1>4. IsRun(new)
  BY <1>2, <1>3 DEF IsRun, Working
<1> QED
  BY <1>1, <1>3, <1>4 DEF RowFor, RowOf, ResourceOf

\* A claim is made of a row that nobody holds, or of one whose lease was lost.
LEMMA ClaimStep ==
  ASSUME EnrInv, NEW w \in Workers, Claim(w)
  PROVE  EnrInv'
<1> DEFINE x == RowOf(w)
           row == [status |-> "running", fp |-> runs[w].fp, fresh |-> TRUE]
<1>1. /\ runs[w].phase = "claim" /\ Working(w)
      /\ UNCHANGED <<gens, sources, current, assetLock, lost>>
  BY DEF Claim, world, Working
<1>2. CASE Advance(w) /\ UNCHANGED enrich
  BY <1>1, <1>2, AdvanceMoves, MoveStep DEF Claiming
<1>3. CASE /\ Claimable(enrich[x], runs[w].fp) /\ Goto(w, "extract")
           /\ enrich' = [enrich EXCEPT ![x] = row]
  <2>1. PICK new : /\ IsRun(new) /\ new.phase = "extract" /\ RowFor(new) = x
                   /\ runs' = [runs EXCEPT ![w] = new]
    BY <1>1, <1>3, GotoMoves DEF Phases
  <2>2. x \in Rows
    BY <1>1, WorkingRow
  <2> HIDE DEF x
  <2>3. /\ IsRow(row) /\ row.status = "running" /\ row.fresh
    BY DEF IsRow
  <2> HIDE DEF row
  <2>4. /\ enrich'[x] = row /\ \A y \in Rows : y # x => enrich'[y] = enrich[y]
    BY <1>3, <2>2 DEF EnrInv, EnrichmentTypes
  <2>5. EnrichmentTypes'
    BY <1>1, <1>3, <2>1, <2>3, <2>4, RunMoved DEF EnrInv, EnrichmentTypes, IsRun, Rows, IsRow
  <2>6. CompletedMatchesStatements' /\ OneExcerpt'
    BY <1>1, <2>3, <2>4 DEF EnrInv, CompletedMatchesStatements, Rows, OneExcerpt
  <2>7. LocksHeld'
    BY <1>1, <2>1, LocksMoved
  <2>8. x \notin lost => Claimants(x) = {}
    BY <1>3, <2>2 DEF EnrInv, LeasesExclude, Claimable
  <2>9. \A y : Claimants(y)' = (Claimants(y) \ {w}) \cup (IF y = x THEN {w} ELSE {})
    BY <2>1, ClaimantsMoved DEF Claiming
  <2>10. ASSUME NEW y \in Rows \ lost
         PROVE  /\ \A u, v \in Claimants(y)' : u = v
                /\ Claimants(y)' # {} => enrich'[y].status = "running" /\ enrich'[y].fresh
    <3>1. CASE y = x
      <4>1. Claimants(y)' = {w}
        BY <2>8, <2>9, <3>1
      <4> QED
        BY <2>3, <2>4, <3>1, <4>1
    <3>2. CASE y # x
      <4>1. Claimants(y)' \subseteq Claimants(y)
        BY <2>9, <3>2
      <4> QED
        BY <2>4, <3>2, <4>1 DEF EnrInv, LeasesExclude
    <3> QED
      BY <3>1, <3>2
  <2>11. LeasesExclude'
    BY <1>1, <2>10 DEF LeasesExclude, Rows
  <2> QED
    BY <2>5, <2>6, <2>7, <2>11 DEF EnrInv
<1> QED
  BY <1>2, <1>3 DEF Claim

\* What is extracted from the listed Sources keeps the promise of its fingerprint.
LEMMA DoExtractStep ==
  ASSUME EnrInv, NEW w \in Workers, DoExtract(w)
  PROVE  EnrInv'
<1> DEFINE batch == Extract(runs[w].g, runs[w].todo[ResourceOf(w)], remote)
           phase == IF ExclusiveFamily(runs[w].g) = {} THEN "publish" ELSE "guard"
<1>1. /\ runs[w].phase = "extract" /\ Working(w)
      /\ UNCHANGED <<gens, sources, enrich, current, assetLock, lost>>
  BY DEF DoExtract, world, Working
<1>2. CASE Goto(w, "fail")
  BY <1>1, <1>2, GotoMoves, MoveStep DEF Claiming, Phases
<1>3. CASE batch # None /\ runs' = [runs EXCEPT ![w].batch = batch, ![w].phase = phase]
  <2> DEFINE new == [runs[w] EXCEPT !.batch = batch, !.phase = phase]
  <2>1. runs' = [runs EXCEPT ![w] = new]
    BY <1>3 DEF EnrInv, EnrichmentTypes
  <2>2. IsRun(runs[w]) /\ runs[w].g \in Generators
    BY <1>1, WorkingRow DEF EnrInv, EnrichmentTypes
  <2>3. batch.statements = Promised(batch.fingerprint)
    <3>1. IsFiniteSet(runs[w].todo[ResourceOf(w)])
      BY <1>1, <2>2, WorkingRow DEF IsRun
    <3> QED
      BY <1>3, <2>2, <3>1, ExtractKeepsPromise
  <2> HIDE DEF batch
  <2>4. phase \in {"guard", "publish"} /\ (phase = "publish" => ~Guarded(runs[w].g))
    BY DEF Guarded
  <2> HIDE DEF phase
  <2>5. /\ new.phase = phase /\ new.batch = batch /\ new.g = runs[w].g
        /\ new.todo = runs[w].todo /\ DOMAIN new = DOMAIN runs[w]
    BY <2>2 DEF IsRun
  <2> HIDE DEF new
  <2>6. IsRun(new)
    BY <1>1, <2>2, <2>3, <2>4, <2>5 DEF IsRun, Phases
  <2>7. RowFor(new) = RowOf(w)
    BY <2>5 DEF RowFor, RowOf, ResourceOf
  <2> QED
    BY <1>1, <2>1, <2>4, <2>5, <2>6, <2>7, MoveStep DEF Claiming
<1> QED
  BY <1>2, <1>3 DEF DoExtract

LEMMA ClaimKept ==
  ASSUME EnrInv, NEW w \in Workers, NEW new, runs' = [runs EXCEPT ![w] = new],
         runs[w].phase \in Claiming, new.phase \in Claiming, RowFor(new) = RowOf(w), NEW x
  PROVE  Claimants(x)' = Claimants(x)
<1>1. CASE RowOf(w) = x
  <2>1. Claimants(x)' = (Claimants(x) \ {w}) \cup {w}
    BY <1>1, ClaimantsMoved
  <2>2. w \in Claimants(x)
    BY <1>1, ClaimantIs
  <2> QED
    BY <2>1, <2>2
<1>2. CASE RowOf(w) # x
  <2>1. Claimants(x)' = (Claimants(x) \ {w}) \cup {}
    BY <1>2, ClaimantsMoved
  <2>2. w \notin Claimants(x)
    BY <1>2, ClaimantIs
  <2> QED
    BY <2>1, <2>2
<1> QED
  BY <1>1, <1>2

\* The guard looks for a sibling under the lock that it keeps.
LEMMA GuardStep ==
  ASSUME EnrInv, NEW w \in Workers, Guard(w)
  PROVE  EnrInv'
<1> DEFINE r0 == ResourceOf(w)
           g0 == runs[w].g
<1>1. /\ runs[w].phase = "guard" /\ Working(w) /\ assetLock[r0] = None
      /\ UNCHANGED <<gens, sources, enrich, current, lost>>
  BY DEF Guard, world, Working
<1>2. CASE Goto(w, "fail") /\ UNCHANGED assetLock
  BY <1>1, <1>2, GotoMoves, MoveStep DEF Claiming, Phases
<1>3. CASE /\ ~Conflicting(r0, g0) /\ Goto(w, "publish")
           /\ assetLock' = [assetLock EXCEPT ![r0] = w]
  <2>1. PICK new : /\ IsRun(new) /\ new.phase = "publish" /\ RowFor(new) = RowOf(w)
                   /\ runs' = [runs EXCEPT ![w] = new]
    BY <1>1, <1>3, GotoMoves DEF Phases
  <2>2. r0 \in Resources /\ g0 \in gens /\ Min(DOMAIN new.todo) = r0 /\ new.g = g0
    BY <1>1, <2>1, WorkingRow DEF RowFor, RowOf
  <2>3. runs'[w] = new /\ \A v \in Workers : v # w => runs'[v] = runs[v]
    BY <2>1, RunMoved
  <2>4. EnrichmentTypes'
    <3>1. assetLock' \in [Resources -> Workers \cup {None}]
      BY <1>3 DEF EnrInv, EnrichmentTypes
    <3>2. DOMAIN runs' = Workers /\ \A v \in Workers : IsRun(runs'[v])
      BY <2>1, <2>3, RunMoved DEF EnrInv, EnrichmentTypes
    <3> QED
      BY <1>1, <3>1, <3>2 DEF EnrInv, EnrichmentTypes, IsRun, Rows, IsRow
  <2>5. CompletedMatchesStatements' /\ OneExcerpt'
    BY <1>1 DEF EnrInv, CompletedMatchesStatements, Rows, OneExcerpt
  <2>6. \A r \in Resources : assetLock[r] # None => assetLock[r] \in Workers /\ assetLock[r] # w
    BY <1>1 DEF EnrInv, EnrichmentTypes, LocksHeld
  <2> HIDE DEF r0, g0
  <2>7. /\ assetLock'[r0] = w
        /\ \A r \in Resources : r # r0 => assetLock'[r] = assetLock[r]
    BY <1>3, <2>2 DEF EnrInv, EnrichmentTypes
  <2>8. ASSUME NEW r \in Resources, assetLock'[r] # None
        PROVE  /\ runs'[assetLock'[r]].phase = "publish"
               /\ Min(DOMAIN runs'[assetLock'[r]].todo) = r
    <3>1. CASE r = r0
      BY <2>1, <2>2, <2>3, <2>7, <3>1
    <3>2. CASE r # r0
      BY <2>3, <2>6, <2>7, <2>8, <3>2 DEF EnrInv, LocksHeld, ResourceOf
    <3> QED
      BY <3>1, <3>2
  <2>9. ASSUME NEW v \in Workers, runs'[v].phase = "publish", Guarded(runs'[v].g)
        PROVE  /\ assetLock'[Min(DOMAIN runs'[v].todo)] = v
               /\ \A h \in gens' \ {runs'[v].g} :
                    Guarded(h) => current'[<<Min(DOMAIN runs'[v].todo), h>>] = {}
    <3>1. CASE v = w
      <4>1. Guarded(g0)
        BY <2>2, <2>3, <2>9, <3>1
      <4>2. \A h \in gens \ {g0} : Guarded(h) => current[<<r0, h>>] = {}
        BY <1>3, <4>1 DEF Conflicting, Guarded, ExclusiveFamily
      <4> QED
        BY <1>1, <2>2, <2>3, <2>7, <3>1, <4>2
    <3>2. CASE v # w
      <4>1. /\ assetLock[ResourceOf(v)] = v /\ NoSibling(ResourceOf(v), runs[v].g)
            /\ runs'[v] = runs[v]
        BY <2>3, <2>9, <3>2 DEF EnrInv, LocksHeld
      <4>2. ResourceOf(v) \in Resources
        BY <2>9, <4>1, WorkingRow DEF Working
      <4>3. assetLock'[ResourceOf(v)] = v
        BY <1>1, <2>7, <4>1, <4>2, EnrichmentAssumption DEF r0
      <4> QED
        BY <1>1, <4>1, <4>3 DEF ResourceOf, NoSibling
    <3> QED
      BY <3>1, <3>2
  <2>10. LocksHeld'
    BY <2>8, <2>9 DEF LocksHeld, NoSibling, ResourceOf
  <2>11. \A x : Claimants(x)' = Claimants(x)
    BY <1>1, <2>1, ClaimKept DEF Claiming
  <2>12. LeasesExclude'
    BY <1>1, <2>11 DEF EnrInv, LeasesExclude, Rows
  <2> QED
    BY <2>4, <2>5, <2>10, <2>12 DEF EnrInv
<1> QED
  BY <1>2, <1>3 DEF Guard

-----------------------------------------------------------------------------
(* The end of a claim.                                                     *)

\* The worker gives up its claim and its lock; the siblings that others look out
\* for stay without an excerpt.
LEMMA LocksReleased ==
  ASSUME EnrInv, NEW w \in Workers, NEW new, runs' = [runs EXCEPT ![w] = new],
         new.phase # "publish", assetLock' = Unlocked(w), UNCHANGED gens,
         \A v \in Workers : \A h \in gens :
           /\ v # w /\ runs[v].phase = "publish" /\ Guarded(runs[v].g)
           /\ Guarded(h) /\ h # runs[v].g
           => current'[<<ResourceOf(v), h>>] = {}
  PROVE  LocksHeld'
<1>1. runs'[w] = new /\ \A v \in Workers : v # w => runs'[v] = runs[v]
  BY RunMoved
<1>2. \A r \in Resources :
        assetLock'[r] = IF assetLock[r] = w THEN None ELSE assetLock[r]
  BY DEF Unlocked
<1>3. ASSUME NEW r \in Resources, assetLock'[r] # None
      PROVE  /\ runs'[assetLock'[r]].phase = "publish"
             /\ Min(DOMAIN runs'[assetLock'[r]].todo) = r
  <2>1. assetLock'[r] = assetLock[r] /\ assetLock[r] \in Workers /\ assetLock[r] # w
    BY <1>2, <1>3 DEF EnrInv, EnrichmentTypes
  <2> QED
    BY <1>1, <1>3, <2>1 DEF EnrInv, LocksHeld, ResourceOf
<1>4. ASSUME NEW v \in Workers, runs'[v].phase = "publish", Guarded(runs'[v].g)
      PROVE  /\ assetLock'[Min(DOMAIN runs'[v].todo)] = v
             /\ \A h \in gens' \ {runs'[v].g} :
                  Guarded(h) => current'[<<Min(DOMAIN runs'[v].todo), h>>] = {}
  <2>1. v # w /\ runs'[v] = runs[v]
    BY <1>1, <1>4
  <2>2. assetLock[ResourceOf(v)] = v /\ ResourceOf(v) \in Resources
    BY <1>4, <2>1, WorkingRow DEF EnrInv, LocksHeld, Working
  <2>3. assetLock'[ResourceOf(v)] = v
    BY <1>2, <2>1, <2>2
  <2> QED
    BY <1>4, <2>1, <2>3 DEF ResourceOf
<1> QED
  BY <1>3, <1>4 DEF LocksHeld, NoSibling, ResourceOf

\* A claim is given up, and with it what the row says of it.
LEMMA ClaimReleased ==
  ASSUME EnrInv, NEW w \in Workers, NEW new, runs' = [runs EXCEPT ![w] = new],
         new.phase \notin Claiming, UNCHANGED <<gens, lost>>,
         \A x \in Rows : \/ enrich'[x] = enrich[x]
                         \/ runs[w].phase \in Claiming /\ x = RowOf(w)
  PROVE  LeasesExclude'
<1>1. ASSUME NEW x PROVE Claimants(x)' = Claimants(x) \ {w}
  <2>1. Claimants(x)' = (Claimants(x) \ {w}) \cup {}
    BY ClaimantsMoved
  <2> QED
    BY <2>1
<1>2. ASSUME NEW x \in Rows \ lost
      PROVE  /\ \A u, v \in Claimants(x)' : u = v
             /\ Claimants(x)' # {} => enrich'[x].status = "running" /\ enrich'[x].fresh
  <2>1. CASE enrich'[x] = enrich[x]
    BY <1>1, <2>1 DEF EnrInv, LeasesExclude
  <2>2. CASE runs[w].phase \in Claiming /\ x = RowOf(w)
    <3>1. w \in Claimants(x)
      BY <2>2, ClaimantIs
    <3>2. Claimants(x)' = {}
      BY <1>1, <3>1 DEF EnrInv, LeasesExclude
    <3> QED
      BY <3>2
  <2> QED
    BY <2>1, <2>2
<1> QED
  BY <1>2 DEF LeasesExclude, Rows

\* What is published is what was promised, and under the guard it is alone.
LEMMA PublishStep ==
  ASSUME EnrInv, NEW w \in Workers, Publish(w)
  PROVE  EnrInv'
<1> DEFINE r0 == ResourceOf(w)
           g0 == runs[w].g
           batch == runs[w].batch
           row == [status |-> "completed", fp |-> batch.fingerprint, fresh |-> FALSE]
<1>1. /\ runs[w].phase = "publish" /\ Working(w) /\ Advance(w)
      /\ enrich' = [enrich EXCEPT ![<<r0, g0>>] = row]
      /\ current' = [current EXCEPT ![<<r0, g0>>] = batch.statements]
      /\ assetLock' = Unlocked(w)
      /\ UNCHANGED <<gens, sources, lost>>
  BY DEF Publish, world, Working, RowOf
<1>2. PICK new : /\ IsRun(new) /\ new.phase \in {"idle", "input"}
                 /\ runs' = [runs EXCEPT ![w] = new]
  BY <1>1, AdvanceMoves
<1>3. r0 \in Resources /\ g0 \in gens /\ <<r0, g0>> \in Rows
  BY <1>1, WorkingRow DEF RowOf
<1>4. batch.statements = Promised(batch.fingerprint)
  BY <1>1 DEF EnrInv, EnrichmentTypes, IsRun
<1>5. Guarded(g0) => assetLock[r0] = w /\ NoSibling(r0, g0)
  BY <1>1 DEF EnrInv, LocksHeld
<1> HIDE DEF batch
<1>6. IsRow(row) /\ row.status = "completed" /\ row.fp = batch.fingerprint
  BY DEF IsRow
<1>7. r0 = ResourceOf(w) /\ <<r0, g0>> = RowOf(w)
  BY DEF RowOf
<1> HIDE DEF row, r0, g0
<1>8. /\ enrich'[<<r0, g0>>] = row /\ current'[<<r0, g0>>] = batch.statements
      /\ \A x \in Rows : x # <<r0, g0>> => enrich'[x] = enrich[x] /\ current'[x] = current[x]
  BY <1>1, <1>3 DEF EnrInv, EnrichmentTypes
<1>9. EnrichmentTypes'
  <2>1. assetLock' \in [Resources -> Workers \cup {None}]
    BY <1>1 DEF Unlocked, EnrInv, EnrichmentTypes
  <2>2. DOMAIN runs' = Workers /\ \A v \in Workers : IsRun(runs'[v])
    BY <1>2, RunMoved DEF EnrInv, EnrichmentTypes
  <2>3. DOMAIN enrich' = Rows /\ DOMAIN current' = Rows /\ \A x \in Rows : IsRow(enrich'[x])
    BY <1>1, <1>6, <1>8 DEF EnrInv, EnrichmentTypes
  <2> QED
    BY <1>1, <2>1, <2>2, <2>3 DEF EnrInv, EnrichmentTypes, IsRun, Rows, IsRow
<1>10. CompletedMatchesStatements'
  BY <1>1, <1>4, <1>6, <1>8 DEF EnrInv, CompletedMatchesStatements, Rows
<1>11. OneExcerpt'
  <2>1. ASSUME NEW r \in Resources, NEW g \in gens, NEW h \in gens, Guarded(g), Guarded(h),
               current'[<<r, g>>] # {}, current'[<<r, h>>] # {}
        PROVE  g = h
    <3>1. <<r, g>> \in Rows /\ <<r, h>> \in Rows
      BY DEF Rows
    <3>2. CASE r = r0 /\ g = g0
      BY <1>5, <1>8, <2>1, <3>1, <3>2 DEF NoSibling
    <3>3. CASE r = r0 /\ h = g0
      BY <1>5, <1>8, <2>1, <3>1, <3>3 DEF NoSibling
    <3>4. CASE ~(r = r0 /\ g = g0) /\ ~(r = r0 /\ h = g0)
      <4>1. current[<<r, g>>] # {} /\ current[<<r, h>>] # {}
        BY <1>8, <2>1, <3>1, <3>4
      <4> QED
        BY <2>1, <4>1 DEF EnrInv, OneExcerpt
    <3> QED
      BY <3>2, <3>3, <3>4
  <2> QED
    BY <1>1, <2>1 DEF OneExcerpt
<1>12. LocksHeld'
  <2>1. ASSUME NEW v \in Workers, NEW h \in gens, v # w, runs[v].phase = "publish",
               Guarded(runs[v].g), Guarded(h), h # runs[v].g
        PROVE  current'[<<ResourceOf(v), h>>] = {}
    <3>1. assetLock[ResourceOf(v)] = v /\ NoSibling(ResourceOf(v), runs[v].g)
      BY <2>1 DEF EnrInv, LocksHeld
    <3>2. <<ResourceOf(v), h>> \in Rows
      BY <2>1, WorkingRow DEF Working, Rows
    <3>3. <<ResourceOf(v), h>> # <<r0, g0>>
      BY <1>5, <2>1, <3>1
    <3> QED
      BY <1>8, <2>1, <3>1, <3>2, <3>3 DEF NoSibling
  <2> QED
    BY <1>1, <1>2, <2>1, LocksReleased
<1>13. LeasesExclude'
  BY <1>1, <1>2, <1>7, <1>8, ClaimReleased DEF Claiming
<1> QED
  BY <1>9, <1>10, <1>11, <1>12, <1>13 DEF EnrInv

\* A publication that rolls back keeps its claim and gives up its lock.
LEMMA PublishFailsStep ==
  ASSUME EnrInv, NEW w \in Workers, PublishFails(w)
  PROVE  EnrInv'
<1>1. /\ runs[w].phase = "publish" /\ Working(w) /\ Goto(w, "fail") /\ assetLock' = Unlocked(w)
      /\ UNCHANGED <<gens, sources, enrich, current, lost>>
  BY DEF PublishFails, Working
<1>2. PICK new : /\ IsRun(new) /\ new.phase = "fail" /\ RowFor(new) = RowOf(w)
                 /\ runs' = [runs EXCEPT ![w] = new]
  BY <1>1, GotoMoves DEF Phases
<1>3. EnrichmentTypes'
  <2>1. assetLock' \in [Resources -> Workers \cup {None}]
    BY <1>1 DEF Unlocked, EnrInv, EnrichmentTypes
  <2>2. DOMAIN runs' = Workers /\ \A v \in Workers : IsRun(runs'[v])
    BY <1>2, RunMoved DEF EnrInv, EnrichmentTypes
  <2> QED
    BY <1>1, <2>1, <2>2 DEF EnrInv, EnrichmentTypes, IsRun, Rows, IsRow
<1>4. CompletedMatchesStatements' /\ OneExcerpt'
  BY <1>1 DEF EnrInv, CompletedMatchesStatements, Rows, OneExcerpt
<1>5. LocksHeld'
  <2>1. ASSUME NEW v \in Workers, NEW h \in gens, runs[v].phase = "publish",
               Guarded(runs[v].g), Guarded(h), h # runs[v].g
        PROVE  current'[<<ResourceOf(v), h>>] = {}
    BY <1>1, <2>1 DEF EnrInv, LocksHeld, NoSibling
  <2> QED
    BY <1>1, <1>2, <2>1, LocksReleased
<1>6. \A x : Claimants(x)' = Claimants(x)
  BY <1>1, <1>2, ClaimKept DEF Claiming
<1>7. LeasesExclude'
  BY <1>1, <1>6 DEF EnrInv, LeasesExclude, Rows
<1> QED
  BY <1>3, <1>4, <1>5, <1>7 DEF EnrInv

LEMMA FailStep ==
  ASSUME EnrInv, NEW w \in Workers, Fail(w)
  PROVE  EnrInv'
<1> DEFINE x == RowOf(w)
           row == [status |-> "failed", fp |-> runs[w].fp, fresh |-> FALSE]
<1>1. /\ runs[w].phase = "fail" /\ Working(w) /\ Advance(w)
      /\ enrich' = [enrich EXCEPT ![x] = row]
      /\ UNCHANGED <<gens, sources, lost, current, assetLock>>
  BY DEF Fail, world, Working
<1>2. PICK new : /\ IsRun(new) /\ new.phase \in {"idle", "input"}
                 /\ runs' = [runs EXCEPT ![w] = new]
  BY <1>1, AdvanceMoves
<1>3. x \in Rows
  BY <1>1, WorkingRow
<1>4. IsRow(row) /\ row.status = "failed"
  BY DEF IsRow
<1> HIDE DEF row
<1>5. /\ enrich'[x] = row /\ \A y \in Rows : y # x => enrich'[y] = enrich[y]
  BY <1>1, <1>3 DEF EnrInv, EnrichmentTypes
<1>6. EnrichmentTypes'
  BY <1>1, <1>2, <1>4, <1>5, RunMoved DEF EnrInv, EnrichmentTypes, IsRun, Rows, IsRow
<1>7. CompletedMatchesStatements' /\ OneExcerpt'
  BY <1>1, <1>4, <1>5 DEF EnrInv, CompletedMatchesStatements, Rows, OneExcerpt
<1>8. LocksHeld'
  BY <1>1, <1>2, LocksMoved
<1>9. LeasesExclude'
  BY <1>1, <1>2, <1>5, ClaimReleased DEF Claiming
<1> QED
  BY <1>6, <1>7, <1>8, <1>9 DEF EnrInv

LEMMA CrashStep ==
  ASSUME EnrInv, NEW w \in Workers, Crash(w)
  PROVE  EnrInv'
<1>1. /\ runs' = [runs EXCEPT ![w] = NoRun] /\ assetLock' = Unlocked(w)
      /\ UNCHANGED <<gens, sources, enrich, current, lost>>
  BY DEF Crash
<1>2. IsRun(NoRun) /\ NoRun.phase = "idle"
  BY DEF NoRun, IsRun, Phases
<1>3. EnrichmentTypes'
  <2>1. assetLock' \in [Resources -> Workers \cup {None}]
    BY <1>1 DEF Unlocked, EnrInv, EnrichmentTypes
  <2>2. DOMAIN runs' = Workers /\ \A v \in Workers : IsRun(runs'[v])
    BY <1>1, <1>2, RunMoved DEF EnrInv, EnrichmentTypes
  <2> QED
    BY <1>1, <2>1, <2>2 DEF EnrInv, EnrichmentTypes, IsRun, Rows, IsRow
<1>4. CompletedMatchesStatements' /\ OneExcerpt'
  BY <1>1 DEF EnrInv, CompletedMatchesStatements, Rows, OneExcerpt
<1>5. LocksHeld'
  <2>1. ASSUME NEW v \in Workers, NEW h \in gens, runs[v].phase = "publish",
               Guarded(runs[v].g), Guarded(h), h # runs[v].g
        PROVE  current'[<<ResourceOf(v), h>>] = {}
    BY <1>1, <2>1 DEF EnrInv, LocksHeld, NoSibling
  <2> QED
    BY <1>1, <1>2, <2>1, LocksReleased
<1>6. LeasesExclude'
  BY <1>1, <1>2, ClaimReleased DEF Claiming
<1> QED
  BY <1>3, <1>4, <1>5, <1>6 DEF EnrInv

-----------------------------------------------------------------------------
(* The world around.                                                       *)

\* A lease that ends while its owner lives is lost, and promises nothing more.
LEMMA LeaseExpiresStep ==
  ASSUME EnrInv, NEW x \in Rows, LeaseExpires(x)
  PROVE  EnrInv'
<1> DEFINE row == [enrich[x] EXCEPT !.fresh = FALSE]
<1>1. /\ enrich[x].status = "running" /\ enrich' = [enrich EXCEPT ![x] = row]
      /\ lost' = IF Claimants(x) = {} THEN lost ELSE lost \cup {x}
      /\ UNCHANGED <<gens, sources, current, assetLock, runs>>
  BY DEF LeaseExpires, EnrInv, EnrichmentTypes
<1>2. IsRow(row) /\ row.status = "running"
  BY <1>1 DEF EnrInv, EnrichmentTypes, IsRow
<1> HIDE DEF row
<1>3. enrich'[x] = row /\ \A y \in Rows : y # x => enrich'[y] = enrich[y]
  BY <1>1 DEF EnrInv, EnrichmentTypes
<1>4. EnrichmentTypes'
  BY <1>1, <1>2, <1>3 DEF EnrInv, EnrichmentTypes, IsRun, Rows, IsRow
<1>5. CompletedMatchesStatements' /\ OneExcerpt'
  BY <1>1, <1>2, <1>3 DEF EnrInv, CompletedMatchesStatements, Rows, OneExcerpt
<1>6. LocksHeld'
  BY <1>1 DEF EnrInv, LocksHeld, NoSibling, ResourceOf
<1>7. \A y : Claimants(y)' = Claimants(y)
  BY <1>1 DEF Claimants, RowOf, ResourceOf
<1>8. ASSUME NEW y \in Rows \ lost'
      PROVE  /\ \A u, v \in Claimants(y) : u = v
             /\ Claimants(y) # {} => enrich'[y].status = "running" /\ enrich'[y].fresh
  <2>1. y \notin lost /\ (y = x => Claimants(y) = {})
    BY <1>1, <1>8
  <2> QED
    BY <1>3, <2>1 DEF EnrInv, LeasesExclude
<1>9. LeasesExclude'
  BY <1>1, <1>7, <1>8 DEF LeasesExclude, Rows
<1> QED
  BY <1>4, <1>5, <1>6, <1>9 DEF EnrInv

LEMMA WorldStep ==
  ASSUME EnrInv, UNCHANGED <<gens, enrich, current, assetLock, runs, lost>>,
         DOMAIN sources' = DOMAIN sources
  PROVE  EnrInv'
<1>1. EnrichmentTypes'
  BY DEF EnrInv, EnrichmentTypes, IsRun, Rows, IsRow
<1>2. CompletedMatchesStatements' /\ OneExcerpt'
  BY DEF EnrInv, CompletedMatchesStatements, Rows, OneExcerpt
<1>3. LocksHeld'
  BY DEF EnrInv, LocksHeld, NoSibling, ResourceOf
<1>4. \A y : Claimants(y)' = Claimants(y)
  BY DEF Claimants, RowOf, ResourceOf
<1>5. LeasesExclude'
  BY <1>4 DEF EnrInv, LeasesExclude, Rows
<1> QED
  BY <1>1, <1>2, <1>3, <1>5 DEF EnrInv

LEMMA EnrInitHolds == EnrichmentInit => EnrInv
<1> SUFFICES ASSUME EnrichmentInit PROVE EnrInv
  OBVIOUS
<1>1. IsRun(NoRun) /\ NoRun.phase = "idle"
  BY DEF NoRun, IsRun, Phases
<1>2. IsRow(NoRow) /\ NoRow.status = "absent"
  BY DEF NoRow, IsRow
<1>3. \A w \in Workers : runs[w].phase = "idle"
  BY <1>1 DEF EnrichmentInit
<1>4. EnrichmentTypes
  BY <1>1, <1>2 DEF EnrichmentInit, EnrichmentTypes
<1>5. CompletedMatchesStatements /\ OneExcerpt
  BY <1>2 DEF EnrichmentInit, CompletedMatchesStatements, OneExcerpt, Rows
<1>6. LocksHeld
  BY <1>3 DEF EnrichmentInit, LocksHeld
<1>7. LeasesExclude
  BY <1>3 DEF LeasesExclude, Claimants
<1> QED
  BY <1>4, <1>5, <1>6, <1>7 DEF EnrInv

LEMMA EnrNextHolds == EnrInv /\ [EnrichmentNext]_enrichmentVars => EnrInv'
<1> SUFFICES ASSUME EnrInv, [EnrichmentNext]_enrichmentVars PROVE EnrInv'
  OBVIOUS
<1>1. ASSUME NEW w \in Workers, NEW g \in gens, StartRun(w, g) PROVE EnrInv'
  BY <1>1, StartRunStep
<1>2. ASSUME NEW w \in Workers, ReadInput(w) PROVE EnrInv'
  BY <1>2, ReadInputStep
<1>3. ASSUME NEW w \in Workers, Claim(w) PROVE EnrInv'
  BY <1>3, ClaimStep
<1>4. ASSUME NEW w \in Workers, DoExtract(w) PROVE EnrInv'
  BY <1>4, DoExtractStep
<1>5. ASSUME NEW w \in Workers, Guard(w) PROVE EnrInv'
  BY <1>5, GuardStep
<1>6. ASSUME NEW w \in Workers, Publish(w) PROVE EnrInv'
  BY <1>6, PublishStep
<1>7. ASSUME NEW w \in Workers, Fail(w) PROVE EnrInv'
  BY <1>7, FailStep
<1>8. ASSUME NEW w \in Workers, Crash(w) PROVE EnrInv'
  BY <1>8, CrashStep
<1>9. ASSUME NEW x \in Rows, LeaseExpires(x) PROVE EnrInv'
  BY <1>9, LeaseExpiresStep
<1>10. ASSUME NEW i \in DOMAIN sources, ProviderEdits(i) \/ RowChanges(i) \/ Synchronize(i)
       PROVE  EnrInv'
  <2>1. DOMAIN sources' = DOMAIN sources
    BY <1>10 DEF ProviderEdits, RowChanges, Synchronize
  <2>2. UNCHANGED <<gens, enrich, current, assetLock, runs, lost>>
    BY <1>10 DEF ProviderEdits, RowChanges, Synchronize, Change
  <2> QED
    BY <2>1, <2>2, WorldStep
<1>11. CASE UNCHANGED enrichmentVars
  BY <1>11, WorldStep DEF enrichmentVars
<1>12. ASSUME NEW w \in Workers, PublishFails(w) PROVE EnrInv'
  BY <1>12, PublishFailsStep
<1> QED
  BY <1>1, <1>2, <1>3, <1>4, <1>5, <1>6, <1>7, <1>8, <1>9, <1>10, <1>11, <1>12
     DEF EnrichmentNext

LEMMA EnrInvOwns == EnrInv => OneOwner
<1> SUFFICES ASSUME EnrInv PROVE OneOwner
  OBVIOUS
<1>1. EnrichmentTypeOK
  BY DEF EnrInv, EnrichmentTypes, IsRow, IsRun, LocksHeld, EnrichmentTypeOK, Working
<1>2. ASSUME NEW r \in Resources
      PROVE  Cardinality({g \in gens : ExclusiveFamily(g) # {} /\ current[<<r, g>>] # {}}) <= 1
  BY AtMostOne DEF EnrInv, OneExcerpt, Guarded
<1>3. ASSUME NEW x \in Rows \ lost PROVE Cardinality(Claimants(x)) <= 1
  BY AtMostOne DEF EnrInv, LeasesExclude
<1> QED
  BY <1>1, <1>2, <1>3 DEF OneOwner, OneGuardedExcerpt, ClaimsExclude

\* A completed row has the statements of the input it names, however many runs
\* overlap, die or outlive their lease, and whatever the Provider answers to each
\* of its reads (PostgreSQLObservationRepository.publish).
THEOREM CompletedIsPromised == EnrichmentSpec => []CompletedMatchesStatements
<1>1. EnrInv => CompletedMatchesStatements
  BY DEF EnrInv
<1> QED
  BY <1>1, EnrInitHolds, EnrNextHolds, PTL DEF EnrichmentSpec

\* Of the generators with an exclusive family one at most has a current excerpt,
\* and a row has one claimant unless a live owner lost its lease (mark_running,
\* and the Asset lock of publish).
THEOREM ClaimsHaveOneOwner == EnrichmentSpec => []OneOwner
  BY EnrInitHolds, EnrNextHolds, EnrInvOwns, PTL DEF EnrichmentSpec

-----------------------------------------------------------------------------
(* From the stream to the stored excerpt.                                  *)

\* The steps behind the digest, and those of each kind of document.
Verified == {"decode", "open", "archive", "cut", "done"} \cup Parsing
ArchiveRead == {"xml", "body", "cut", "done"}

DocumentTypes ==
  /\ IsDocument(doc) /\ pc \in Verified \cup {"size", "stream", "failed"}
  /\ sent \in Nat /\ got \in 0..(MaxSource + 1)
  /\ unpacked \in [Entries -> Nat] /\ \A e \in Entries : unpacked[e] <= doc.entries[e].actual
  /\ unit \in Nat \ {0} /\ text \in Seq(1..4) /\ Len(text) <= MaxChars
  /\ piece \in Nat \ {0} /\ held \in Seq(1..4) /\ Len(held) <= (piece - 1) * (MaxChars + 1)
  /\ stored \in 0..MaxStored

\* What is known of a document at each step of its extraction.
StepsAreEarned ==
  /\ pc = "size" => sent = 0 /\ got = 0
  /\ pc = "stream" => got = sent /\ got <= MaxSource
  /\ pc \in Verified => doc.same /\ doc.size <= MaxSource
  /\ pc = "decode" => doc.kind = "text"
  /\ pc \in {"open", "pdf", "pages"} => doc.kind = "pdf"
  /\ pc \in ArchiveRead => \A e \in Files : doc.entries[e].actual = doc.entries[e].size
  /\ Total(unpacked) <= IF pc = "failed" THEN MaxTotal + Chunk ELSE MaxTotal
  /\ pc = "done" => (stored < Total(text) => stored > MaxStored - 4)

DocumentInv == DocumentTypes /\ StepsAreEarned

LEMMA TotalIs == ASSUME NEW f PROVE Total(f) = SumOver(f, DOMAIN f)
  BY DEF Total, SumOver, FoldSeq, FoldFunction

LEMMA EntriesAre ==
  ASSUME DocumentTypes
  PROVE  /\ Len(doc.entries) \in Nat /\ Entries = 1..Len(doc.entries)
         /\ IsFiniteSet(Entries) /\ DOMAIN unpacked = Entries
         /\ Total(unpacked) = SumOver(unpacked, Entries) /\ Total(unpacked) \in Nat
<1>1. Len(doc.entries) \in Nat /\ Entries = 1..Len(doc.entries)
  BY DEF DocumentTypes, IsDocument, Entries
<1>2. IsFiniteSet(Entries)
  BY <1>1, FS_Interval
<1>3. DOMAIN unpacked = Entries /\ \A e \in Entries : unpacked[e] \in Nat
  BY DEF DocumentTypes
<1>4. Total(unpacked) = SumOver(unpacked, Entries)
  BY <1>3, TotalIs
<1>5. SumOver(unpacked, Entries) \in Nat
  BY <1>2, <1>3, SumFacts
<1> QED
  BY <1>1, <1>2, <1>3, <1>4, <1>5

\* The cut of a text: whole characters, with room for the marker.
LEMMA TruncatedIs ==
  ASSUME NEW widths \in Seq(1..4)
  PROVE  /\ Truncated(widths) \in 0..MaxStored
         /\ Truncated(widths) < Total(widths) => Truncated(widths) > MaxStored - 4
<1> DEFINE room == IF Total(widths) <= MaxStored THEN MaxStored ELSE MaxStored - Marker
           part(k) == SumOver(widths, 1..k)
           n == Len(widths)
           fits == {k \in 0..n : Total(SubSeq(widths, 1, k)) <= room}
           Largest(k) == \A j \in fits : j <= k
           kept == CHOOSE k \in fits : Largest(k)
<1>1. widths \in Seq(Nat) /\ n \in Nat /\ DOMAIN widths = 1..n /\ \A i \in 1..n : widths[i] \in 1..4
  OBVIOUS
<1>2. \A k \in 0..n :
         /\ Total(SubSeq(widths, 1, k)) = part(k) /\ part(k) \in Nat /\ part(k) <= part(n)
         /\ k = 0 => part(k) = 0
         /\ k < n => part(k + 1) = widths[k + 1] + part(k)
  <2> TAKE k \in 0..n
  <2>1. Total(SubSeq(widths, 1, k)) = SumOver(SubSeq(widths, 1, k), DOMAIN SubSeq(widths, 1, k))
    BY TotalIs
  <2> QED
    BY <1>1, <2>1, PrefixSum
<1>3. Total(widths) = part(n)
  BY <1>1, TotalIs
<1>4. room \in Nat /\ MaxStored \in Nat /\ Marker \in Nat /\ room <= MaxStored /\ part(n) \in Nat
  BY <1>1, <1>2, <1>3, DocumentAssumption
<1> HIDE DEF part, room
<1>5. kept \in fits /\ Largest(kept)
  <2>1. fits \in SUBSET (0..n) /\ 0 \in fits
    BY <1>1, <1>2, <1>4
  <2> HIDE DEF fits
  <2>2. \E k \in fits : Largest(k)
    BY <1>1, <2>1, GreatestExists
  <2> HIDE DEF Largest
  <2> QED
    BY <2>2
<1>6. Truncated(widths) = Total(SubSeq(widths, 1, kept)) + (IF kept = n THEN 0 ELSE Marker)
  BY DEF Truncated, room
<1> HIDE DEF kept
<1>7. kept \in 0..n /\ part(kept) <= room /\ part(kept) \in Nat /\ part(kept) <= part(n)
  BY <1>2, <1>5
<1>8. Truncated(widths) = part(kept) + (IF kept = n THEN 0 ELSE Marker)
  BY <1>2, <1>6, <1>7
<1>9. CASE kept = n
  <2>1. Truncated(widths) = part(n)
    BY <1>4, <1>8, <1>9
  <2> QED
    BY <1>3, <1>4, <1>7, <1>9, <2>1
<1>10. CASE kept # n
  <2>0. n \in Nat /\ kept \in 0..n
    BY <1>1, <1>7
  <2> HIDE DEF n
  <2>1. kept + 1 \in 0..n /\ kept + 1 \in 1..n /\ kept < n
    BY ONLY <2>0, <1>10
  <2>2. part(kept + 1) \in Nat /\ part(kept + 1) <= part(n) /\ part(kept + 1) = widths[kept + 1] + part(kept)
    BY <1>2, <1>7, <2>1
  <2>3. widths[kept + 1] \in 1..4
    BY <1>1, <2>1
  <2>4. ~(part(kept + 1) <= room)
    <3>1. kept + 1 \notin fits
      <4> HIDE DEF fits
      <4> QED
        BY <1>1, <1>5, <1>7
    <3> QED
      BY <1>2, <2>1, <3>1
  <2>5. room = MaxStored - Marker
    BY <1>3, <1>4, <2>2, <2>4 DEF room
  <2>6. Truncated(widths) = part(kept) + Marker
    BY <1>8, <1>10
  <2>7. part(kept) + Marker <= MaxStored
    BY ONLY <1>4, <1>7, <2>5
  <2>8. part(kept) + 4 > MaxStored - Marker
    BY ONLY <1>4, <1>7, <2>2, <2>3, <2>4, <2>5
  <2>9. part(kept) + Marker \in 0..MaxStored /\ part(kept) + Marker > MaxStored - 4
    BY ONLY <1>4, <1>7, <2>7, <2>8
  <2> QED
    BY <2>6, <2>9
<1> QED
  BY <1>9, <1>10

\* A plain text and a PDF have no entries to check.
LEMMA NoEntries ==
  ASSUME DocumentTypes, doc.kind \in {"text", "pdf"}
  PROVE  Files = {}
  BY DEF DocumentTypes, IsDocument, Entries, Files

\* The steps that only go on.
LEMMA ProceedStep ==
  ASSUME DocumentInv, UNCHANGED <<doc, sent, got, unpacked, unit, piece, held, text, stored>>,
         pc' \in (Verified \ {"done"}) \cup {"stream", "failed"},
         pc' = "stream" => pc = "size",
         pc' \in Verified => doc.same /\ doc.size <= MaxSource,
         pc' = "decode" => doc.kind = "text",
         pc' \in {"open", "pdf", "pages"} => doc.kind = "pdf",
         pc' \in ArchiveRead => \A e \in Files : doc.entries[e].actual = doc.entries[e].size,
         pc # "failed"
  PROVE  DocumentInv'
<1>1. Entries' = Entries /\ Files' = Files /\ Total(unpacked)' = Total(unpacked)
  BY DEF Entries, Files
<1>2. DocumentTypes'
  BY <1>1 DEF DocumentInv, DocumentTypes
<1>3. Total(unpacked) <= MaxTotal /\ Total(unpacked) \in Nat /\ MaxTotal \in Nat /\ Chunk \in Nat
  BY EntriesAre, DocumentAssumption DEF DocumentInv, StepsAreEarned
<1>4. Total(unpacked) <= MaxTotal + Chunk
  BY ONLY <1>3
<1>5. pc' = "stream" => got = sent /\ got <= MaxSource
  BY DocumentAssumption DEF DocumentInv, StepsAreEarned
<1>6. pc' # "size" /\ pc' # "done"
  BY DEF Verified, Parsing
<1>7. StepsAreEarned'
  BY <1>1, <1>3, <1>4, <1>5, <1>6 DEF StepsAreEarned
<1> QED
  BY <1>2, <1>7 DEF DocumentInv

LEMMA RejectStep ==
  ASSUME DocumentInv, Reject, pc \notin {"failed", "done"}
  PROVE  DocumentInv'
  BY ProceedStep DEF Reject, End, Verified, Parsing, ArchiveRead

LEMMA CheckSizeStep == ASSUME DocumentInv, CheckSize PROVE DocumentInv'
<1>1. CASE Reject
  BY <1>1, RejectStep DEF CheckSize
<1>2. CASE pc' = "stream" /\ UNCHANGED <<doc, sent, got, unpacked, unit, piece, held, text, stored>>
  BY <1>2, ProceedStep DEF CheckSize, Verified, Parsing, ArchiveRead
<1> QED
  BY <1>1, <1>2 DEF CheckSize, Proceed

LEMMA VerifyStep == ASSUME DocumentInv, Verify PROVE DocumentInv'
<1>1. CASE ~doc.same
  <2>1. Reject /\ pc = "stream"
    BY <1>1 DEF Verify
  <2> QED
    BY <2>1, RejectStep
<1>2. CASE doc.same
  <2>1. pc = "stream" /\ pc' = FirstStep /\ UNCHANGED <<doc, sent, got, unpacked, unit, piece, held, text, stored>>
    BY <1>2 DEF Verify, Proceed
  <2>2. doc.kind \in {"text", "pdf", "odt", "docx"}
    BY DEF DocumentInv, DocumentTypes, IsDocument
  <2>3. /\ pc' \in {"decode", "open", "archive"}
        /\ pc' = "decode" => doc.kind = "text"
        /\ pc' = "open" => doc.kind = "pdf"
    BY <2>1, <2>2 DEF FirstStep
  <2>4. doc.size <= MaxSource
    BY <2>1 DEF Verify, DocumentInv, StepsAreEarned
  <2> QED
    BY <1>2, <2>1, <2>3, <2>4, ProceedStep DEF Verified, Parsing, ArchiveRead
<1> QED
  BY <1>1, <1>2

LEMMA ReadChunkStep ==
  ASSUME DocumentInv, NEW n \in 1..Chunk, ReadChunk(n)
  PROVE  DocumentInv'
<1>1. /\ pc = "stream" /\ sent' = sent + n /\ got' = Minimum(got + n, MaxSource + 1)
      /\ IF got' > MaxSource THEN pc' = "failed" ELSE pc' = pc
      /\ UNCHANGED <<doc, unpacked, unit, piece, held, text, stored>>
  BY DEF ReadChunk, End
<1>2. got = sent /\ got \in Nat /\ MaxSource \in Nat /\ Chunk \in Nat /\ n \in Nat
  BY <1>1, DocumentAssumption DEF DocumentInv, DocumentTypes, StepsAreEarned
<1>3. got' = IF got + n < MaxSource + 1 THEN got + n ELSE MaxSource + 1
  BY <1>1 DEF Minimum
<1>4. got' \in 0..(MaxSource + 1) /\ sent' \in Nat
  BY <1>1, <1>2, <1>3
<1>5. pc' = "stream" => got' = sent' /\ got' <= MaxSource
  BY <1>1, <1>2, <1>3
<1>6. pc' \in {"stream", "failed"}
  BY <1>1
<1>7. Entries' = Entries /\ Total(unpacked)' = Total(unpacked)
  BY <1>1 DEF Entries
<1>8. Total(unpacked) <= MaxTotal /\ Total(unpacked) <= MaxTotal + Chunk
  <2>1. Total(unpacked) <= MaxTotal /\ Total(unpacked) \in Nat /\ MaxTotal \in Nat
    BY <1>1, EntriesAre, DocumentAssumption DEF DocumentInv, StepsAreEarned
  <2> QED
    BY ONLY <1>2, <2>1
<1>9. DocumentTypes'
  BY <1>1, <1>4, <1>6, <1>7 DEF DocumentInv, DocumentTypes
<1>10. StepsAreEarned'
  BY <1>1, <1>5, <1>6, <1>7, <1>8 DEF StepsAreEarned, Verified, Parsing, ArchiveRead
<1> QED
  BY <1>9, <1>10 DEF DocumentInv

LEMMA ParserSteps ==
  ASSUME DocumentInv,
         \/ EnterParser \/ OpenPdf \/ DeadlineExpires \/ Inventory \/ EntriesRead \/ ParseXml
         \/ LeaveParser \/ StreamFails
  PROVE  DocumentInv'
<1> DEFINE Same == UNCHANGED <<doc, sent, got, unpacked, unit, piece, held, text, stored>>
<1>0. ASSUME pc \in Parsing PROVE pc \notin {"failed", "done"}
  BY <1>0 DEF Parsing
<1>1. CASE EnterParser
  <2>1. /\ pc \in {"open", "archive"} /\ pc' = (IF pc = "open" THEN "pdf" ELSE "inventory") /\ Same
    BY <1>1 DEF EnterParser
  <2>2. doc.same /\ doc.size <= MaxSource /\ (pc = "open" => doc.kind = "pdf")
    BY <2>1 DEF DocumentInv, StepsAreEarned, Verified
  <2> QED
    BY <2>1, <2>2, ProceedStep DEF Verified, Parsing, ArchiveRead
<1>2. CASE OpenPdf
  <2>1. pc = "pdf" /\ (Reject \/ (pc' = "pages" /\ Same))
    BY <1>2 DEF OpenPdf, Proceed
  <2>2. doc.same /\ doc.size <= MaxSource /\ doc.kind = "pdf"
    BY <2>1 DEF DocumentInv, StepsAreEarned, Verified, Parsing
  <2>3. CASE Reject
    BY <2>1, <2>3, RejectStep
  <2>4. CASE pc' = "pages" /\ Same
    BY <2>1, <2>2, <2>4, ProceedStep DEF Verified, Parsing, ArchiveRead
  <2> QED
    BY <2>1, <2>3, <2>4
<1>3. CASE DeadlineExpires
  BY <1>0, <1>3, RejectStep DEF DeadlineExpires
<1>4. CASE Inventory
  <2>1. pc = "inventory" /\ (Reject \/ (pc' = "entries" /\ Same))
    BY <1>4 DEF Inventory, Proceed
  <2>2. doc.same /\ doc.size <= MaxSource
    BY <2>1 DEF DocumentInv, StepsAreEarned, Verified, Parsing
  <2>3. CASE Reject
    BY <2>1, <2>3, RejectStep
  <2>4. CASE pc' = "entries" /\ Same
    BY <2>1, <2>2, <2>4, ProceedStep DEF Verified, Parsing, ArchiveRead
  <2> QED
    BY <2>1, <2>3, <2>4
<1>5. CASE EntriesRead
  <2>1. pc = "entries" /\ (Reject \/ (pc' = "xml" /\ Same
                                     /\ \A e \in Files : doc.entries[e].actual = doc.entries[e].size))
    BY <1>5 DEF EntriesRead, Proceed
  <2>2. doc.same /\ doc.size <= MaxSource
    BY <2>1 DEF DocumentInv, StepsAreEarned, Verified, Parsing
  <2>3. CASE Reject
    BY <2>1, <2>3, RejectStep
  <2>4. CASE pc' = "xml" /\ Same /\ \A e \in Files : doc.entries[e].actual = doc.entries[e].size
    BY <2>1, <2>2, <2>4, ProceedStep DEF Verified, Parsing, ArchiveRead
  <2> QED
    BY <2>1, <2>3, <2>4
<1>6. CASE ParseXml
  <2>1. pc = "xml" /\ (Reject \/ (pc' = "body" /\ Same))
    BY <1>6 DEF ParseXml, Proceed
  <2>2. /\ doc.same /\ doc.size <= MaxSource
        /\ \A e \in Files : doc.entries[e].actual = doc.entries[e].size
    BY <2>1 DEF DocumentInv, StepsAreEarned, Verified, Parsing, ArchiveRead
  <2>3. CASE Reject
    BY <2>1, <2>3, RejectStep
  <2>4. CASE pc' = "body" /\ Same
    BY <2>1, <2>2, <2>4, ProceedStep DEF Verified, Parsing, ArchiveRead
  <2> QED
    BY <2>1, <2>3, <2>4
<1>7. CASE LeaveParser
  <2>1. pc \in {"body", "pages"} /\ pc' = "cut" /\ Same
    BY <1>7 DEF LeaveParser
  <2>2. doc.same /\ doc.size <= MaxSource
    BY <2>1 DEF DocumentInv, StepsAreEarned, Verified, Parsing
  <2>3. \A e \in Files : doc.entries[e].actual = doc.entries[e].size
    <3>1. CASE pc = "body"
      BY <3>1 DEF DocumentInv, StepsAreEarned, ArchiveRead
    <3>2. CASE pc = "pages"
      BY <3>2, NoEntries DEF DocumentInv, StepsAreEarned
    <3> QED
      BY <2>1, <3>1, <3>2
  <2> QED
    BY <2>1, <2>2, <2>3, ProceedStep DEF Verified, Parsing, ArchiveRead
<1>8. CASE StreamFails
  BY <1>8, RejectStep DEF StreamFails
<1> QED
  BY <1>1, <1>2, <1>3, <1>4, <1>5, <1>6, <1>7, <1>8

LEMMA UnpackStep == ASSUME DocumentInv, Unpack PROVE DocumentInv'
<1> DEFINE Rest(e) == unpacked[e] # doc.entries[e].actual
<1>1. pc = "entries" /\ ~Unpacked
  BY DEF Unpack
<1>2. /\ Len(doc.entries) \in Nat /\ Entries = 1..Len(doc.entries) /\ IsFiniteSet(Entries)
      /\ DOMAIN unpacked = Entries /\ Total(unpacked) \in Nat
      /\ Total(unpacked) = SumOver(unpacked, Entries)
  BY EntriesAre DEF DocumentInv
<1>3. \A e \in Entries : /\ unpacked[e] \in Nat /\ doc.entries[e].actual \in Nat
                         /\ unpacked[e] <= doc.entries[e].actual
  BY DEF DocumentInv, DocumentTypes, IsDocument, Entries
<1>4. NextEntry \in Files /\ Files \subseteq Entries /\ unpacked[NextEntry] < doc.entries[NextEntry].actual
  <2>0. Files \subseteq Entries
    BY DEF Files
  <2> DEFINE open == {e \in Files : Rest(e)}
  <2>1. open \in SUBSET Nat /\ open # {}
    <3>1. open # {}
      BY <1>1 DEF Unpacked
    <3>2. open \subseteq Files
      OBVIOUS
    <3> HIDE DEF open
    <3>3. Entries \subseteq Nat
      BY <1>2
    <3> QED
      BY <2>0, <3>1, <3>2, <3>3
  <2>2. PICK m \in open : \A e \in open : m <= e
    <3> HIDE DEF open
    <3> QED
      BY <2>1, LeastExists
  <2>3. m \in Files /\ unpacked[m] < doc.entries[m].actual
    BY <1>3, <2>0, <2>2
  <2>4. ASSUME NEW d \in Files, d < m PROVE unpacked[d] = doc.entries[d].actual
    BY <1>2, <2>0, <2>2, <2>4
  <2>5. \A d \in Files : d < m => unpacked[d] = doc.entries[d].actual
    BY <2>4
  <2> QED
    BY <2>0, <2>3, <2>5 DEF NextEntry
<1> DEFINE e == NextEntry
           n == Minimum(Chunk, doc.entries[e].actual - unpacked[e])
           now == [unpacked EXCEPT ![e] = @ + n]
<1>5. /\ unpacked' = now
      /\ \/ pc' = "failed"
         \/ pc' = pc /\ ~(Total(now) > MaxTotal)
      /\ UNCHANGED <<doc, sent, got, unit, piece, held, text, stored>>
  BY DEF Unpack, End
<1> HIDE DEF e
<1>6. /\ e \in Entries /\ unpacked[e] \in Nat /\ doc.entries[e].actual \in Nat
      /\ unpacked[e] < doc.entries[e].actual /\ Chunk \in Nat
  BY <1>3, <1>4, DocumentAssumption DEF e
<1>7. n \in 0..Chunk /\ unpacked[e] + n <= doc.entries[e].actual
  <2> DEFINE rest == doc.entries[e].actual - unpacked[e]
  <2>1. rest \in Nat /\ unpacked[e] + rest = doc.entries[e].actual
    BY <1>6
  <2>2. n = IF Chunk < rest THEN Chunk ELSE rest
    BY DEF Minimum
  <2> HIDE DEF rest, n
  <2> QED
    BY <1>6, <2>1, <2>2
<1> HIDE DEF n
<1>8. /\ DOMAIN now = Entries /\ now[e] = unpacked[e] + n
      /\ \A d \in Entries \ {e} : now[d] = unpacked[d]
  BY <1>2, <1>6
<1> HIDE DEF now
<1>9. \A d \in Entries : now[d] \in Nat /\ now[d] <= doc.entries[d].actual
  <2>1. now[e] \in Nat /\ now[e] <= doc.entries[e].actual
    BY <1>6, <1>7, <1>8
  <2> QED
    BY <1>3, <1>8, <2>1
<1>10. Total(now) = SumOver(now, Entries) /\ Total(now) \in Nat
  BY <1>2, <1>8, <1>9, TotalIs, SumFacts
<1>11. Total(now) <= Total(unpacked) + Chunk
  <2>1. SumOver(now, Entries) + unpacked[e] = SumOver(unpacked, Entries) + now[e]
    <3>1. \A x \in Entries : unpacked[x] \in Nat /\ now[x] \in Nat
      BY <1>3, <1>9
    <3>2. \A x \in Entries \ {e} : now[x] = unpacked[x]
      BY <1>8
    <3>3. e \in Entries /\ IsFiniteSet(Entries)
      BY <1>2, <1>6
    <3> QED
      BY <3>1, <3>2, <3>3, SumUpdate
  <2>2. Total(now) + unpacked[e] = Total(unpacked) + (unpacked[e] + n)
    BY <1>2, <1>8, <1>10, <2>1
  <2>3. Total(now) \in Nat /\ Total(unpacked) \in Nat /\ n \in 0..Chunk /\ Chunk \in Nat /\ unpacked[e] \in Nat
    BY <1>2, <1>6, <1>7, <1>10
  <2> QED
    BY ONLY <2>2, <2>3
<1>12. Total(unpacked) <= MaxTotal /\ MaxTotal \in Nat
  BY <1>1, DocumentAssumption DEF DocumentInv, StepsAreEarned
<1>13. Total(now) <= MaxTotal + Chunk
  BY ONLY <1>2, <1>6, <1>10, <1>11, <1>12
<1>14. Entries' = Entries /\ Total(unpacked)' = Total(now)
  BY <1>5 DEF Entries
<1>15. pc' # "failed" => Total(now) <= MaxTotal
  <2>1. ~(Total(now) > MaxTotal) => Total(now) <= MaxTotal
    BY ONLY <1>10, <1>12
  <2> QED
    BY <1>5, <2>1
<1>16. pc' \in {"failed", "entries"}
  BY <1>1, <1>5
<1>17. now \in [Entries -> Nat]
  <2>1. now = [d \in Entries |-> now[d]]
    BY <1>8 DEF now
  <2> QED
    BY <1>9, <2>1
<1>18. DocumentTypes'
  BY <1>5, <1>9, <1>14, <1>16, <1>17 DEF DocumentInv, DocumentTypes, Verified, Parsing
<1>19. doc.same /\ doc.size <= MaxSource
  BY <1>1 DEF DocumentInv, StepsAreEarned, Verified, Parsing
<1>20. StepsAreEarned'
  BY <1>5, <1>13, <1>14, <1>15, <1>16, <1>19 DEF StepsAreEarned, Verified, Parsing, ArchiveRead
<1> QED
  BY <1>18, <1>20 DEF DocumentInv

\* The steps that collect text, and the one that stores it.
LEMMA TextStep ==
  ASSUME DocumentInv, UNCHANGED <<doc, sent, got, unpacked>>, pc \in Verified \ {"done"},
         pc' \in Verified, text' \in Seq(1..4), Len(text') <= MaxChars,
         unit' \in Nat \ {0}, piece' \in Nat \ {0}, held' \in Seq(1..4),
         Len(held') <= (piece' - 1) * (MaxChars + 1), stored' \in 0..MaxStored,
         pc' = pc \/ pc' \in {"cut", "done"},
         pc' \in ArchiveRead => \A e \in Files : doc.entries[e].actual = doc.entries[e].size,
         pc' = "done" => (stored' < Total(text') => stored' > MaxStored - 4)
  PROVE  DocumentInv'
<1>1. Entries' = Entries /\ Files' = Files /\ Total(unpacked)' = Total(unpacked)
  BY DEF Entries, Files
<1>2. DocumentTypes'
  BY <1>1 DEF DocumentInv, DocumentTypes
<1>3. pc # "failed" /\ pc' \notin {"failed", "size", "stream"}
  BY DEF Verified, Parsing
<1>4. StepsAreEarned'
  BY <1>1, <1>3 DEF DocumentInv, StepsAreEarned
<1> QED
  BY <1>2, <1>4 DEF DocumentInv

\* What comes before the limit, at most.
LEMMA CutIs ==
  ASSUME NEW widths \in Seq(1..4)
  PROVE  Cut(widths) \in Seq(1..4) /\ Len(Cut(widths)) \in Nat /\ Len(Cut(widths)) <= MaxChars
<1> DEFINE end == Minimum(Len(widths), MaxChars)
<1>1. Len(widths) \in Nat /\ MaxChars \in Nat
  BY DocumentAssumption
<1>2. end \in 0..Len(widths) /\ end <= MaxChars
  BY <1>1 DEF Minimum
<1>3. Cut(widths) = SubSeq(widths, 1, end)
  BY DEF Cut
<1> HIDE DEF end
<1>4. Cut(widths) \in Seq(1..4) /\ Len(Cut(widths)) = end
  BY <1>2, <1>3
<1> QED
  BY <1>1, <1>2, <1>4

LEMMA Separators == <<>> \in Seq(1..4) /\ <<1>> \in Seq(1..4) /\ <<1, 1>> \in Seq(1..4)
<1>1. 1 \in 1..4
  OBVIOUS
<1> QED
  BY <1>1

LEMMA AddUnitStep ==
  ASSUME DocumentInv, pc \in {"body", "pages"}, NEW value \in Seq(1..4), AddUnit(value)
  PROVE  DocumentInv'
<1>1. /\ text' = Cut(text \o Separator \o value) /\ unit' = unit + 1 /\ piece' = 1 /\ held' = <<>>
      /\ UNCHANGED <<pc, doc, sent, got, unpacked, stored>>
  BY DEF AddUnit, Collected
<1>2. unit \in Nat \ {0} /\ text \in Seq(1..4) /\ stored \in 0..MaxStored
  BY DEF DocumentInv, DocumentTypes
<1>3. Separator \in Seq(1..4)
  BY Separators DEF Separator
<1>4. text \o Separator \o value \in Seq(1..4)
  BY <1>2, <1>3
<1>5. text' \in Seq(1..4) /\ Len(text') <= MaxChars
  BY <1>1, <1>4, CutIs
<1>6. unit' \in Nat \ {0} /\ piece' \in Nat \ {0}
  BY <1>1, <1>2
<1>7. held' \in Seq(1..4) /\ Len(held') <= (piece' - 1) * (MaxChars + 1)
  BY <1>1, Separators, DocumentAssumption
<1>8. pc \in ArchiveRead => \A e \in Files : doc.entries[e].actual = doc.entries[e].size
  BY DEF DocumentInv, StepsAreEarned
<1> QED
  BY <1>1, <1>2, <1>5, <1>6, <1>7, <1>8, TextStep DEF Verified, Parsing

LEMMA AddPageStep == ASSUME DocumentInv, AddPage PROVE DocumentInv'
<1>1. pc = "pages" /\ unit <= Len(doc.units) /\ AddUnit(doc.units[unit][1])
  BY DEF AddPage, Collecting
<1>2. doc.kind = "pdf"
  BY <1>1 DEF DocumentInv, StepsAreEarned
<1>3. /\ doc.units \in Seq(Seq(Seq(1..4))) /\ unit \in Nat \ {0}
      /\ \A u \in 1..Len(doc.units) : Len(doc.units[u]) = 1
  BY <1>2 DEF DocumentInv, DocumentTypes, IsDocument
<1>4. unit \in 1..Len(doc.units)
  BY <1>1, <1>3
<1>5. doc.units[unit] \in Seq(Seq(1..4)) /\ Len(doc.units[unit]) = 1
  BY <1>3, <1>4
<1>6. doc.units[unit][1] \in Seq(1..4)
  BY <1>5
<1> QED
  BY <1>1, <1>6, AddUnitStep

LEMMA AddBlockStep == ASSUME DocumentInv, AddBlock PROVE DocumentInv'
<1>1. pc = "body" /\ AddUnit(held) /\ held \in Seq(1..4)
  BY DEF AddBlock, DocumentInv, DocumentTypes
<1> QED
  BY <1>1, AddUnitStep

LEMMA RenderPieceStep == ASSUME DocumentInv, RenderPiece PROVE DocumentInv'
<1> DEFINE gap == IF piece = 1 THEN <<>> ELSE <<1>>
           next == Cut(doc.units[unit][piece])
           room == MaxChars + 1
<1>1. /\ pc = "body" /\ unit <= Len(doc.units) /\ piece <= Len(doc.units[unit])
      /\ held' = held \o gap \o next /\ piece' = piece + 1
      /\ UNCHANGED <<pc, doc, sent, got, unpacked, unit, text, stored>>
  BY DEF RenderPiece, Collecting
<1>2. /\ doc.units \in Seq(Seq(Seq(1..4))) /\ unit \in Nat \ {0} /\ piece \in Nat \ {0}
      /\ held \in Seq(1..4) /\ Len(held) <= (piece - 1) * room
      /\ text \in Seq(1..4) /\ Len(text) <= MaxChars /\ stored \in 0..MaxStored
  BY DEF DocumentInv, DocumentTypes, IsDocument
<1>3. doc.units[unit][piece] \in Seq(1..4)
  <2>1. unit \in 1..Len(doc.units)
    BY <1>1, <1>2
  <2>2. doc.units[unit] \in Seq(Seq(1..4))
    BY <1>2, <2>1
  <2>3. piece \in 1..Len(doc.units[unit])
    BY <1>1, <1>2, <2>2
  <2> QED
    BY <2>2, <2>3
<1>4. next \in Seq(1..4) /\ Len(next) \in Nat /\ Len(next) <= MaxChars
  BY <1>3, CutIs
<1>5. gap \in Seq(1..4) /\ Len(gap) \in Nat /\ Len(gap) <= 1
  <2>1. CASE piece = 1
    BY <2>1, Separators
  <2>2. CASE piece # 1
    <3>1. gap = <<1>>
      BY <2>2
    <3> HIDE DEF gap
    <3>2. Len(gap) = 1
      BY <3>1
    <3> QED
      BY <3>1, <3>2, Separators
  <2> QED
    BY <2>1, <2>2
<1> HIDE DEF gap, next
<1>6. held' \in Seq(1..4) /\ Len(held') = Len(held) + Len(gap) + Len(next)
  BY <1>1, <1>2, <1>4, <1>5
<1>7. MaxChars \in Nat /\ room = MaxChars + 1 /\ Len(held) \in Nat
  BY <1>2, DocumentAssumption
<1>8. Len(held') <= (piece - 1) * room + room
  <2> DEFINE before == (piece - 1) * room
  <2>1. before \in Nat
    BY <1>2, <1>7
  <2>2. Len(held) <= before
    BY <1>2
  <2> HIDE DEF before, room
  <2>3. Len(held') <= before + room
    BY <1>4, <1>5, <1>6, <1>7, <2>1, <2>2
  <2> QED
    BY <2>3 DEF before
<1>9. (piece - 1) * room + room = (piece' - 1) * room
  BY <1>1, <1>2, <1>7
<1>10. piece' \in Nat \ {0}
  BY <1>1, <1>2
<1>11. pc \in ArchiveRead => \A e \in Files : doc.entries[e].actual = doc.entries[e].size
  BY DEF DocumentInv, StepsAreEarned
<1>12. Len(held') <= (piece' - 1) * (MaxChars + 1)
  BY <1>8, <1>9
<1> QED
  BY <1>1, <1>2, <1>6, <1>10, <1>11, <1>12, TextStep DEF Verified, Parsing

LEMMA DecodeStep == ASSUME DocumentInv, Decode PROVE DocumentInv'
<1>1. CASE ~doc.wellFormed \/ Len(doc.units[1][1]) > MaxChars
  BY <1>1, RejectStep DEF Decode
<1>2. CASE ~(~doc.wellFormed \/ Len(doc.units[1][1]) > MaxChars)
  <2>1. /\ pc = "decode" /\ pc' = "cut" /\ text' = doc.units[1][1]
        /\ UNCHANGED <<doc, sent, got, unpacked, unit, piece, held, stored>>
        /\ ~(Len(doc.units[1][1]) > MaxChars)
    BY <1>2 DEF Decode, Proceed
  <2>2. doc.kind = "text"
    BY <2>1 DEF DocumentInv, StepsAreEarned
  <2>3. doc.units \in Seq(Seq(Seq(1..4))) /\ Len(doc.units) = 1 /\ Len(doc.units[1]) = 1
    BY <2>2 DEF DocumentInv, DocumentTypes, IsDocument
  <2>4. doc.units[1][1] \in Seq(1..4)
    <3>1. doc.units[1] \in Seq(Seq(1..4))
      BY <2>3
    <3> QED
      BY <2>3, <3>1
  <2>5. Len(doc.units[1][1]) \in Nat /\ MaxChars \in Nat
    BY <2>4, DocumentAssumption
  <2>6. Len(text') <= MaxChars
    BY <2>1, <2>5
  <2>7. Files = {}
    BY <2>2, NoEntries DEF DocumentInv
  <2>8. /\ unit \in Nat \ {0} /\ piece \in Nat \ {0} /\ stored \in 0..MaxStored
        /\ held \in Seq(1..4) /\ Len(held) <= (piece - 1) * (MaxChars + 1)
    BY DEF DocumentInv, DocumentTypes
  <2> QED
    BY <2>1, <2>4, <2>6, <2>7, <2>8, TextStep DEF Verified, Parsing
<1> QED
  BY <1>1, <1>2

LEMMA StoreExcerptStep == ASSUME DocumentInv, StoreExcerpt PROVE DocumentInv'
<1>1. /\ pc = "cut" /\ pc' = "done" /\ stored' = Truncated(text)
      /\ UNCHANGED <<doc, sent, got, unpacked, unit, piece, held, text>>
  BY DEF StoreExcerpt, Proceed
<1>2. /\ text \in Seq(1..4) /\ Len(text) <= MaxChars /\ unit \in Nat \ {0} /\ piece \in Nat \ {0}
      /\ held \in Seq(1..4) /\ Len(held) <= (piece - 1) * (MaxChars + 1)
  BY DEF DocumentInv, DocumentTypes
<1>3. Truncated(text) \in 0..MaxStored /\ (Truncated(text) < Total(text) => Truncated(text) > MaxStored - 4)
  BY <1>2, TruncatedIs
<1>4. \A e \in Files : doc.entries[e].actual = doc.entries[e].size
  BY <1>1 DEF DocumentInv, StepsAreEarned, ArchiveRead
<1> QED
  BY <1>1, <1>2, <1>3, <1>4, TextStep DEF Verified

LEMMA DocumentInit ==
  ASSUME NEW documents, \A d \in documents : IsDocument(d), InitDocument(documents)
  PROVE  DocumentInv
<1>1. /\ IsDocument(doc) /\ pc = "size" /\ sent = 0 /\ got = 0
      /\ unpacked = [e \in Entries |-> 0] /\ unit = 1 /\ text = <<>> /\ stored = 0
      /\ piece = 1 /\ held = <<>>
  BY DEF InitDocument
<1>2. \A e \in Entries : doc.entries[e].actual \in Nat
  BY <1>1 DEF IsDocument, Entries
<1>3. DocumentTypes
  <2>1. <<>> \in Seq(1..4) /\ Len(<<>>) = 0 /\ 0 <= MaxChars /\ 0 \in 0..(MaxSource + 1) /\ 0 \in 0..MaxStored
        /\ Len(<<>>) <= (1 - 1) * (MaxChars + 1)
    BY DocumentAssumption
  <2>2. unpacked \in [Entries -> Nat] /\ \A e \in Entries : unpacked[e] <= doc.entries[e].actual
    BY <1>1, <1>2
  <2> QED
    BY <1>1, <2>1, <2>2 DEF DocumentTypes
<1>4. Total(unpacked) = 0
  <2>1. IsFiniteSet(Entries) /\ Total(unpacked) = SumOver(unpacked, Entries)
    BY <1>3, EntriesAre
  <2>2. \A e \in Entries : unpacked[e] = 0
    BY <1>1
  <2> QED
    BY <2>1, <2>2, SumZero
<1>5. StepsAreEarned
  BY <1>1, <1>4, DocumentAssumption DEF StepsAreEarned, Verified, Parsing, ArchiveRead
<1> QED
  BY <1>3, <1>5 DEF DocumentInv

LEMMA DocumentStep == DocumentInv /\ [DocumentNext]_documentVars => DocumentInv'
<1> SUFFICES ASSUME DocumentInv, [DocumentNext]_documentVars PROVE DocumentInv'
  OBVIOUS
<1>1. CASE UNCHANGED documentVars
  <2>1. UNCHANGED <<doc, pc, sent, got, unpacked, unit, piece, held, text, stored>>
    BY <1>1 DEF documentVars
  <2>2. DocumentTypes'
    BY <2>1 DEF DocumentInv, DocumentTypes, Entries, Files
  <2>3. StepsAreEarned'
    BY <2>1 DEF DocumentInv, StepsAreEarned, Entries, Files
  <2> QED
    BY <2>2, <2>3 DEF DocumentInv
<1> QED
  BY <1>1, AddPageStep, RenderPieceStep, AddBlockStep, CheckSizeStep, VerifyStep, ReadChunkStep, ParserSteps, UnpackStep, DecodeStep,
     StoreExcerptStep DEF DocumentNext

LEMMA DocumentInvIsSound == DocumentInv => ExtractionIsSound
<1> SUFFICES ASSUME DocumentInv PROVE ExtractionIsSound
  OBVIOUS
<1>1. Total(unpacked) <= MaxTotal + Chunk
  <2>1. Total(unpacked) \in Nat /\ MaxTotal \in Nat /\ Chunk \in Nat
    BY EntriesAre, DocumentAssumption DEF DocumentInv
  <2>2. Total(unpacked) <= MaxTotal \/ Total(unpacked) <= MaxTotal + Chunk
    BY DEF DocumentInv, StepsAreEarned
  <2> QED
    BY ONLY <2>1, <2>2
<1>2. got <= MaxSource + 1 /\ stored <= MaxStored
  BY DocumentAssumption DEF DocumentInv, DocumentTypes
<1>3. ExtractionIsBounded
  BY <1>1, <1>2 DEF DocumentInv, DocumentTypes, ExtractionIsBounded
<1>4. ExcerptIsGenuine
  BY DEF DocumentInv, StepsAreEarned, ExcerptIsGenuine, Verified, ArchiveRead
<1> QED
  BY <1>3, <1>4 DEF ExtractionIsSound

\* Whatever is sent and declared, the bytes kept and unpacked stay within their limits and one
\* chunk, the text collected and stored within its own, and a table within the limit of a paragraph
\* times its paragraphs; an excerpt is of the bytes of the Blob, and the files of its archive are of
\* the sizes declared, for any set of documents and any limits.
THEOREM ExcerptsAreGenuine ==
  ASSUME NEW CONSTANT documents, \A d \in documents : IsDocument(d)
  PROVE  DocumentSpec(documents) => []ExtractionIsSound
<1>1. InitDocument(documents) => DocumentInv
  BY DocumentInit
<1> QED
  BY <1>1, DocumentStep, DocumentInvIsSound, PTL DEF DocumentSpec
=============================================================================
