-------------------------- MODULE SyncEngine_proofs --------------------------
(***************************************************************************)
(* Proofs that every behaviour of SyncEngine, with any number of workers,  *)
(* Providers, objects, contents, changes and faults, keeps what            *)
(* SyncProperties promises.                                                *)
(***************************************************************************)
EXTENDS SyncProperties, TLAPS

-----------------------------------------------------------------------------
(* The Matcher.                                                            *)

\* What DecisionSound asks of a decision that is not a refusal, together with
\* its type.
Sound(f, d) ==
    /\ d \in Decision
    /\ d.op \notin {"fail", "evidence"} => DecisionSound(f, d)

\* The rows the hash queries return exist and carry the hash.
LEMMA HashQueries ==
    ASSUME TypeOK
    PROVE  /\ \A b \in DOMAIN blobs : b \in Nat /\ blobs[b] \in BlobRow
           /\ \A c : \A b \in BlobsWithHash(c) :
                b \in DOMAIN blobs /\ blobs[b].content = c
           /\ \A a, c : \A b \in BlobsInAsset(a, c) :
                /\ b \in DOMAIN blobs
                /\ blobs[b].content = c
                /\ blobs[b].asset = a
  BY DEF TypeOK, WorldTypeOK, BlobsWithHash, BlobsInAsset

\* Decisions that name no row.
LEMMA PlainDecisions ==
    ASSUME NEW f \in Fact
    PROVE  /\ Sound(f, Keep)
           /\ Sound(f, NeedEvidence)
           /\ Sound(f, Fail)
           /\ f.evid # Null => Sound(f, Decide("create", 0, 0))
  BY DEF Sound, DecisionSound, Keep, NeedEvidence, Fail, Decide, Decision, Fact

\* An unknown Source: created, attached to stored bytes, or refused.
LEMMA MatchNewSound ==
    ASSUME TypeOK, NEW f \in Fact
    PROVE  Sound(f, MatchNew(f))
<1> DEFINE same == BlobsWithHash(f.evid)
           b == CHOOSE x \in same : TRUE
<1>1. same # {} => b \in DOMAIN blobs /\ b \in Nat /\ blobs[b].content = f.evid
  BY HashQueries
<1>2. same # {} /\ f.evid # Null => Sound(f, Decide("attach", b, 0))
  BY <1>1 DEF Sound, DecisionSound, Decide, Decision, Fact
<1>3. Kind(f.key) \in {"file", "message"}
  BY RepositoryAssumption DEF Fact, Key, Kind
<1> QED
  BY <1>2, <1>3, PlainDecisions DEF MatchNew

\* What is known of a Source and its rows.
LEMMA SourceRows ==
    ASSUME TypeOK, WorldWellFormed, NEW k \in DOMAIN sources
    PROVE  /\ k \in Key
           /\ sources[k] \in SourceRow
           /\ sources[k].blob \in DOMAIN blobs
           /\ sources[k].blob \in Nat
           /\ blobs[sources[k].blob] \in BlobRow
           /\ AssetOf(k) \in DOMAIN assets
           /\ AssetOf(k) \in Nat
           /\ AssetOf(k) = blobs[sources[k].blob].asset
<1>1. k \in Key /\ sources[k] \in SourceRow
  BY DEF TypeOK, WorldTypeOK
<1>2. sources[k].blob \in DOMAIN blobs
  BY DEF WorldWellFormed
<1>3. /\ sources[k].blob \in Nat
      /\ blobs[sources[k].blob] \in BlobRow
      /\ blobs[sources[k].blob].asset \in Nat
  BY <1>2, HashQueries DEF BlobRow
<1>4. blobs[sources[k].blob].asset \in DOMAIN assets
  BY <1>2 DEF WorldWellFormed
<1> QED
  BY <1>1, <1>2, <1>3, <1>4 DEF AssetOf

\* A Source whose body was read: the bytes go to a Blob of its own Asset.
LEMMA MatchVerifiedSound ==
    ASSUME TypeOK, WorldWellFormed,
           NEW f \in Fact, FactSound(f), f.evid # Null, f.key \in DOMAIN sources
    PROVE  Sound(f, MatchVerified(f, sources[f.key]))
<1> DEFINE row == sources[f.key]
           current == blobs[row.blob]
           known == BlobsInAsset(current.asset, f.evid)
           b == CHOOSE x \in known : TRUE
<1>1. /\ row.blob \in DOMAIN blobs /\ row.blob \in Nat
      /\ current.asset = AssetOf(f.key) /\ current.asset \in Nat
  BY SourceRows
<1>2. known # {} => /\ b \in DOMAIN blobs /\ b \in Nat
                    /\ blobs[b].content = f.evid
                    /\ blobs[b].asset = AssetOf(f.key)
  BY <1>1, HashQueries
<1>3. ASSUME current.content = f.evid
      PROVE  Sound(f, Decide("update", row.blob, 0))
  BY <1>1, <1>3 DEF Sound, DecisionSound, Decide, Decision, FactSound
<1>4. ASSUME known # {}
      PROVE  Sound(f, Decide("update", b, 0))
  BY <1>2, <1>4 DEF Sound, DecisionSound, Decide, Decision, FactSound
<1>5. Sound(f, Decide("version", 0, current.asset))
  BY <1>1 DEF Sound, DecisionSound, Decide, Decision, Fact
<1> QED
  BY <1>3, <1>4, <1>5, PlainDecisions DEF MatchVerified

\* A Source whose body was not read keeps its Blob, and only under a version tag
\* its Blob was stored for.
LEMMA MatchExistingSound ==
    ASSUME TypeOK, WorldWellFormed, VersionPinsContent,
           NEW f \in Fact, FactSound(f), f.key \in DOMAIN sources
    PROVE  Sound(f, MatchExisting(f, sources[f.key]))
<1> DEFINE row == sources[f.key]
<1>1. /\ row.blob \in DOMAIN blobs /\ row.blob \in Nat
      /\ AssetOf(f.key) = blobs[row.blob].asset
  BY SourceRows
<1>2. ASSUME row.ver = f.ver
      PROVE  Sound(f, Decide("update", row.blob, 0))
  BY <1>1, <1>2 DEF Sound, DecisionSound, Decide, Decision, Pins,
                    VersionPinsContent, ContentOf
<1> QED
  BY <1>2, MatchVerifiedSound, PlainDecisions DEF MatchExisting

\* Every decision of the Matcher is sound.
LEMMA MatchSound ==
    ASSUME TypeOK, WorldWellFormed, VersionPinsContent,
           NEW f \in Fact, FactSound(f)
    PROVE  Sound(f, Match(f))
  BY MatchNewSound, MatchExistingSound, PlainDecisions DEF Match

-----------------------------------------------------------------------------
(* Initial states.                                                         *)

LEMMA LegacyRows ==
    ASSUME NEW k \in LegacyKeys
    PROVE  /\ LegacyRow(k) \in 1..Len(Legacy)
           /\ Legacy[LegacyRow(k)] = k
           /\ k \in Key
           /\ Kind(k) = "file"
<1>1. PICK i \in DOMAIN Legacy : Legacy[i] = k
  BY DEF LegacyKeys
<1>2. Legacy \in Seq(Key) /\ DOMAIN Legacy = 1..Len(Legacy)
  BY EngineAssumption
<1>3. LegacyRow(k) \in DOMAIN Legacy /\ Legacy[LegacyRow(k)] = k
  BY <1>1 DEF LegacyRow
<1> QED
  BY <1>2, <1>3, EngineAssumption

LEMMA IdleRunType == IdleRun \in Run /\ RunSound(IdleRun)
<1>1. (CHOOSE p \in Provider : TRUE) \in Provider
  BY RepositoryAssumption
<1>2. Keep \in Decision
  BY DEF Keep, Decide, Decision
<1>3. 0 \in 0..MaxChanges
  BY EngineAssumption
<1> QED
  BY <1>1, <1>2, <1>3 DEF IdleRun, Run, RunSound

LEMMA InitInv == Init => Inv
<1> SUFFICES ASSUME Init PROVE Inv
  OBVIOUS
<1> DEFINE n == Len(Legacy)
<1>1. /\ n \in Nat
      /\ \A i \in 1..n : Legacy[i] \in Key
  BY EngineAssumption
<1>2. /\ remote \in [Key -> Object]
      /\ \A k \in Key : remote[k].ver = 0 /\ remote[k].content \in Content
                        /\ remote[k].path \in Path
  BY DEF Init, Object
<1>3. /\ DOMAIN assets = 1..n
      /\ DOMAIN blobs = 1..n
      /\ DOMAIN sources = LegacyKeys
      /\ assets \in Seq({"file", "message"})
  <2>1. assets = [i \in 1..n |-> "file"]
    BY DEF Init
  <2> QED
    BY <1>1, <2>1 DEF Init
<1>4. \A i \in 1..n : /\ blobs[i] \in BlobRow
                      /\ blobs[i].asset = i
                      /\ blobs[i].content = remote[Legacy[i]].content
  BY <1>1, <1>2 DEF Init, BlobRow, Size
<1>5. \A k \in DOMAIN sources :
        /\ k \in Key /\ Kind(k) = "file"
        /\ sources[k] \in SourceRow
        /\ sources[k].blob \in 1..n
        /\ sources[k].ver = 0
        /\ ContentOf(k) = remote[k].content
  <2> SUFFICES ASSUME NEW k \in LegacyKeys
               PROVE  /\ k \in Key /\ Kind(k) = "file"
                      /\ sources[k] \in SourceRow
                      /\ sources[k].blob \in 1..n
                      /\ sources[k].ver = 0
                      /\ ContentOf(k) = remote[k].content
    BY <1>3
  <2>1. sources[k] = [blob |-> LegacyRow(k), path |-> remote[k].path,
                      ver |-> 0, size |-> Null, active |-> TRUE]
    BY DEF Init
  <2>2. LegacyRow(k) \in 1..n /\ LegacyRow(k) \in Nat
        /\ Legacy[LegacyRow(k)] = k /\ k \in Key /\ Kind(k) = "file"
    BY <1>1, LegacyRows
  <2>3. sources[k] \in SourceRow
    BY <1>2, <2>1, <2>2 DEF SourceRow, Version, Size
  <2> QED
    BY <1>4, <2>1, <2>2, <2>3 DEF ContentOf
<1>6. TypeOK
  <2>1. blobs \in Seq(BlobRow)
    BY <1>1, <1>3, <1>4 DEF Init
  <2>2. run \in [Worker -> Run]
    BY IdleRunType DEF Init
  <2>3. changes \in 0..MaxChanges /\ faults \in 0..MaxFaults
    BY EngineAssumption DEF Init
  <2> QED
    BY <1>2, <1>3, <1>5, <2>1, <2>2, <2>3 DEF TypeOK, WorldTypeOK
<1>7. WorldWellFormed
  BY <1>1, <1>3, <1>4, <1>5 DEF WorldWellFormed
<1>8. VersionPinsContent
  BY <1>5 DEF VersionPinsContent
<1>9. InFlightSound /\ LockHeld
  BY IdleRunType DEF Init, InFlightSound, LockHeld, IdleRun
<1>10. StoredSound
  <2>1. \A k \in Key : remote[k].present => Kind(k) = "file"
    BY LegacyRows DEF Init
  <2> QED
    BY <1>2, <1>5, <2>1 DEF StoredSound, Observed
<1> QED
  BY <1>6, <1>7, <1>8, <1>9, <1>10 DEF Inv

-----------------------------------------------------------------------------
(* What a step of one actor does to what another holds.                    *)

\* Rows are only added, and a Source stays in its Asset.
WorldAdvances ==
    /\ \A b \in DOMAIN blobs : b \in DOMAIN blobs' /\ blobs'[b] = blobs[b]
    /\ \A k \in DOMAIN sources : /\ k \in DOMAIN sources'
                                 /\ AssetOf(k)' = AssetOf(k)

\* A version tag never returns to other bytes, nor a message to other bytes.
RemoteAdvances ==
    \A k \in Key :
      /\ remote'[k].ver >= remote[k].ver
      /\ remote'[k].ver = remote[k].ver => remote'[k].content = remote[k].content
      /\ Kind(k) = "message" /\ remote[k].ver > 0 =>
           remote'[k].content = remote[k].content

LEMMA ObservedStable ==
    ASSUME TypeOK, TypeOK', RemoteAdvances, NEW k \in Key
    PROVE  /\ \A v : Observed(k, v) => Observed(k, v)'
           /\ \A v, c : Observed(k, v) /\ Pins(k, v, c) => Pins(k, v, c)'
<1>1. /\ remote[k].ver \in Nat /\ remote'[k].ver \in Nat
      /\ Kind(k) \in {"file", "message"}
  BY RepositoryAssumption DEF TypeOK, Object, Key, Kind
<1> QED
  BY <1>1 DEF RemoteAdvances, Observed, Pins

LEMMA RunStable ==
    ASSUME TypeOK, TypeOK', WorldAdvances, RemoteAdvances, NEW r \in Run
    PROVE  RunSound(r) => RunSound(r)'
<1>1. ASSUME NEW f \in Fact, FactSound(f)
      PROVE  FactSound(f)'
  <2>1. f.key \in Key
    BY DEF Fact
  <2> QED
    BY <1>1, <2>1, ObservedStable DEF FactSound
<1>2. ASSUME NEW f \in Fact, NEW d \in Decision, FactSound(f),
             DecisionSound(f, d)
      PROVE  DecisionSound(f, d)'
  <2>1. f.key \in Key
    BY DEF Fact
  <2>2. Observed(f.key, f.ver)
    BY <1>2 DEF FactSound
  <2> QED
    BY <1>2, <2>1, <2>2, ObservedStable DEF DecisionSound, WorldAdvances
<1>3. r.decision \in Decision /\ \A f \in r.page : f \in Fact
  BY DEF Run
<1> QED
  BY <1>1, <1>2, <1>3 DEF RunSound

-----------------------------------------------------------------------------
(* Steps of the Provider.                                                  *)

LEMMA ProviderStepInv ==
    ASSUME Inv, NEW k \in Key, NEW object \in Object, ProviderStep(k, object),
           object.ver >= remote[k].ver,
           object.ver = remote[k].ver => object.content = remote[k].content,
           Kind(k) = "message" /\ remote[k].ver > 0 =>
              object.content = remote[k].content,
           Kind(k) = "message" /\ object.present => object.ver > 0
    PROVE  Inv'
<1> USE DEF Inv
<1>1. /\ remote \in [Key -> Object] /\ remote' \in [Key -> Object]
      /\ remote'[k] = object
      /\ \A l \in Key : l # k => remote'[l] = remote[l]
  BY DEF TypeOK, ProviderStep
<1>2. UNCHANGED worldVars
  BY DEF ProviderStep, worldVars
<1>3. \A w \in Worker :
        /\ run[w] \in Run
        /\ run'[w] = run[w] \/ run'[w] = [run[w] EXCEPT !.gone = @ \cup {k}]
  BY DEF TypeOK, ProviderStep
<1>4. \A w \in Worker :
        /\ run'[w] \in Run
        /\ run'[w].pc = run[w].pc /\ run'[w].page = run[w].page
        /\ run'[w].fact = run[w].fact /\ run'[w].decision = run[w].decision
  <2> SUFFICES ASSUME NEW w \in Worker
               PROVE  /\ run'[w] \in Run
                      /\ run'[w].pc = run[w].pc /\ run'[w].page = run[w].page
                      /\ run'[w].fact = run[w].fact
                      /\ run'[w].decision = run[w].decision
    OBVIOUS
  <2> DEFINE r == [run[w] EXCEPT !.gone = @ \cup {k}]
  <2>1. run[w] \in Run /\ run[w].gone \cup {k} \in SUBSET Key
    BY <1>3 DEF Run
  <2>2. /\ r \in Run
        /\ r.pc = run[w].pc /\ r.page = run[w].page
        /\ r.fact = run[w].fact /\ r.decision = run[w].decision
    BY <2>1 DEF Run
  <2> QED
    BY <1>3, <2>1, <2>2
<1>5. TypeOK'
  <2>1. run' \in [Worker -> Run]
    BY <1>4 DEF ProviderStep
  <2>2. changes' \in 0..MaxChanges
    BY EngineAssumption DEF TypeOK, ProviderStep
  <2> QED
    BY <1>1, <1>2, <2>1, <2>2 DEF TypeOK, WorldTypeOK, ProviderStep, worldVars
<1>6. RemoteAdvances
  BY <1>1 DEF RemoteAdvances, Object
<1>7. WorldAdvances
  BY <1>2 DEF WorldAdvances, AssetOf, worldVars
<1>8. InFlightSound'
  <2> SUFFICES ASSUME NEW w \in Worker PROVE RunSound(run[w])'
    BY DEF InFlightSound
  <2>1. RunSound(run[w]) /\ run[w] \in Run
    BY <1>3 DEF InFlightSound
  <2> QED
    BY <1>4, <1>5, <1>6, <1>7, <2>1, RunStable DEF RunSound
<1>9. \A l \in DOMAIN sources : l \in Key /\ Observed(l, sources[l].ver)
  BY DEF StoredSound, TypeOK, WorldTypeOK
<1>10. StoredSound'
  <2>1. \A l \in DOMAIN sources' : Observed(l, sources[l].ver)'
    BY <1>2, <1>5, <1>6, <1>9, ObservedStable DEF worldVars
  <2>2. \A l \in Key : remote'[l].present /\ Kind(l) = "message" =>
                         remote'[l].ver > 0
    BY <1>1 DEF StoredSound
  <2> QED
    BY <2>1, <2>2 DEF StoredSound
<1>11. VersionPinsContent'
  <2>1. \A l \in DOMAIN sources : l[1] \notin PathAddressed =>
          Pins(l, sources[l].ver, ContentOf(l))
    BY DEF VersionPinsContent, Pins
  <2>2. \A l \in DOMAIN sources : l[1] \notin PathAddressed =>
          (Kind(l) = "message" \/ sources[l].ver = remote'[l].ver =>
             ContentOf(l) = remote'[l].content)
    BY <1>5, <1>6, <1>9, <2>1, ObservedStable DEF Pins
  <2> QED
    BY <1>2, <2>2 DEF VersionPinsContent, ContentOf, worldVars
<1>12. WorldWellFormed' /\ LockHeld'
  BY <1>2, <1>4 DEF WorldWellFormed, LockHeld, worldVars
<1> QED
  BY <1>5, <1>8, <1>10, <1>11, <1>12

LEMMA ChangeInv == Inv /\ Change => Inv'
<1> SUFFICES ASSUME Inv, NEW k \in Key,
                    \/ \E d \in PathsOf[k[1]], c \in MayHold[k] : Upload(k, d, c)
                    \/ \E c \in MayHold[k] : Rewrite(k, c)
                    \/ \E d \in PathsOf[k[1]] : Move(k, d)
                    \/ Remove(k)
                    \/ Restore(k)
             PROVE  Inv'
  BY DEF Change
<1>1. /\ remote[k] \in Object
      /\ remote[k].present /\ Kind(k) = "message" => remote[k].ver > 0
      /\ Kind(k) \in {"file", "message"}
  BY RepositoryAssumption DEF Inv, TypeOK, StoredSound, Key, Kind
<1>2. PathsOf[k[1]] \subseteq Path /\ MayHold[k] \subseteq Content
  BY EngineAssumption DEF Key
<1>3. ASSUME NEW d \in PathsOf[k[1]], NEW c \in MayHold[k], Upload(k, d, c)
      PROVE  Inv'
  <2> DEFINE o == [present |-> TRUE, path |-> d, ver |-> remote[k].ver + 1,
                   content |-> c]
  <2>1. o \in Object /\ ProviderStep(k, o)
    BY <1>1, <1>2, <1>3 DEF Object, Upload
  <2>2. /\ o.ver >= remote[k].ver /\ o.ver # remote[k].ver /\ o.ver > 0
        /\ Kind(k) = "message" => ~ (remote[k].ver > 0)
    BY <1>1, <1>3 DEF Object, Upload
  <2> HIDE DEF o
  <2> QED
    BY <2>1, <2>2, ProviderStepInv
<1>4. ASSUME NEW c \in MayHold[k], Rewrite(k, c)
      PROVE  Inv'
  <2> DEFINE o == [remote[k] EXCEPT !.ver = @ + 1, !.content = c]
  <2> DEFINE v == remote[k].ver + 1
  <2>0. /\ remote[k].ver \in Nat /\ v \in Nat /\ c \in Content
        /\ v >= remote[k].ver /\ v # remote[k].ver
    BY <1>1, <1>2 DEF Object
  <2>1. o \in Object /\ o.ver = v
    BY <1>1, <2>0 DEF Object
  <2>2. ProviderStep(k, o) /\ Kind(k) # "message"
    BY <1>4 DEF Rewrite
  <2> HIDE DEF o
  <2> QED
    BY <2>0, <2>1, <2>2, ProviderStepInv
<1>5. ASSUME NEW d \in PathsOf[k[1]], Move(k, d)
      PROVE  Inv'
  <2> DEFINE o == [remote[k] EXCEPT !.path = d]
  <2>1. o \in Object /\ ProviderStep(k, o)
    BY <1>1, <1>2, <1>5 DEF Object, Move
  <2> QED
    BY <1>1, <1>5, <2>1, ProviderStepInv DEF Object, Move
<1>6. ASSUME Remove(k) PROVE Inv'
  <2> DEFINE o == [remote[k] EXCEPT !.present = FALSE]
  <2>1. o \in Object /\ ProviderStep(k, o)
    BY <1>1, <1>6 DEF Object, Remove
  <2> QED
    BY <1>1, <2>1, ProviderStepInv DEF Object
<1>7. ASSUME Restore(k) PROVE Inv'
  <2> DEFINE o == [remote[k] EXCEPT !.present = TRUE]
  <2>1. o \in Object /\ ProviderStep(k, o)
    BY <1>1, <1>7 DEF Object, Restore
  <2>2. k \in LegacyKeys => Kind(k) = "file"
    BY EngineAssumption DEF LegacyKeys
  <2>3. Kind(k) = "message" => remote[k].ver > 0
    BY <1>7, <2>2 DEF Restore
  <2> QED
    BY <1>1, <2>1, <2>3, ProviderStepInv DEF Object
<1> QED
  BY <1>3, <1>4, <1>5, <1>6, <1>7

-----------------------------------------------------------------------------
(* Steps of the engine that write no row.                                  *)

LEMMA QuietInv ==
    ASSUME Inv, NEW w \in Worker, NEW r \in Run, RunSound(r), Goto(w, r), Quiet,
           \/ r.pc = "idle"
           \/ run[w].pc # "idle"
           \/ UseLock => \A v \in Worker : run[v].pc = "idle"
    PROVE  Inv'
<1> USE DEF Inv
<1>1. /\ run \in [Worker -> Run]
      /\ run' = [run EXCEPT ![w] = r]
      /\ UNCHANGED <<assets, blobs, sources, remote, changes, faults>>
  BY DEF TypeOK, Goto, Quiet
<1>2. /\ run' \in [Worker -> Run] /\ run'[w] = r
      /\ \A v \in Worker : v # w => run'[v] = run[v]
  BY <1>1
<1>3. TypeOK'
  BY <1>1, <1>2 DEF TypeOK, WorldTypeOK
<1>4. InFlightSound'
  <2> SUFFICES ASSUME NEW v \in Worker PROVE RunSound(run[v])'
    BY DEF InFlightSound
  <2>1. RunSound(run'[v])
    BY <1>2 DEF InFlightSound
  <2> QED
    BY <1>1, <2>1 DEF RunSound, FactSound, DecisionSound, Observed, Pins, AssetOf
<1>5. LockHeld'
  BY <1>2 DEF LockHeld
<1>6. WorldWellFormed' /\ VersionPinsContent' /\ StoredSound'
  BY <1>1 DEF WorldWellFormed, VersionPinsContent, StoredSound, Observed, ContentOf
<1> QED
  BY <1>3, <1>4, <1>5, <1>6

LEMMA StartInv ==
    ASSUME Inv, NEW w \in Worker, NEW p \in Provider, NEW full \in BOOLEAN,
           NEW hints \in SUBSET ExtId, Start(w, p, full, hints)
    PROVE  Inv'
<1> DEFINE r == [IdleRun EXCEPT !.pc = "scan", !.provider = p, !.full = full,
                                !.dirs = IF full THEN PathsOf[p] ELSE {},
                                !.hints = hints, !.gone = Absent(p),
                                !.since = changes]
<1>1. /\ (IF full THEN PathsOf[p] ELSE {}) \in SUBSET Path
      /\ Absent(p) \in SUBSET Key
      /\ changes \in 0..MaxChanges
  BY EngineAssumption DEF Inv, TypeOK, Absent
<1>2. r \in Run
  BY <1>1, IdleRunType DEF Run
<1>3. RunSound(r)
  BY IdleRunType DEF RunSound, IdleRun
<1>4. Goto(w, r) /\ Quiet /\ (UseLock => \A v \in Worker : run[v].pc = "idle")
  BY DEF Start
<1> HIDE DEF r
<1> QED
  BY <1>2, <1>3, <1>4, QuietInv

\* The facts of the objects a Provider holds now are sound.
LEMMA FactOfSound ==
    ASSUME Inv, NEW k \in Key, remote[k].present
    PROVE  /\ FactOf(k) \in Fact
           /\ FactOf(k).evid = Null
           /\ FactSound(FactOf(k))
<1>1. /\ remote[k] \in Object
      /\ Kind(k) \in {"file", "message"}
      /\ Kind(k) = "message" => remote[k].ver > 0
  BY RepositoryAssumption DEF Inv, TypeOK, StoredSound, Key, Kind
<1>2. SizeOf[remote[k].content] \in Nat
  BY <1>1, RepositoryAssumption DEF Object
<1>3. FactOf(k) \in Fact
  BY <1>1, <1>2 DEF FactOf, Fact, Object, Version, Size
<1>4. FactOf(k).evid = Null /\ FactOf(k).key = k
  BY DEF FactOf
<1>5. Observed(k, FactOf(k).ver)
  BY <1>1 DEF Observed, FactOf, Object
<1> QED
  BY <1>3, <1>4, <1>5 DEF FactSound

LEMMA VisitDirInv ==
    ASSUME Inv, NEW w \in Worker, NEW d \in Path, VisitDir(w, d)
    PROVE  Inv'
<1> DEFINE here == {l \in Key : l[1] = run[w].provider /\ remote[l].present
                                /\ remote[l].path = d}
           page == {FactOf(k) : k \in here}
           r == [run[w] EXCEPT !.dirs = @ \ {d}, !.page = page]
<1>1. run[w] \in Run /\ RunSound(run[w]) /\ run[w].pc = "scan"
  BY DEF Inv, TypeOK, InFlightSound, VisitDir
<1>2. \A f \in page : f \in Fact /\ f.evid = Null /\ FactSound(f)
  BY FactOfSound
<1>3. /\ run[w].dirs \ {d} \in SUBSET Path
      /\ page \in SUBSET Fact
  BY <1>1, <1>2 DEF Run
<1>4. Goto(w, r) /\ Quiet
  BY DEF VisitDir
<1> HIDE DEF page
<1>5. r \in Run /\ r.pc = "scan" /\ r.page = page
  BY <1>1, <1>3 DEF Run
<1>6. RunSound(r)
  BY <1>2, <1>5 DEF RunSound
<1> HIDE DEF r
<1> QED
  BY <1>1, <1>4, <1>5, <1>6, QuietInv

LEMMA ResolveHintInv ==
    ASSUME Inv, NEW w \in Worker, NEW e \in ExtId, ResolveHint(w, e)
    PROVE  Inv'
<1> DEFINE k == <<run[w].provider, e>>
           page == IF remote[k].present THEN {FactOf(k)} ELSE {}
           r == [run[w] EXCEPT !.hints = @ \ {e}, !.page = page]
<1>1. run[w] \in Run /\ RunSound(run[w]) /\ run[w].pc = "scan"
  BY DEF Inv, TypeOK, InFlightSound, ResolveHint
<1>2. k \in Key
  BY <1>1 DEF Run, Key
<1>3. \A f \in page : f \in Fact /\ f.evid = Null /\ FactSound(f)
  BY <1>2, FactOfSound
<1>4. /\ run[w].hints \ {e} \in SUBSET ExtId
      /\ page \in SUBSET Fact
  BY <1>1, <1>3 DEF Run
<1>5. Goto(w, r) /\ Quiet
  BY DEF ResolveHint
<1> HIDE DEF page
<1>6. r \in Run /\ r.pc = "scan" /\ r.page = page
  BY <1>1, <1>4 DEF Run
<1>7. RunSound(r)
  BY <1>3, <1>6 DEF RunSound
<1> HIDE DEF r
<1> QED
  BY <1>1, <1>5, <1>6, <1>7, QuietInv

LEMMA NextFactInv ==
    ASSUME Inv, NEW w \in Worker, NEW f \in run[w].page, NextFact(w, f)
    PROVE  Inv'
<1> DEFINE r == [run[w] EXCEPT !.pc = "match", !.page = @ \ {f}, !.fact = f,
                               !.seen = @ \cup {f.key[2]}]
<1>1. run[w] \in Run /\ RunSound(run[w]) /\ run[w].pc = "scan"
  BY DEF Inv, TypeOK, InFlightSound, NextFact
<1>2. f \in Fact /\ FactSound(f)
  BY <1>1 DEF Run, RunSound
<1>3. f.key[2] \in ExtId
  BY <1>2 DEF Fact, Key
<1>4. /\ run[w].page \ {f} \in SUBSET Fact
      /\ run[w].seen \cup {f.key[2]} \in SUBSET ExtId
  BY <1>1, <1>3 DEF Run
<1>5. Goto(w, r) /\ Quiet
  BY DEF NextFact
<1>6. r \in Run /\ r.pc = "match" /\ r.page = run[w].page \ {f} /\ r.fact = f
  BY <1>1, <1>2, <1>4 DEF Run
<1>7. RunSound(r)
  BY <1>1, <1>2, <1>6 DEF RunSound
<1> HIDE DEF r
<1> QED
  BY <1>1, <1>5, <1>6, <1>7, QuietInv

LEMMA AskMatcherInv ==
    ASSUME Inv, NEW w \in Worker, AskMatcher(w)
    PROVE  Inv'
<1> DEFINE d == Match(run[w].fact)
           pc == IF d.op = "evidence" THEN "open" ELSE "execute"
           r == [run[w] EXCEPT !.pc = pc, !.decision = d]
<1>1. run[w] \in Run /\ RunSound(run[w]) /\ run[w].pc = "match"
  BY DEF Inv, TypeOK, InFlightSound, AskMatcher
<1>2. run[w].fact \in Fact /\ FactSound(run[w].fact)
  BY <1>1 DEF RunSound
<1>3. Sound(run[w].fact, d)
  BY <1>2, MatchSound DEF Inv
<1>4. /\ Goto(w, r) /\ Quiet
      /\ d.op # "fail" /\ (d.op = "evidence" => run[w].fact.evid = Null)
  BY DEF AskMatcher
<1>5. d \in Decision /\ (pc = "execute" => DecisionSound(run[w].fact, d))
  BY <1>3, <1>4 DEF Sound
<1> HIDE DEF d
<1>6. /\ r \in Run /\ r.pc = pc /\ r.page = run[w].page
      /\ r.fact = run[w].fact /\ r.decision = d
  BY <1>1, <1>5 DEF Run
<1>7. RunSound(r)
  BY <1>1, <1>2, <1>4, <1>5, <1>6 DEF RunSound
<1> HIDE DEF r
<1> QED
  BY <1>1, <1>4, <1>6, <1>7, QuietInv

\* The bytes read now are those of the current version.
LEMMA ReadBodyInv ==
    ASSUME Inv, NEW w \in Worker, ReadBody(w)
    PROVE  Inv'
<1>1. run[w] \in Run /\ RunSound(run[w]) /\ run[w].pc = "open"
  BY DEF Inv, TypeOK, InFlightSound, ReadBody
<1> DEFINE f == run[w].fact
<1>2. f \in Fact /\ FactSound(f)
  BY <1>1 DEF RunSound
<1>3. PICK k \in Served(f) :
         Goto(w, [run[w] EXCEPT !.pc = "match",
                                !.fact = WithEvidence(@, remote[k].content)])
  BY DEF ReadBody
<1> DEFINE g == WithEvidence(f, remote[k].content)
           r == [run[w] EXCEPT !.pc = "match", !.fact = g]
<1>4. /\ k \in Key /\ remote[k].content \in Content
      /\ f.key[1] \notin PathAddressed => k = f.key
  BY <1>2 DEF Served, Inv, TypeOK, Object
<1>5. /\ g \in Fact /\ g.key = f.key /\ g.evid = remote[k].content
      /\ Kind(f.key) # "message" => g.ver = f.ver
  BY <1>2, <1>4 DEF WithEvidence, Fact, Version
<1>6. FactSound(g)
  BY <1>2, <1>4, <1>5 DEF FactSound, Observed, Pins
<1>7. Goto(w, r) /\ Quiet
  BY <1>3 DEF ReadBody
<1> HIDE DEF g
<1>8. r \in Run /\ r.pc = "match" /\ r.page = run[w].page /\ r.fact = g
  BY <1>1, <1>5 DEF Run
<1>9. RunSound(r)
  BY <1>1, <1>5, <1>6, <1>8 DEF RunSound
<1> HIDE DEF r
<1> QED
  BY <1>1, <1>7, <1>8, <1>9, QuietInv

LEMMA DisappearedInv ==
    ASSUME Inv, NEW w \in Worker, Disappeared(w)
    PROVE  Inv'
<1> DEFINE r == [run[w] EXCEPT !.pc = "scan", !.safe = FALSE, !.fact = Null,
                               !.decision = Keep]
<1>1. run[w] \in Run /\ RunSound(run[w]) /\ run[w].pc = "open"
  BY DEF Inv, TypeOK, InFlightSound, Disappeared
<1>2. Keep \in Decision
  BY DEF Keep, Decide, Decision
<1>3. Goto(w, r) /\ Quiet
  BY DEF Disappeared
<1>4. r \in Run /\ r.pc = "scan" /\ r.page = run[w].page
  BY <1>1, <1>2 DEF Run
<1>5. RunSound(r)
  BY <1>1, <1>4 DEF RunSound
<1> HIDE DEF r
<1> QED
  BY <1>1, <1>3, <1>4, <1>5, QuietInv

LEMMA ListMissingInv ==
    ASSUME Inv, NEW w \in Worker, ListMissing(w)
    PROVE  Inv'
<1> DEFINE missing == {k \in ActiveSources(run[w].provider) :
                         k[2] \notin run[w].seen}
           r == [run[w] EXCEPT !.pc = "deactivate", !.missing = missing]
<1>1. run[w] \in Run /\ RunSound(run[w]) /\ run[w].pc = "scan"
  BY DEF Inv, TypeOK, InFlightSound, ListMissing, ScanDone
<1>2. missing \in SUBSET Key
  BY DEF ActiveSources, Inv, TypeOK, WorldTypeOK
<1>3. Goto(w, r) /\ Quiet
  BY DEF ListMissing
<1> HIDE DEF missing
<1>4. r \in Run /\ r.pc = "deactivate" /\ r.page = run[w].page
  BY <1>1, <1>2 DEF Run
<1>5. RunSound(r)
  BY <1>1, <1>4 DEF RunSound
<1> HIDE DEF r
<1> QED
  BY <1>1, <1>3, <1>4, <1>5, QuietInv

\* A run that ends without writing.
LEMMA EndInv ==
    ASSUME Inv, NEW w \in Worker, Goto(w, IdleRun), Quiet
    PROVE  Inv'
<1>1. IdleRun.pc = "idle"
  BY DEF IdleRun
<1> QED
  BY <1>1, IdleRunType, QuietInv

-----------------------------------------------------------------------------
(* Steps of the engine that write rows.                                    *)

LEMMA AppendRow ==
    ASSUME NEW S, NEW s \in Seq(S), NEW e \in S
    PROVE  /\ Append(s, e) \in Seq(S)
           /\ DOMAIN s = 1..Len(s) /\ Len(s) \in Nat
           /\ DOMAIN Append(s, e) = 1..(Len(s) + 1)
           /\ \A i \in 1..Len(s) : Append(s, e)[i] = s[i]
           /\ Append(s, e)[Len(s) + 1] = e
  OBVIOUS

\* What a transaction may do to the rows, whoever runs it: rows are added, and a
\* Source keeps its version and bytes or gets sound ones.
Writes ==
    /\ WorldTypeOK'
    /\ WorldAdvances
    /\ WorldWellFormed'
    /\ \A k \in DOMAIN sources' :
         \/ k \in DOMAIN sources /\ sources'[k].ver = sources[k].ver
                                 /\ ContentOf(k)' = ContentOf(k)
         \/ /\ Observed(k, sources'[k].ver)
            /\ k[1] \notin PathAddressed =>
                 Pins(k, sources'[k].ver, ContentOf(k)')

\* What a written row holds.
LEMMA RowType ==
    ASSUME NEW f \in Fact, NEW b \in Nat
    PROVE  /\ RowFor(f, b) \in SourceRow
           /\ RowFor(f, b).blob = b
           /\ RowFor(f, b).ver = f.ver
           /\ RowFor(f, b).active
           /\ f.key \in Key
  BY DEF RowFor, SourceRow, Fact

\* A Blob with the bytes of f is added to Asset a and the Source of f put on it.
LEMMA BlobAdded ==
    ASSUME TypeOK, WorldWellFormed, NEW f \in Fact, f.evid \in Content, NEW a \in Nat,
           AddBlob(f, a), sources' = WithSource(f.key, RowFor(f, Len(blobs) + 1))
    PROVE  /\ blobs' \in Seq(BlobRow)
           /\ DOMAIN blobs = 1..Len(blobs) /\ Len(blobs) \in Nat
           /\ DOMAIN blobs' = 1..(Len(blobs) + 1)
           /\ \A b \in DOMAIN blobs : blobs'[b] = blobs[b]
           /\ blobs'[Len(blobs) + 1].asset = a
           /\ blobs'[Len(blobs) + 1].content = f.evid
           /\ \A k \in DOMAIN sources : k # f.key =>
                AssetOf(k)' = AssetOf(k) /\ ContentOf(k)' = ContentOf(k)
           /\ ContentOf(f.key)' = f.evid /\ AssetOf(f.key)' = a
<1> DEFINE n == Len(blobs) + 1
           new == [asset |-> a, content |-> f.evid, size |-> SizeOf[f.evid]]
<1>1. new \in BlobRow /\ new.asset = a /\ new.content = f.evid
  BY RepositoryAssumption DEF BlobRow, Size
<1>2. /\ blobs' \in Seq(BlobRow) /\ DOMAIN blobs = 1..Len(blobs)
      /\ Len(blobs) \in Nat /\ n \in Nat
      /\ DOMAIN blobs' = 1..n
      /\ \A b \in DOMAIN blobs : blobs'[b] = blobs[b]
      /\ blobs'[n] = new
  BY <1>1, AppendRow DEF AddBlob, TypeOK, WorldTypeOK
<1>5. /\ sources'[f.key] = RowFor(f, n)
      /\ \A k \in DOMAIN sources : k # f.key => sources'[k] = sources[k]
  BY DEF WithSource
<1>3. \A k \in DOMAIN sources : k # f.key =>
        AssetOf(k)' = AssetOf(k) /\ ContentOf(k)' = ContentOf(k)
  BY <1>2, <1>5 DEF AssetOf, ContentOf, WorldWellFormed
<1>4. ContentOf(f.key)' = f.evid /\ AssetOf(f.key)' = a
  BY <1>1, <1>2, <1>5, RowType DEF ContentOf, AssetOf
<1> QED
  BY <1>1, <1>2, <1>3, <1>4

LEMMA AddBlobWrites ==
    ASSUME TypeOK, WorldWellFormed, NEW f \in Fact, FactSound(f),
           f.evid \in Content, NEW a \in Nat,
           AddBlob(f, a), sources' = WithSource(f.key, RowFor(f, Len(blobs) + 1)),
           \/ /\ a = Len(assets) + 1 /\ f.key \notin DOMAIN sources
              /\ assets' = Append(assets, Kind(f.key))
           \/ /\ f.key \in DOMAIN sources /\ a = AssetOf(f.key)
              /\ BlobsInAsset(a, f.evid) = {} /\ UNCHANGED assets
    PROVE  Writes
<1> DEFINE n == Len(blobs) + 1
<1>1. n \in Nat /\ blobs'[n].asset = a /\ blobs'[n].content = f.evid
  BY BlobAdded
<1>2. /\ blobs' \in Seq(BlobRow) /\ DOMAIN blobs = 1..Len(blobs)
      /\ Len(blobs) \in Nat
      /\ DOMAIN blobs' = 1..n
      /\ \A b \in DOMAIN blobs : blobs'[b] = blobs[b]
  BY BlobAdded
<1>3. /\ assets' \in Seq({"file", "message"})
      /\ DOMAIN assets \subseteq DOMAIN assets'
      /\ a \in DOMAIN assets'
      /\ a \in DOMAIN assets => f.key \in DOMAIN sources
                                /\ BlobsInAsset(a, f.evid) = {}
  <2>1. Kind(f.key) \in {"file", "message"}
    BY RepositoryAssumption DEF Fact, Key, Kind
  <2>2. assets \in Seq({"file", "message"})
    BY DEF TypeOK, WorldTypeOK
  <2>3. CASE a = Len(assets) + 1 /\ f.key \notin DOMAIN sources
             /\ assets' = Append(assets, Kind(f.key))
    BY <2>1, <2>2, <2>3, AppendRow
  <2>4. CASE f.key \in DOMAIN sources /\ a = AssetOf(f.key)
             /\ BlobsInAsset(a, f.evid) = {} /\ UNCHANGED assets
    BY <2>2, <2>4, SourceRows
  <2> QED
    BY <2>3, <2>4
<1>4. /\ DOMAIN sources' = DOMAIN sources \cup {f.key}
      /\ sources'[f.key] = RowFor(f, n)
      /\ \A k \in DOMAIN sources : k # f.key => sources'[k] = sources[k]
  BY DEF WithSource
<1>5. RowFor(f, n) \in SourceRow /\ RowFor(f, n).blob = n /\ f.key \in Key
      /\ RowFor(f, n).ver = f.ver
  BY <1>1, RowType
<1>6. WorldTypeOK'
  BY <1>2, <1>3, <1>4, <1>5 DEF TypeOK, WorldTypeOK
<1>7. \A k \in DOMAIN sources : k # f.key =>
        AssetOf(k)' = AssetOf(k) /\ ContentOf(k)' = ContentOf(k)
  BY BlobAdded
<1>8. ContentOf(f.key)' = f.evid /\ AssetOf(f.key)' = a
  BY BlobAdded
<1>9. WorldAdvances
  <2>1. f.key \in DOMAIN sources => a = AssetOf(f.key)
    OBVIOUS
  <2> QED
    BY <1>2, <1>4, <1>7, <1>8, <2>1 DEF WorldAdvances
<1>10. WorldWellFormed'
  <2>1. \A k \in DOMAIN sources' : sources'[k].blob \in DOMAIN blobs'
    BY <1>2, <1>4, <1>5 DEF WorldWellFormed
  <2>2. \A b \in DOMAIN blobs' : blobs'[b].asset \in DOMAIN assets'
    BY <1>1, <1>2, <1>3 DEF WorldWellFormed
  <2>3. \A b \in DOMAIN blobs : ~ (blobs[b].asset = a /\ blobs[b].content = f.evid)
    BY <1>3 DEF WorldWellFormed, BlobsInAsset, BlobsWithHash
  <2>4. \A b, c \in DOMAIN blobs' :
          blobs'[b].asset = blobs'[c].asset
            /\ blobs'[b].content = blobs'[c].content => b = c
    BY <1>1, <1>2, <2>3 DEF WorldWellFormed
  <2> QED
    BY <2>1, <2>2, <2>4 DEF WorldWellFormed
<1>11. f.key[1] \notin PathAddressed => Pins(f.key, f.ver, ContentOf(f.key)')
  BY <1>8, RepositoryAssumption DEF FactSound
<1>12. Observed(f.key, f.ver)
  BY DEF FactSound
<1> QED
  BY <1>4, <1>5, <1>6, <1>7, <1>9, <1>10, <1>11, <1>12 DEF Writes

\* The Source of f is put on a stored Blob.
LEMMA RebindWrites ==
    ASSUME TypeOK, WorldWellFormed, NEW f \in Fact, NEW b \in DOMAIN blobs,
           Observed(f.key, f.ver),
           f.key \in DOMAIN sources => blobs[b].asset = AssetOf(f.key),
           f.key[1] \notin PathAddressed => Pins(f.key, f.ver, blobs[b].content),
           sources' = WithSource(f.key, RowFor(f, b)),
           UNCHANGED <<assets, blobs>>
    PROVE  Writes
<1>1. /\ DOMAIN sources' = DOMAIN sources \cup {f.key}
      /\ sources'[f.key] = RowFor(f, b)
      /\ \A k \in DOMAIN sources : k # f.key => sources'[k] = sources[k]
  BY DEF WithSource
<1>2. RowFor(f, b) \in SourceRow /\ RowFor(f, b).blob = b /\ f.key \in Key
      /\ RowFor(f, b).ver = f.ver
  BY HashQueries, RowType
<1>3. WorldTypeOK'
  BY <1>1, <1>2 DEF TypeOK, WorldTypeOK
<1>4. \A k \in DOMAIN sources : k # f.key =>
        AssetOf(k)' = AssetOf(k) /\ ContentOf(k)' = ContentOf(k)
  BY <1>1 DEF AssetOf, ContentOf
<1>5. ContentOf(f.key)' = blobs[b].content /\ AssetOf(f.key)' = blobs[b].asset
  BY <1>1, <1>2 DEF ContentOf, AssetOf
<1>6. WorldAdvances
  BY <1>1, <1>4, <1>5 DEF WorldAdvances
<1>7. WorldWellFormed'
  BY <1>1, <1>2 DEF WorldWellFormed
<1> QED
  BY <1>1, <1>2, <1>3, <1>4, <1>5, <1>6, <1>7 DEF Writes

LEMMA ApplyWrites ==
    ASSUME TypeOK, WorldWellFormed, NEW f \in Fact, NEW d \in Decision,
           FactSound(f), DecisionSound(f, d), ~ Conflicts(f, d), Apply(f, d)
    PROVE  Writes
<1>1. CASE d.op = "keep"
  <2>1. UNCHANGED worldVars
    BY <1>1 DEF Apply
  <2> QED
    BY <2>1 DEF worldVars, Writes, WorldAdvances, AssetOf, ContentOf, TypeOK,
                WorldTypeOK, WorldWellFormed
<1>2. CASE d.op = "create"
  <2>1. /\ assets' = Append(assets, Kind(f.key))
        /\ AddBlob(f, Len(assets) + 1)
        /\ sources' = WithSource(f.key, RowFor(f, Len(blobs) + 1))
        /\ f.key \notin DOMAIN sources
        /\ f.evid \in Content
    BY <1>2 DEF Apply, Conflicts, DecisionSound
  <2>2. Len(assets) + 1 \in Nat
    BY DEF TypeOK, WorldTypeOK
  <2> QED
    BY <2>1, <2>2, AddBlobWrites
<1>3. CASE d.op = "attach"
  <2>1. /\ sources' = WithSource(f.key, RowFor(f, d.blob))
        /\ UNCHANGED <<assets, blobs>>
        /\ f.key \notin DOMAIN sources
        /\ d.blob \in DOMAIN blobs
        /\ f.evid \in Content /\ blobs[d.blob].content = f.evid
    BY <1>3 DEF Apply, Conflicts, DecisionSound
  <2>2. f.key[1] \notin PathAddressed =>
          Pins(f.key, f.ver, blobs[d.blob].content)
    BY <2>1, RepositoryAssumption DEF FactSound
  <2> QED
    BY <2>1, <2>2, RebindWrites DEF FactSound
<1>4. CASE d.op = "update"
  <2>1. /\ sources' = WithSource(f.key, RowFor(f, d.blob))
        /\ UNCHANGED <<assets, blobs>>
        /\ d.blob \in DOMAIN blobs
        /\ blobs[d.blob].asset = AssetOf(f.key)
        /\ f.key[1] \notin PathAddressed =>
             Pins(f.key, f.ver, blobs[d.blob].content)
    BY <1>4 DEF Apply, DecisionSound
  <2> QED
    BY <2>1, RebindWrites DEF FactSound
<1>5. CASE d.op = "version"
  <2>1. /\ AddBlob(f, d.asset)
        /\ sources' = WithSource(f.key, RowFor(f, Len(blobs) + 1))
        /\ UNCHANGED assets
        /\ f.key \in DOMAIN sources /\ d.asset = AssetOf(f.key)
        /\ BlobsInAsset(d.asset, f.evid) = {}
        /\ f.evid \in Content
    BY <1>5 DEF Apply, Conflicts, DecisionSound
  <2>2. d.asset \in Nat
    BY DEF Decision
  <2> QED
    BY <2>1, <2>2, AddBlobWrites
<1> QED
  BY <1>1, <1>2, <1>3, <1>4, <1>5 DEF DecisionSound

\* A transaction of one worker leaves every worker sound.
LEMMA WriteInv ==
    ASSUME Inv, NEW w \in Worker, run[w].pc # "idle", NEW r \in Run,
           RunSound(r), Goto(w, r), UNCHANGED <<remote, changes, faults>>,
           Writes
    PROVE  Inv'
<1> USE DEF Inv
<1>1. /\ run' \in [Worker -> Run] /\ run'[w] = r
      /\ \A v \in Worker : v # w => run'[v] = run[v]
  BY DEF TypeOK, Goto
<1>2. TypeOK'
  BY <1>1 DEF TypeOK, Writes
<1>3. WorldAdvances /\ WorldWellFormed'
  BY DEF Writes
<1>4. RemoteAdvances
  BY DEF RemoteAdvances, TypeOK, Object
<1>5. InFlightSound'
  <2> SUFFICES ASSUME NEW v \in Worker PROVE RunSound(run[v])'
    BY DEF InFlightSound
  <2>1. RunSound(run'[v]) /\ run'[v] \in Run
    BY <1>1 DEF InFlightSound, TypeOK
  <2> QED
    BY <1>2, <1>3, <1>4, <2>1, RunStable DEF RunSound
<1>6. LockHeld'
  BY <1>1 DEF LockHeld
<1>7. StoredSound' /\ VersionPinsContent'
  <2>1. ASSUME NEW k \in DOMAIN sources'
        PROVE  /\ Observed(k, sources'[k].ver)
               /\ k[1] \notin PathAddressed =>
                    Pins(k, sources'[k].ver, ContentOf(k)')
    <3>1. CASE k \in DOMAIN sources /\ sources'[k].ver = sources[k].ver
               /\ ContentOf(k)' = ContentOf(k)
      BY <3>1 DEF StoredSound, VersionPinsContent, Pins
    <3>2. CASE /\ Observed(k, sources'[k].ver)
               /\ k[1] \notin PathAddressed =>
                    Pins(k, sources'[k].ver, ContentOf(k)')
      BY <3>2
    <3> QED
      BY <3>1, <3>2 DEF Writes
  <2> QED
    BY <2>1 DEF StoredSound, VersionPinsContent, Pins, Observed, ContentOf
<1> QED
  BY <1>2, <1>3, <1>5, <1>6, <1>7

LEMMA ExecuteInv ==
    ASSUME Inv, NEW w \in Worker, Execute(w)
    PROVE  Inv' /\ WorldAdvances
<1> DEFINE f == run[w].fact
           d == run[w].decision
           r == [run[w] EXCEPT !.pc = "scan", !.fact = Null, !.decision = Keep]
<1>1. run[w] \in Run /\ RunSound(run[w]) /\ run[w].pc = "execute"
  BY DEF Inv, TypeOK, InFlightSound, Execute
<1>2. /\ f \in Fact /\ FactSound(f)
      /\ d \in Decision /\ DecisionSound(f, d)
  BY <1>1 DEF RunSound, Run
<1>3. Writes
  BY <1>2, ApplyWrites DEF Execute, Inv
<1>4. Keep \in Decision
  BY DEF Keep, Decide, Decision
<1>5. r \in Run /\ r.pc = "scan" /\ r.page = run[w].page
  BY <1>1, <1>4 DEF Run
<1>6. RunSound(r)
  BY <1>1, <1>5 DEF RunSound
<1>7. Goto(w, r) /\ UNCHANGED <<remote, changes, faults>>
  BY DEF Execute
<1> HIDE DEF r
<1>8. Inv'
  BY <1>1, <1>3, <1>5, <1>6, <1>7, WriteInv
<1> QED
  BY <1>3, <1>8 DEF Writes

LEMMA ReconcileInv ==
    ASSUME Inv, NEW w \in Worker, Reconcile(w)
    PROVE  Inv' /\ WorldAdvances
<1> DEFINE K == run[w].missing
<1>1. /\ sources' = [k \in DOMAIN sources |->
                       [sources[k] EXCEPT !.active = @ /\ k \notin K]]
      /\ UNCHANGED <<assets, blobs>>
      /\ Goto(w, IdleRun) /\ UNCHANGED <<remote, changes, faults>>
      /\ run[w].pc = "deactivate"
  BY DEF Reconcile, Deactivate
<1>2. \A k \in DOMAIN sources :
        /\ sources[k] \in SourceRow
        /\ sources'[k] = [sources[k] EXCEPT !.active = @ /\ k \notin K]
  BY <1>1 DEF Inv, TypeOK, WorldTypeOK
<1>3. \A k \in DOMAIN sources :
        /\ sources'[k] \in SourceRow
        /\ sources'[k].blob = sources[k].blob
        /\ sources'[k].ver = sources[k].ver
  <2> SUFFICES ASSUME NEW k \in DOMAIN sources
               PROVE  /\ sources'[k] \in SourceRow
                      /\ sources'[k].blob = sources[k].blob
                      /\ sources'[k].ver = sources[k].ver
    OBVIOUS
  <2>1. (sources[k].active /\ k \notin K) \in BOOLEAN
    OBVIOUS
  <2> QED
    BY <1>2, <2>1 DEF SourceRow
<1>4. DOMAIN sources' = DOMAIN sources
  BY <1>1
<1>5. Writes
  BY <1>1, <1>3, <1>4
     DEF Writes, WorldAdvances, AssetOf, ContentOf, Inv, TypeOK, WorldTypeOK,
         WorldWellFormed
<1>6. Inv'
  BY <1>1, <1>5, IdleRunType, WriteInv
<1> QED
  BY <1>5, <1>6 DEF Writes

LEMMA AbortInv ==
    ASSUME Inv, NEW w \in Worker, Abort(w)
    PROVE  Inv'
<1>1. /\ run \in [Worker -> Run] /\ run' = [run EXCEPT ![w] = IdleRun]
      /\ UNCHANGED <<assets, blobs, sources, remote, changes>>
      /\ faults' \in 0..MaxFaults
  BY EngineAssumption DEF Inv, TypeOK, Abort, Goto
<1>2. /\ run' \in [Worker -> Run] /\ run'[w] = IdleRun
      /\ \A v \in Worker : v # w => run'[v] = run[v]
  BY <1>1, IdleRunType
<1>3. TypeOK'
  BY <1>1, <1>2 DEF Inv, TypeOK, WorldTypeOK
<1>4. InFlightSound'
  <2> SUFFICES ASSUME NEW v \in Worker PROVE RunSound(run[v])'
    BY DEF InFlightSound
  <2>1. RunSound(run'[v])
    BY <1>2, IdleRunType DEF Inv, InFlightSound
  <2> QED
    BY <1>1, <2>1 DEF RunSound, FactSound, DecisionSound, Observed, Pins, AssetOf
<1>5. LockHeld'
  BY <1>2 DEF Inv, LockHeld, IdleRun
<1>6. WorldWellFormed' /\ VersionPinsContent' /\ StoredSound'
  BY <1>1 DEF Inv, WorldWellFormed, VersionPinsContent, StoredSound, Observed,
              ContentOf
<1> QED
  BY <1>3, <1>4, <1>5, <1>6 DEF Inv

-----------------------------------------------------------------------------
(* The theorems.                                                           *)

LEMMA NoRowsWritten ==
    ASSUME UNCHANGED worldVars
    PROVE  WorldAdvances
  BY DEF worldVars, WorldAdvances, AssetOf

LEMMA NextInv == Inv /\ [Next]_vars => Inv' /\ WorldAdvances
<1> SUFFICES ASSUME Inv, [Next]_vars PROVE Inv' /\ WorldAdvances
  OBVIOUS
<1>1. CASE Change
  <2>1. UNCHANGED worldVars
    BY <1>1 DEF Change, Upload, Rewrite, Move, Remove, Restore, ProviderStep,
                worldVars
  <2> QED
    BY <1>1, <2>1, ChangeInv, NoRowsWritten
<1>2. ASSUME NEW w \in Worker, NEW p \in Provider, StartFull(w, p)
      PROVE  Inv' /\ WorldAdvances
  <2>1. {} \in SUBSET ExtId /\ TRUE \in BOOLEAN
    OBVIOUS
  <2> QED
    BY <1>2, <2>1, StartInv, NoRowsWritten DEF StartFull, Start, Quiet, worldVars
<1>3. ASSUME NEW w \in Worker, NEW p \in Provider, NEW h \in SUBSET ExtId \ {{}},
             StartIncremental(w, p, h)
      PROVE  Inv' /\ WorldAdvances
  <2>1. h \in SUBSET ExtId /\ FALSE \in BOOLEAN
    OBVIOUS
  <2> QED
    BY <1>3, <2>1, StartInv, NoRowsWritten
       DEF StartIncremental, Start, Quiet, worldVars
<1>4. ASSUME NEW w \in Worker, EngineStep(w)
      PROVE  Inv' /\ WorldAdvances
  <2>1. ASSUME NEW d \in Path, VisitDir(w, d)
        PROVE  Inv' /\ WorldAdvances
    BY <2>1, VisitDirInv, NoRowsWritten DEF VisitDir, Quiet, worldVars
  <2>2. ASSUME NEW e \in ExtId, ResolveHint(w, e)
        PROVE  Inv' /\ WorldAdvances
    BY <2>2, ResolveHintInv, NoRowsWritten DEF ResolveHint, Quiet, worldVars
  <2>3. ASSUME NEW f \in run[w].page, NextFact(w, f)
        PROVE  Inv' /\ WorldAdvances
    BY <2>3, NextFactInv, NoRowsWritten DEF NextFact, Quiet, worldVars
  <2>4. CASE AskMatcher(w)
    BY <2>4, AskMatcherInv, NoRowsWritten DEF AskMatcher, Quiet, worldVars
  <2>5. CASE MatcherRaises(w)
    BY <2>5, EndInv, NoRowsWritten DEF MatcherRaises, Quiet, worldVars
  <2>6. CASE ReadBody(w)
    BY <2>6, ReadBodyInv, NoRowsWritten DEF ReadBody, Quiet, worldVars
  <2>7. CASE Disappeared(w)
    BY <2>7, DisappearedInv, NoRowsWritten DEF Disappeared, Quiet, worldVars
  <2>8. CASE OpenRaises(w)
    BY <2>8, EndInv, NoRowsWritten DEF OpenRaises, Quiet, worldVars
  <2>9. CASE Execute(w)
    BY <2>9, ExecuteInv
  <2>10. CASE ExecuteConflict(w)
    BY <2>10, EndInv, NoRowsWritten DEF ExecuteConflict, Quiet, worldVars
  <2>11. CASE EndIncomplete(w)
    BY <2>11, EndInv, NoRowsWritten DEF EndIncomplete, Quiet, worldVars
  <2>12. CASE EndIncremental(w)
    BY <2>12, EndInv, NoRowsWritten DEF EndIncremental, Quiet, worldVars
  <2>13. CASE ListMissing(w)
    BY <2>13, ListMissingInv, NoRowsWritten DEF ListMissing, Quiet, worldVars
  <2>14. CASE Reconcile(w)
    BY <2>14, ReconcileInv
  <2> QED
    BY <1>4, <2>1, <2>2, <2>3, <2>4, <2>5, <2>6, <2>7, <2>8, <2>9, <2>10,
       <2>11, <2>12, <2>13, <2>14 DEF EngineStep
<1>5. ASSUME NEW w \in Worker, Abort(w)
      PROVE  Inv' /\ WorldAdvances
  BY <1>5, AbortInv, NoRowsWritten DEF Abort, worldVars
<1>6. CASE UNCHANGED vars
  <2>1. UNCHANGED worldVars
    BY <1>6 DEF vars, worldVars
  <2>2. Inv'
    BY <1>6 DEF vars, Inv, TypeOK, WorldTypeOK, WorldWellFormed,
       VersionPinsContent, ContentOf, InFlightSound, RunSound, FactSound,
       DecisionSound, Observed, Pins, AssetOf, StoredSound, LockHeld
  <2> QED
    BY <2>1, <2>2, NoRowsWritten
<1> QED
  BY <1>1, <1>2, <1>3, <1>4, <1>5, <1>6 DEF Next

\* Every run of the engine, alone or beside others, keeps the inductive invariant.
THEOREM InvHolds == Spec => []Inv
<1>1. Inv /\ [Next]_vars => Inv'
  BY NextInv
<1> QED
  BY <1>1, InitInv, PTL DEF Spec

\* Every variable keeps its type.
THEOREM TypeCorrect == Spec => []TypeOK
<1>1. Inv => TypeOK
  BY DEF Inv
<1> QED
  BY <1>1, InvHolds, PTL

\* No Source and no Blob ever names a row that does not exist, and no Asset ever
\* holds the same bytes twice.
THEOREM WellFormed == Spec => []WorldWellFormed
<1>1. Inv => WorldWellFormed
  BY DEF Inv
<1> QED
  BY <1>1, InvHolds, PTL

\* A Source under its Provider's current version tag holds the Provider's bytes,
\* however many runs race with each other and with the Provider.
THEOREM VersionPins == Spec => []VersionPinsContent
<1>1. Inv => VersionPinsContent
  BY DEF Inv
<1> QED
  BY <1>1, InvHolds, PTL

\* No step of any actor moves a Source to another Asset or deletes it.
THEOREM KeepsAsset == Spec => SourceKeepsAsset
<1>1. Inv /\ [Next]_vars => [\A k \in DOMAIN sources :
        k \in DOMAIN sources' /\ blobs'[sources'[k].blob].asset = AssetOf(k)]_vars
  BY NextInv DEF WorldAdvances, AssetOf
<1> QED
  BY <1>1, InvHolds, PTL DEF Spec, SourceKeepsAsset

-----------------------------------------------------------------------------
(* The formal lock.                                                        *)

\* A decision read off the current rows meets no unique index.
LEMMA MatchHasNoConflict ==
    ASSUME NEW f \in Fact
    PROVE  ~ Conflicts(f, Match(f))
<1>1. f.key \notin DOMAIN sources => Match(f) = Fail \/ Match(f) = MatchNew(f)
  BY DEF Match
<1>2. MatchNew(f).op # "version" /\ Fail.op # "version"
      /\ Fail.op \notin {"create", "attach"}
  <2>1. Kind(f.key) \in {"file", "message"}
    BY RepositoryAssumption DEF Fact, Key, Kind
  <2> QED
    BY <2>1 DEF MatchNew, Decide, Fail, NeedEvidence
<1>3. ASSUME f.key \in DOMAIN sources
      PROVE  /\ Match(f).op \notin {"create", "attach"}
             /\ Match(f).op = "version" =>
                  BlobsInAsset(Match(f).asset, f.evid) = {}
  <2> DEFINE row == sources[f.key]
  <2>1. Match(f) = Fail \/ Match(f) = MatchExisting(f, row)
    BY <1>3 DEF Match
  <2>2. /\ MatchVerified(f, row).op \notin {"create", "attach"}
        /\ MatchVerified(f, row).op = "version" =>
             BlobsInAsset(MatchVerified(f, row).asset, f.evid) = {}
    BY DEF MatchVerified, Decide, Fail, Keep
  <2>3. \/ MatchExisting(f, row) = MatchVerified(f, row)
        \/ MatchExisting(f, row).op \in {"evidence", "keep", "update"}
    BY DEF MatchExisting, Decide, NeedEvidence, Keep
  <2> QED
    BY <1>2, <2>1, <2>2, <2>3 DEF Fail, Decide
<1> QED
  BY <1>1, <1>2, <1>3 DEF Conflicts

LEMMA OthersAreIdle ==
    ASSUME Inv, UseLock, NEW w \in Worker, NEW r \in Run, Goto(w, r),
           run[w].pc # "idle" \/ \A v \in Worker : run[v].pc = "idle",
           r.pc # "execute"
    PROVE  DecisionsNeverConflict'
<1>1. /\ run' = [run EXCEPT ![w] = r]
      /\ run \in [Worker -> Run]
  BY DEF Goto, Inv, TypeOK
<1>2. \A v \in Worker : v # w => run[v].pc = "idle"
  BY DEF Inv, LockHeld
<1>3. \A v \in Worker : run'[v].pc # "execute"
  BY <1>1, <1>2
<1> QED
  BY <1>3 DEF DecisionsNeverConflict

LEMMA NextNeverConflicts ==
    ASSUME UseLock, Inv, DecisionsNeverConflict, [Next]_vars
    PROVE  DecisionsNeverConflict'
<1>0. IdleRun \in Run /\ IdleRun.pc = "idle"
  BY IdleRunType DEF IdleRun
<1>1. CASE Change
  <2>1. /\ UNCHANGED worldVars
        /\ \A w \in Worker : /\ run'[w].pc = run[w].pc
                             /\ run'[w].fact = run[w].fact
                             /\ run'[w].decision = run[w].decision
    <3>1. \A w \in Worker : run[w] \in Run
      BY DEF Inv, TypeOK
    <3>2. \E k \in Key : \E o : ProviderStep(k, o)
      BY <1>1 DEF Change, Upload, Rewrite, Move, Remove, Restore
    <3> QED
      BY <3>1, <3>2 DEF ProviderStep, worldVars, Run
  <2> QED
    BY <2>1 DEF worldVars, DecisionsNeverConflict, Conflicts, BlobsInAsset,
                BlobsWithHash
<1>2. ASSUME NEW w \in Worker, NEW p \in Provider, NEW full \in BOOLEAN,
             NEW h \in SUBSET ExtId, Start(w, p, full, h)
      PROVE  DecisionsNeverConflict'
  <2>1. \A v \in Worker : run[v].pc = "idle"
    BY <1>2 DEF Start
  <2>2. run' = [run EXCEPT ![w] =
           [IdleRun EXCEPT !.pc = "scan", !.provider = p, !.full = full,
                           !.dirs = IF full THEN PathsOf[p] ELSE {},
                           !.hints = h, !.gone = Absent(p), !.since = changes]]
    BY <1>2 DEF Start, Goto
  <2>3. run'[w].pc = "scan" /\ \A v \in Worker \ {w} : run'[v].pc = "idle"
    BY <2>1, <2>2 DEF IdleRun, Inv, TypeOK
  <2> QED
    BY <2>3 DEF DecisionsNeverConflict
<1>3. ASSUME NEW w \in Worker, EngineStep(w) \/ Abort(w)
      PROVE  DecisionsNeverConflict'
  <2>1. run \in [Worker -> Run] /\ run[w] \in Run
    BY DEF Inv, TypeOK
  <2>2. CASE AskMatcher(w)
    <3> DEFINE f == run[w].fact
               d == Match(f)
               pc == IF d.op = "evidence" THEN "open" ELSE "execute"
    <3>1. /\ run' = [run EXCEPT ![w] = [run[w] EXCEPT !.pc = pc, !.decision = d]]
          /\ UNCHANGED worldVars
          /\ run[w].pc = "match"
      BY <2>2 DEF AskMatcher, Goto, Quiet, worldVars
    <3>2. f \in Fact
      BY <3>1 DEF Inv, InFlightSound, RunSound
    <3>3. ~ Conflicts(f, d)
      BY <3>2, MatchHasNoConflict
    <3> HIDE DEF d
    <3>4. run'[w].fact = f /\ run'[w].decision = d
      BY <2>1, <3>1 DEF Run
    <3>5. \A v \in Worker : v # w => run'[v].pc # "execute"
      BY <2>1, <3>1 DEF Inv, LockHeld
    <3> QED
      BY <3>1, <3>3, <3>4, <3>5
         DEF DecisionsNeverConflict, worldVars, Conflicts, BlobsInAsset,
             BlobsWithHash
  <2>3. ASSUME ~ AskMatcher(w)
        PROVE  /\ run[w].pc # "idle"
               /\ \E r \in Run : r.pc # "execute" /\ Goto(w, r)
    <3>1. run' \in [Worker -> Run]
      BY NextInv, <1>3 DEF Inv, TypeOK, Next
    <3>3. \A r : Goto(w, r) => r = run'[w] /\ r \in Run
      BY <2>1, <3>1 DEF Goto
    <3>4. ASSUME NEW d \in Path, VisitDir(w, d)
          PROVE  run[w].pc # "idle" /\ \E r : r.pc # "execute" /\ Goto(w, r)
      BY <2>1, <3>4 DEF VisitDir, Run
    <3>5. ASSUME NEW e \in ExtId, ResolveHint(w, e)
          PROVE  run[w].pc # "idle" /\ \E r : r.pc # "execute" /\ Goto(w, r)
      BY <2>1, <3>5 DEF ResolveHint, Run
    <3>6. ASSUME NEW f \in run[w].page, NextFact(w, f)
          PROVE  run[w].pc # "idle" /\ \E r : r.pc # "execute" /\ Goto(w, r)
      BY <2>1, <3>6 DEF NextFact, Run
    <3>7. ASSUME ReadBody(w)
          PROVE  run[w].pc # "idle" /\ \E r : r.pc # "execute" /\ Goto(w, r)
      BY <2>1, <3>7 DEF ReadBody, Run
    <3>8. ASSUME Disappeared(w) \/ Execute(w)
          PROVE  run[w].pc # "idle" /\ \E r : r.pc # "execute" /\ Goto(w, r)
      BY <2>1, <3>8 DEF Disappeared, Execute, Run
    <3>9. ASSUME ListMissing(w)
          PROVE  run[w].pc # "idle" /\ \E r : r.pc # "execute" /\ Goto(w, r)
      BY <2>1, <3>9 DEF ListMissing, ScanDone, Run
    <3>10. ASSUME \/ MatcherRaises(w) \/ OpenRaises(w) \/ ExecuteConflict(w)
                  \/ EndIncomplete(w) \/ EndIncremental(w) \/ Reconcile(w)
                  \/ Abort(w)
           PROVE  run[w].pc # "idle" /\ Goto(w, IdleRun)
      BY <3>10 DEF MatcherRaises, OpenRaises, ExecuteConflict, EndIncomplete,
                   EndIncremental, Reconcile, Abort, ScanDone
    <3>11. run[w].pc # "idle" /\ \E r : r.pc # "execute" /\ Goto(w, r)
      BY <1>0, <1>3, <2>3, <3>4, <3>5, <3>6, <3>7, <3>8, <3>9, <3>10
         DEF EngineStep
    <3> QED
      BY <3>3, <3>11
  <2> QED
    BY <2>2, <2>3, OthersAreIdle
<1>4. CASE UNCHANGED vars
  BY <1>4 DEF vars, DecisionsNeverConflict, Conflicts, BlobsInAsset, BlobsWithHash
<1> QED
  <2>1. ASSUME NEW w \in Worker, NEW p \in Provider, StartFull(w, p)
        PROVE  DecisionsNeverConflict'
    <3>1. {} \in SUBSET ExtId /\ TRUE \in BOOLEAN
      OBVIOUS
    <3> QED
      BY <1>2, <2>1, <3>1 DEF StartFull
  <2>2. ASSUME NEW w \in Worker, NEW p \in Provider,
               NEW h \in SUBSET ExtId \ {{}}, StartIncremental(w, p, h)
        PROVE  DecisionsNeverConflict'
    <3>1. h \in SUBSET ExtId /\ FALSE \in BOOLEAN
      OBVIOUS
    <3> QED
      BY <1>2, <2>2, <3>1 DEF StartIncremental
  <2> QED
    BY <1>1, <1>3, <1>4, <2>1, <2>2 DEF Next

\* Runs that hold the formal lock never have a transaction refused.
THEOREM LockedRunsNeverConflict ==
    ASSUME UseLock
    PROVE  Spec => []DecisionsNeverConflict
<1>1. Init => DecisionsNeverConflict
  BY DEF Init, IdleRun, DecisionsNeverConflict
<1>2. Inv /\ DecisionsNeverConflict /\ [Next]_vars => DecisionsNeverConflict'
  BY NextNeverConflicts
<1> QED
  BY <1>1, <1>2, InvHolds, PTL DEF Spec

-----------------------------------------------------------------------------
(* The engine implements ResourceIdentity.                                 *)

LEMMA HistoryType ==
    ASSUME TypeOK, WorldWellFormed
    PROVE  /\ History \in Seq(SUBSET Content)
           /\ DOMAIN History = 1..Len(assets) /\ DOMAIN assets = 1..Len(assets)
           /\ Len(History) = Len(assets) /\ Len(assets) \in Nat
           /\ \A b \in DOMAIN blobs : blobs[b].asset \in DOMAIN assets
           /\ \A a \in DOMAIN assets, c \in Content :
                c \in History[a] <=> BlobsInAsset(a, c) # {}
<1>1. /\ assets \in Seq({"file", "message"})
      /\ blobs \in Seq(BlobRow)
  BY DEF TypeOK, WorldTypeOK
<1>2. Len(assets) \in Nat /\ DOMAIN assets = 1..Len(assets)
  BY <1>1
<1>3. \A b \in DOMAIN blobs : blobs[b].content \in Content
  BY HashQueries DEF BlobRow
<1> DEFINE H(a) == {blobs[b].content : b \in {c \in DOMAIN blobs :
                                                blobs[c].asset = a}}
<1>4. \A a \in DOMAIN assets : H(a) \in SUBSET Content
  BY <1>3
<1>5. History = [a \in 1..Len(assets) |-> H(a)]
  BY <1>2 DEF History
<1>6. \A a \in DOMAIN assets, c \in Content :
        c \in H(a) <=> BlobsInAsset(a, c) # {}
  BY DEF BlobsInAsset, BlobsWithHash
<1> HIDE DEF H
<1>7. History \in Seq(SUBSET Content) /\ Len(History) = Len(assets)
  BY <1>2, <1>4, <1>5
<1> QED
  BY <1>2, <1>5, <1>6, <1>7 DEF WorldWellFormed

LEMMA BindingRows ==
    ASSUME TypeOK, WorldWellFormed
    PROVE  /\ DOMAIN BindingOf = DOMAIN sources
           /\ \A k \in DOMAIN sources :
                /\ BindingOf[k] = [asset |-> AssetOf(k), content |-> ContentOf(k),
                                   active |-> sources[k].active]
                /\ ContentOf(k) \in Content
                /\ AssetOf(k) \in DOMAIN assets
                /\ ContentOf(k) \in History[AssetOf(k)]
<1>1. ASSUME NEW k \in DOMAIN sources
      PROVE  /\ ContentOf(k) \in Content
             /\ AssetOf(k) \in DOMAIN assets
             /\ sources[k].blob \in BlobsInAsset(AssetOf(k), ContentOf(k))
  BY SourceRows DEF ContentOf, AssetOf, BlobRow, BlobsInAsset, BlobsWithHash
<1> QED
  BY <1>1, HistoryType DEF BindingOf

\* A Source bound by a transaction to asset a and content c, others untouched.
LEMMA BindStep ==
    ASSUME TypeOK, WorldWellFormed, TypeOK', WorldWellFormed',
           NEW k, NEW a, NEW c,
           DOMAIN sources' = DOMAIN sources \cup {k},
           sources'[k].active, sources'[k].active \in BOOLEAN, AssetOf(k)' = a, ContentOf(k)' = c,
           \A l \in DOMAIN sources : l # k =>
             /\ sources'[l] = sources[l]
             /\ AssetOf(l)' = AssetOf(l) /\ ContentOf(l)' = ContentOf(l)
    PROVE  Identity!Bind(k, a, c)
<1> DEFINE row(l) == [asset |-> AssetOf(l), content |-> ContentOf(l),
                      active |-> sources[l].active]
<1>1. BindingOf = [l \in DOMAIN sources |-> row(l)]
  BY DEF BindingOf
<1>2. BindingOf' = [l \in DOMAIN sources' |-> row(l)']
  BY DEF BindingOf
<1>3. row(k)' = [asset |-> a, content |-> c, active |-> TRUE]
  OBVIOUS
<1>4. \A l \in DOMAIN sources : l # k => row(l)' = row(l)
  OBVIOUS
<1> HIDE DEF row
<1> QED
  BY <1>1, <1>2, <1>3, <1>4 DEF Identity!Bind

LEMMA RebindBinds ==
    ASSUME TypeOK, WorldWellFormed, TypeOK', WorldWellFormed',
           NEW f \in Fact, NEW b \in DOMAIN blobs,
           sources' = WithSource(f.key, RowFor(f, b)),
           UNCHANGED <<assets, blobs>>
    PROVE  /\ Identity!Bind(f.key, blobs[b].asset, blobs[b].content)
           /\ History' = History
           /\ blobs[b].content \in Content
           /\ blobs[b].asset \in DOMAIN History
           /\ blobs[b].content \in History[blobs[b].asset]
           /\ f.key \in Key
<1>1. b \in Nat /\ blobs[b] \in BlobRow
  BY HashQueries
<1>7. /\ DOMAIN sources' = DOMAIN sources \cup {f.key}
      /\ sources'[f.key] = RowFor(f, b)
      /\ \A l \in DOMAIN sources : l # f.key => sources'[l] = sources[l]
  BY DEF WithSource
<1>2. /\ sources'[f.key].active
      /\ sources'[f.key].blob = b
      /\ f.key \in Key
  BY <1>1, <1>7, RowType
<1>3. /\ AssetOf(f.key)' = blobs[b].asset /\ ContentOf(f.key)' = blobs[b].content
      /\ \A l \in DOMAIN sources : l # f.key =>
           AssetOf(l)' = AssetOf(l) /\ ContentOf(l)' = ContentOf(l)
  BY <1>2, <1>7 DEF AssetOf, ContentOf
<1>4. blobs[b].content \in Content /\ b \in BlobsInAsset(blobs[b].asset, blobs[b].content)
  BY <1>1 DEF BlobRow, BlobsInAsset, BlobsWithHash
<1>5. History' = History
  BY DEF History
<1>6. Identity!Bind(f.key, blobs[b].asset, blobs[b].content)
  BY <1>2, <1>3, <1>7, BindStep
<1> QED
  BY <1>2, <1>4, <1>5, <1>6, HistoryType

\* A Blob added to Asset a adds its content to the history of a alone.
LEMMA HistoryGrows ==
    ASSUME TypeOK, WorldWellFormed, TypeOK', WorldWellFormed',
           NEW f \in Fact, f.evid \in Content, NEW a \in Nat,
           AddBlob(f, a), sources' = WithSource(f.key, RowFor(f, Len(blobs) + 1))
    PROVE  /\ \A x \in DOMAIN assets : x \in DOMAIN assets' =>
                History'[x] = IF x = a THEN History[x] \cup {f.evid}
                              ELSE History[x]
           /\ a \in DOMAIN assets' \ DOMAIN assets => History'[a] = {f.evid}
<1> DEFINE n == Len(blobs) + 1
           H(x) == {blobs[b].content : b \in {c \in DOMAIN blobs :
                                                blobs[c].asset = x}}
           G(x) == {blobs'[b].content : b \in {c \in DOMAIN blobs' :
                                                 blobs'[c].asset = x}}
<1>1. /\ DOMAIN blobs = 1..Len(blobs) /\ Len(blobs) \in Nat
      /\ DOMAIN blobs' = 1..n
      /\ \A b \in DOMAIN blobs : blobs'[b] = blobs[b]
      /\ blobs'[n].asset = a /\ blobs'[n].content = f.evid
  BY BlobAdded
<1>2. DOMAIN blobs' = DOMAIN blobs \cup {n} /\ n \notin DOMAIN blobs
  BY <1>1
<1>3. ASSUME NEW x
      PROVE  G(x) = IF x = a THEN H(x) \cup {f.evid} ELSE H(x)
  <2>1. CASE x = a
    BY <1>1, <1>2, <2>1
  <2>2. CASE x # a
    BY <1>1, <1>2, <2>2
  <2> QED
    BY <2>1, <2>2
<1>4. a \notin DOMAIN assets => H(a) = {}
  BY DEF WorldWellFormed
<1>5. /\ History = [x \in DOMAIN assets |-> H(x)]
      /\ History' = [x \in DOMAIN assets' |-> G(x)]
  BY DEF History
<1> HIDE DEF H, G
<1> QED
  BY <1>3, <1>4, <1>5

LEMMA AddBlobBinds ==
    ASSUME TypeOK, WorldWellFormed, TypeOK', WorldWellFormed',
           NEW f \in Fact, f.evid \in Content, NEW a \in Nat,
           AddBlob(f, a), sources' = WithSource(f.key, RowFor(f, Len(blobs) + 1))
    PROVE  Identity!Bind(f.key, a, f.evid) /\ f.key \in Key
<1>1. Len(blobs) + 1 \in Nat
  BY DEF TypeOK, WorldTypeOK
<1>4. /\ DOMAIN sources' = DOMAIN sources \cup {f.key}
      /\ sources'[f.key] = RowFor(f, Len(blobs) + 1)
      /\ \A l \in DOMAIN sources : l # f.key => sources'[l] = sources[l]
  BY DEF WithSource
<1>2. sources'[f.key].active /\ f.key \in Key
  BY <1>1, <1>4, RowType
<1>3. /\ ContentOf(f.key)' = f.evid /\ AssetOf(f.key)' = a
      /\ \A l \in DOMAIN sources : l # f.key =>
           AssetOf(l)' = AssetOf(l) /\ ContentOf(l)' = ContentOf(l)
  BY BlobAdded
<1> QED
  BY <1>2, <1>3, <1>4, BindStep

LEMMA ExecuteIdentity ==
    ASSUME Inv, Inv', NEW w \in Worker, Execute(w)
    PROVE  [Identity!Next]_<<History, BindingOf>>
<1> DEFINE f == run[w].fact
           d == run[w].decision
<1>1. /\ f \in Fact /\ d \in Decision /\ DecisionSound(f, d)
      /\ ~ Conflicts(f, d) /\ Apply(f, d)
  BY DEF Inv, TypeOK, Run, InFlightSound, RunSound, Execute
<1>2. TypeOK /\ WorldWellFormed /\ TypeOK' /\ WorldWellFormed'
  BY DEF Inv
<1> HIDE DEF f, d
<1>3. CASE d.op = "keep"
  <2>1. UNCHANGED worldVars
    BY <1>1, <1>3 DEF Apply
  <2> QED
    BY <2>1 DEF worldVars, History, BindingOf, AssetOf, ContentOf
<1>4. CASE d.op = "create"
  <2> DEFINE a == Len(assets) + 1
  <2>1. /\ assets' = Append(assets, Kind(f.key))
        /\ AddBlob(f, a)
        /\ sources' = WithSource(f.key, RowFor(f, Len(blobs) + 1))
        /\ f.key \notin DOMAIN sources
        /\ f.evid \in Content
    BY <1>1, <1>4 DEF Apply, Conflicts, DecisionSound
  <2>2. /\ a \in Nat /\ DOMAIN assets = 1..Len(assets)
        /\ DOMAIN assets' = 1..a /\ Len(assets) \in Nat
    <3>1. Kind(f.key) \in {"file", "message"}
      BY <1>1, RepositoryAssumption DEF Fact, Key, Kind
    <3>2. assets \in Seq({"file", "message"})
      BY <1>2 DEF TypeOK, WorldTypeOK
    <3> QED
      BY <2>1, <3>1, <3>2, AppendRow
  <2>3. Identity!Bind(f.key, a, f.evid) /\ f.key \in Key
    BY <1>1, <1>2, <2>1, <2>2, AddBlobBinds
  <2>4. /\ \A x \in 1..Len(assets) : History'[x] = History[x]
        /\ History'[a] = {f.evid}
    <3>1. a \in DOMAIN assets' \ DOMAIN assets
          /\ \A x \in 1..Len(assets) : x \in DOMAIN assets /\ x \in DOMAIN assets'
                                      /\ x # a
      BY <2>2
    <3> HIDE DEF a
    <3> QED
      BY <1>1, <1>2, <2>1, <2>2, <3>1, HistoryGrows
  <2>5. /\ History \in Seq(SUBSET Content) /\ Len(History) = Len(assets)
        /\ History' = [x \in 1..a |-> History'[x]]
    BY <1>2, <2>2, HistoryType DEF History
  <2>6. {f.evid} \in SUBSET Content
    BY <2>1
  <2>7. History' = Append(History, {f.evid})
    <3> DEFINE s == Append(History, {f.evid})
    <3>1. /\ s \in Seq(SUBSET Content) /\ DOMAIN s = 1..a
          /\ \A x \in 1..Len(assets) : s[x] = History[x]
          /\ s[a] = {f.evid}
      BY <2>5, <2>6, AppendRow
    <3>2. s = [x \in 1..a |-> s[x]]
      BY <3>1
    <3> HIDE DEF s
    <3>4. \A x \in 1..a : x \in 1..Len(assets) \/ x = a
      BY <2>2
    <3> HIDE DEF a
    <3>3. \A x \in 1..a : s[x] = History'[x]
      BY <2>4, <3>1, <3>4
    <3> QED
      BY <2>5, <3>2, <3>3 DEF s
  <2>8. Identity!NewResource(f.key, f.evid)
    BY <1>2, <2>1, <2>3, <2>5, <2>7, BindingRows DEF Identity!NewResource
  <2> QED
    BY <2>1, <2>3, <2>8 DEF Identity!Next
<1>5. CASE d.op = "attach"
  <2>1. /\ sources' = WithSource(f.key, RowFor(f, d.blob))
        /\ UNCHANGED <<assets, blobs>>
        /\ f.key \notin DOMAIN sources
        /\ d.blob \in DOMAIN blobs
    BY <1>1, <1>5 DEF Apply, Conflicts, DecisionSound
  <2> DEFINE a == blobs[d.blob].asset
             c == blobs[d.blob].content
  <2>2. /\ Identity!Bind(f.key, a, c) /\ History' = History
        /\ c \in Content /\ a \in DOMAIN History /\ c \in History[a]
        /\ f.key \in Key
    BY <1>1, <1>2, <2>1, RebindBinds
  <2> HIDE DEF a, c
  <2>3. Identity!Join(f.key, a, c)
    BY <1>2, <2>1, <2>2, BindingRows DEF Identity!Join
  <2> QED
    BY <2>2, <2>3 DEF Identity!Next
<1>6. CASE d.op = "update"
  <2>1. /\ sources' = WithSource(f.key, RowFor(f, d.blob))
        /\ UNCHANGED <<assets, blobs>>
        /\ f.key \in DOMAIN sources
        /\ d.blob \in DOMAIN blobs
        /\ blobs[d.blob].asset = AssetOf(f.key)
    BY <1>1, <1>6 DEF Apply, DecisionSound
  <2> DEFINE a == blobs[d.blob].asset
             c == blobs[d.blob].content
  <2>2. /\ Identity!Bind(f.key, a, c) /\ History' = History
        /\ c \in Content /\ c \in History[a] /\ f.key \in Key
    BY <1>1, <1>2, <2>1, RebindBinds
  <2>3. a = AssetOf(f.key)
    BY <2>1
  <2> HIDE DEF a, c
  <2>4. BindingOf[f.key].asset = a /\ f.key \in DOMAIN BindingOf
    BY <1>2, <2>1, <2>3, BindingRows
  <2>5. Identity!Observe(f.key, c)
    BY <2>2, <2>4 DEF Identity!Observe
  <2> QED
    BY <2>2, <2>5 DEF Identity!Next
<1>7. CASE d.op = "version"
  <2> DEFINE a == d.asset
  <2>1. /\ AddBlob(f, a)
        /\ sources' = WithSource(f.key, RowFor(f, Len(blobs) + 1))
        /\ UNCHANGED assets
        /\ f.key \in DOMAIN sources /\ a = AssetOf(f.key)
        /\ BlobsInAsset(a, f.evid) = {}
        /\ f.evid \in Content
    BY <1>1, <1>7 DEF Apply, Conflicts, DecisionSound
  <2>2. a \in Nat /\ a \in DOMAIN assets
    BY <1>1, <1>2, <2>1, SourceRows DEF Decision
  <2>3. Identity!Bind(f.key, a, f.evid) /\ f.key \in Key
    BY <1>1, <1>2, <2>1, <2>2, AddBlobBinds
  <2>4. \A x \in DOMAIN assets :
          History'[x] = IF x = a THEN History[x] \cup {f.evid} ELSE History[x]
    BY <1>1, <1>2, <2>1, <2>2, HistoryGrows
  <2>5. DOMAIN History = DOMAIN assets /\ DOMAIN History' = DOMAIN assets
    BY <2>1 DEF History
  <2>6. History' = [x \in DOMAIN assets |-> History'[x]]
        /\ History = [x \in DOMAIN assets |-> History[x]]
    BY <2>1 DEF History
  <2>7. History' = [History EXCEPT ![a] = History[a] \cup {f.evid}]
    BY <2>2, <2>4, <2>5, <2>6
  <2>8. f.evid \notin History[a]
    BY <1>2, <2>1, <2>2, HistoryType
  <2>9. BindingOf[f.key].asset = a /\ f.key \in DOMAIN BindingOf
    BY <1>2, <2>1, BindingRows
  <2> HIDE DEF a
  <2>10. Identity!Advance(f.key, f.evid)
    BY <2>3, <2>7, <2>8, <2>9 DEF Identity!Advance
  <2> QED
    BY <2>1, <2>3, <2>10 DEF Identity!Next
<1> QED
  BY <1>1, <1>3, <1>4, <1>5, <1>6, <1>7 DEF DecisionSound

LEMMA ReconcileIdentity ==
    ASSUME Inv, NEW w \in Worker, Reconcile(w)
    PROVE  [Identity!Next]_<<History, BindingOf>>
<1> DEFINE K == run[w].missing
<1>1. /\ sources' = [k \in DOMAIN sources |->
                       [sources[k] EXCEPT !.active = @ /\ k \notin K]]
      /\ UNCHANGED <<assets, blobs>>
      /\ K \in SUBSET Key
  BY DEF Reconcile, Deactivate, Inv, TypeOK, Run
<1>2. \A k \in DOMAIN sources : sources[k] \in SourceRow
  BY DEF Inv, TypeOK, WorldTypeOK
<1> HIDE DEF K
<1>3. /\ DOMAIN sources' = DOMAIN sources
      /\ \A k \in DOMAIN sources :
           /\ sources'[k].blob = sources[k].blob
           /\ sources'[k].active = (sources[k].active /\ k \notin K)
  BY <1>1, <1>2 DEF SourceRow
<1>4. \A k \in DOMAIN sources :
        AssetOf(k)' = AssetOf(k) /\ ContentOf(k)' = ContentOf(k)
  BY <1>1, <1>3 DEF AssetOf, ContentOf
<1>5. BindingOf' = [k \in DOMAIN BindingOf |->
                      [BindingOf[k] EXCEPT !.active = @ /\ k \notin K]]
  BY <1>3, <1>4 DEF BindingOf
<1>6. History' = History
  BY <1>1 DEF History
<1> QED
  BY <1>1, <1>5, <1>6 DEF Identity!Next, Identity!Retire

\* Every step of the engine, the Provider or a failure is a step of
\* ResourceIdentity or leaves history and bindings alone.
LEMMA NextIdentity ==
    Inv /\ Inv' /\ [Next]_vars => [Identity!Next]_<<History, BindingOf>>
<1> SUFFICES ASSUME Inv, Inv', [Next]_vars
             PROVE  [Identity!Next]_<<History, BindingOf>>
  OBVIOUS
<1>1. ASSUME UNCHANGED worldVars
      PROVE  [Identity!Next]_<<History, BindingOf>>
  BY <1>1 DEF worldVars, History, BindingOf, AssetOf, ContentOf
<1>2. \/ UNCHANGED worldVars
      \/ \E w \in Worker : Execute(w) \/ Reconcile(w)
  <2>1. Change => UNCHANGED worldVars
    BY DEF Change, Upload, Rewrite, Move, Remove, Restore, ProviderStep, worldVars
  <2>2. \A w \in Worker : Abort(w) => UNCHANGED worldVars
    BY DEF Abort, worldVars
  <2>3. \A w, p : StartFull(w, p) => UNCHANGED worldVars
    BY DEF StartFull, Start, Quiet, worldVars
  <2>4. \A w, p, h : StartIncremental(w, p, h) => UNCHANGED worldVars
    BY DEF StartIncremental, Start, Quiet, worldVars
  <2>5. \A w \in Worker : EngineStep(w) => Quiet \/ Execute(w) \/ Reconcile(w)
    BY DEF EngineStep, VisitDir, ResolveHint, NextFact, AskMatcher,
           MatcherRaises, ReadBody, Disappeared, OpenRaises, ExecuteConflict,
           EndIncomplete, EndIncremental, ListMissing
  <2>6. Quiet => UNCHANGED worldVars
    BY DEF Quiet, worldVars
  <2>7. UNCHANGED vars => UNCHANGED worldVars
    BY DEF vars, worldVars
  <2> QED
    BY <2>1, <2>2, <2>3, <2>4, <2>5, <2>6, <2>7 DEF Next
<1> QED
  BY <1>1, <1>2, ExecuteIdentity, ReconcileIdentity

\* The engine implements ResourceIdentity.
THEOREM EngineImplementsIdentity == Spec => ImplementsIdentity
<1>1. Inv => Identity!Init
  BY HistoryType, BindingRows, SourceRows DEF Inv, Identity!Init
<1>2. Inv /\ Inv' /\ [Next]_vars => [Identity!Next]_<<History, BindingOf>>
  BY NextIdentity
<1> QED
  BY <1>1, <1>2, InitInv, InvHolds, PTL
     DEF Spec, ImplementsIdentity, Identity!Spec

-----------------------------------------------------------------------------
(* What each step of a run does to the fields of that run.                 *)

Others(w) == \A v \in Worker : v # w => run'[v] = run[v]

\* What no step of a run under way changes.
Carries(w) ==
    /\ run'[w].provider = run[w].provider
    /\ run'[w].full = run[w].full
    /\ run'[w].gone = run[w].gone
    /\ run'[w].since = run[w].since

\* The progress of a traversal.
SameTraversal(w) ==
    /\ run'[w].dirs = run[w].dirs
    /\ run'[w].page = run[w].page
    /\ run'[w].seen = run[w].seen

LEMMA GotoSets ==
    ASSUME Inv, NEW w \in Worker, NEW r, Goto(w, r)
    PROVE  run'[w] = r /\ Others(w)
  BY DEF Inv, TypeOK, Goto, Others

LEMMA StartFields ==
    ASSUME Inv, NEW w \in Worker, NEW p \in Provider, NEW full \in BOOLEAN,
           NEW h \in SUBSET ExtId, Start(w, p, full, h)
    PROVE  /\ Others(w) /\ Quiet /\ run[w].pc = "idle"
           /\ run'[w].pc = "scan" /\ run'[w].provider = p
           /\ run'[w].full = full /\ run'[w].gone = Absent(p)
           /\ run'[w].dirs = (IF full THEN PathsOf[p] ELSE {})
           /\ run'[w].page = {} /\ run'[w].seen = {} /\ run'[w].since = changes
<1> DEFINE dirs == IF full THEN PathsOf[p] ELSE {}
<1>1. run'[w] = [IdleRun EXCEPT !.pc = "scan", !.provider = p, !.full = full,
                                !.dirs = dirs, !.hints = h, !.gone = Absent(p),
                                !.since = changes]
      /\ Others(w) /\ Quiet /\ run[w].pc = "idle"
  BY GotoSets DEF Start
<1> HIDE DEF dirs
<1>2. /\ run'[w].pc = "scan" /\ run'[w].provider = p
      /\ run'[w].full = full /\ run'[w].gone = Absent(p)
      /\ run'[w].dirs = dirs
      /\ run'[w].page = {} /\ run'[w].seen = {} /\ run'[w].since = changes
  BY <1>1 DEF IdleRun
<1> QED
  BY <1>1, <1>2 DEF dirs

LEMMA VisitDirFields ==
    ASSUME Inv, NEW w \in Worker, NEW d \in Path, VisitDir(w, d)
    PROVE  /\ Others(w) /\ Quiet /\ Carries(w)
           /\ run[w].pc = "scan" /\ run'[w].pc = "scan"
           /\ d \in run[w].dirs /\ run'[w].dirs = run[w].dirs \ {d}
           /\ run[w].page = {}
           /\ run'[w].page = {FactOf(k) : k \in
                {l \in Key : l[1] = run[w].provider /\ remote[l].present
                             /\ remote[l].path = d}}
           /\ run'[w].seen = run[w].seen /\ run'[w].safe = run[w].safe
<1>1. run[w] \in Run
  BY DEF Inv, TypeOK
<1> DEFINE page == {FactOf(k) : k \in
                {l \in Key : l[1] = run[w].provider /\ remote[l].present
                             /\ remote[l].path = d}}
<1>2. /\ Goto(w, [run[w] EXCEPT !.dirs = @ \ {d}, !.page = page])
      /\ Quiet /\ run[w].pc = "scan" /\ run[w].page = {} /\ d \in run[w].dirs
  BY DEF VisitDir
<1> HIDE DEF page
<1>3. run'[w] = [run[w] EXCEPT !.dirs = @ \ {d}, !.page = page] /\ Others(w)
  BY <1>2, GotoSets
<1>4. /\ Carries(w) /\ run'[w].pc = run[w].pc
      /\ run'[w].dirs = run[w].dirs \ {d}
      /\ run'[w].page = page
      /\ run'[w].seen = run[w].seen /\ run'[w].safe = run[w].safe
  BY <1>1, <1>3 DEF Run, Carries
<1> QED
  BY <1>2, <1>3, <1>4 DEF page

LEMMA ResolveHintFields ==
    ASSUME Inv, NEW w \in Worker, NEW e \in ExtId, ResolveHint(w, e)
    PROVE  /\ Others(w) /\ Quiet /\ Carries(w)
           /\ run[w].pc = "scan" /\ run'[w].pc = "scan"
           /\ run'[w].dirs = run[w].dirs
           /\ run[w].page = {}
           /\ e \in run[w].hints
           /\ run'[w].page = (IF remote[<<run[w].provider, e>>].present
                              THEN {FactOf(<<run[w].provider, e>>)} ELSE {})
           /\ run'[w].seen = run[w].seen /\ run'[w].safe = run[w].safe
<1>1. run[w] \in Run
  BY DEF Inv, TypeOK
<1> DEFINE page == IF remote[<<run[w].provider, e>>].present
                   THEN {FactOf(<<run[w].provider, e>>)} ELSE {}
<1>2. /\ Goto(w, [run[w] EXCEPT !.hints = @ \ {e}, !.page = page])
      /\ Quiet /\ run[w].pc = "scan" /\ run[w].page = {} /\ e \in run[w].hints
  BY DEF ResolveHint
<1> HIDE DEF page
<1>3. run'[w] = [run[w] EXCEPT !.hints = @ \ {e}, !.page = page] /\ Others(w)
  BY <1>2, GotoSets
<1>4. /\ Carries(w) /\ run'[w].pc = run[w].pc
      /\ run'[w].dirs = run[w].dirs
      /\ run'[w].page = page
      /\ run'[w].seen = run[w].seen /\ run'[w].safe = run[w].safe
  BY <1>1, <1>3 DEF Run, Carries
<1> QED
  BY <1>2, <1>3, <1>4 DEF page

LEMMA NextFactFields ==
    ASSUME Inv, NEW w \in Worker, NEW f \in run[w].page, NextFact(w, f)
    PROVE  /\ Others(w) /\ Quiet /\ Carries(w)
           /\ run[w].pc = "scan" /\ run'[w].pc = "match"
           /\ run'[w].dirs = run[w].dirs
           /\ run'[w].page = run[w].page \ {f}
           /\ run'[w].fact = f
           /\ run'[w].seen = run[w].seen \cup {f.key[2]}
           /\ run'[w].safe = run[w].safe
<1>1. run[w] \in Run
  BY DEF Inv, TypeOK
<1>2. run'[w] = [run[w] EXCEPT !.pc = "match", !.page = @ \ {f}, !.fact = f,
                               !.seen = @ \cup {f.key[2]}]
  BY GotoSets DEF NextFact
<1> QED
  BY <1>1, <1>2, GotoSets DEF NextFact, Run, Carries

LEMMA AskMatcherFields ==
    ASSUME Inv, NEW w \in Worker, AskMatcher(w)
    PROVE  /\ Others(w) /\ Quiet /\ Carries(w) /\ SameTraversal(w)
           /\ run[w].pc = "match"
           /\ run'[w].pc = (IF Match(run[w].fact).op = "evidence" THEN "open"
                            ELSE "execute")
           /\ run'[w].fact = run[w].fact
           /\ run'[w].decision = Match(run[w].fact)
           /\ Match(run[w].fact).op # "fail"
           /\ Match(run[w].fact).op = "evidence" => run[w].fact.evid = Null
           /\ run'[w].safe = run[w].safe
<1>1. run[w] \in Run
  BY DEF Inv, TypeOK
<1> DEFINE d == Match(run[w].fact)
           pc == IF d.op = "evidence" THEN "open" ELSE "execute"
<1>2. /\ Goto(w, [run[w] EXCEPT !.pc = pc, !.decision = d])
      /\ Quiet /\ run[w].pc = "match" /\ d.op # "fail"
      /\ d.op = "evidence" => run[w].fact.evid = Null
  BY DEF AskMatcher
<1> HIDE DEF d
<1>3. run'[w] = [run[w] EXCEPT !.pc = pc, !.decision = d] /\ Others(w)
  BY <1>2, GotoSets
<1>4. /\ Carries(w) /\ SameTraversal(w)
      /\ run'[w].pc = pc /\ run'[w].fact = run[w].fact /\ run'[w].decision = d
      /\ run'[w].safe = run[w].safe
  BY <1>1, <1>3 DEF Run, Carries, SameTraversal
<1> QED
  BY <1>2, <1>3, <1>4 DEF d

LEMMA ReadBodyFields ==
    ASSUME Inv, NEW w \in Worker, ReadBody(w)
    PROVE  /\ Others(w) /\ Quiet /\ Carries(w) /\ SameTraversal(w)
           /\ run[w].pc = "open" /\ run'[w].pc = "match"
           /\ \E k \in Served(run[w].fact) :
                run'[w].fact = WithEvidence(run[w].fact, remote[k].content)
           /\ run'[w].safe = run[w].safe
<1>1. run[w] \in Run
  BY DEF Inv, TypeOK
<1>2. PICK k \in Served(run[w].fact) :
         Goto(w, [run[w] EXCEPT !.pc = "match",
                           !.fact = WithEvidence(@, remote[k].content)])
  BY DEF ReadBody
<1> DEFINE g == WithEvidence(run[w].fact, remote[k].content)
<1>3. Goto(w, [run[w] EXCEPT !.pc = "match", !.fact = g])
  BY <1>2
<1> HIDE DEF g
<1>4. run'[w] = [run[w] EXCEPT !.pc = "match", !.fact = g] /\ Others(w)
  BY <1>3, GotoSets
<1>5. /\ Carries(w) /\ SameTraversal(w)
      /\ run'[w].pc = "match" /\ run'[w].fact = g
      /\ run'[w].safe = run[w].safe
  BY <1>1, <1>4 DEF Run, Carries, SameTraversal
<1>6. run[w].pc = "open" /\ Quiet
  BY DEF ReadBody
<1> QED
  BY <1>4, <1>5, <1>6 DEF g

LEMMA DisappearedFields ==
    ASSUME Inv, NEW w \in Worker, Disappeared(w)
    PROVE  /\ Others(w) /\ Quiet /\ Carries(w) /\ SameTraversal(w)
           /\ run[w].pc = "open" /\ run'[w].pc = "scan" /\ ~ run'[w].safe
<1>1. run[w] \in Run
  BY DEF Inv, TypeOK
<1>2. run'[w] = [run[w] EXCEPT !.pc = "scan", !.safe = FALSE, !.fact = Null,
                               !.decision = Keep]
  BY GotoSets DEF Disappeared
<1> QED
  BY <1>1, <1>2, GotoSets DEF Disappeared, Run, Carries, SameTraversal

LEMMA ExecuteFields ==
    ASSUME Inv, NEW w \in Worker, Execute(w)
    PROVE  /\ Others(w) /\ UNCHANGED <<remote, changes, faults>>
           /\ Carries(w) /\ SameTraversal(w)
           /\ run[w].pc = "execute" /\ run'[w].pc = "scan"
           /\ run'[w].safe = run[w].safe
           /\ ~ Conflicts(run[w].fact, run[w].decision)
           /\ Apply(run[w].fact, run[w].decision)
<1>1. run[w] \in Run
  BY DEF Inv, TypeOK
<1>2. /\ run'[w] = [run[w] EXCEPT !.pc = "scan", !.fact = Null, !.decision = Keep]
      /\ Others(w)
  BY GotoSets DEF Execute
<1>3. /\ Carries(w) /\ SameTraversal(w) /\ run'[w].pc = "scan"
      /\ run'[w].safe = run[w].safe
  BY <1>1, <1>2 DEF Run, Carries, SameTraversal
<1> QED
  BY <1>2, <1>3 DEF Execute

LEMMA ListMissingFields ==
    ASSUME Inv, NEW w \in Worker, ListMissing(w)
    PROVE  /\ Others(w) /\ Quiet /\ Carries(w) /\ SameTraversal(w)
           /\ ScanDone(w) /\ run[w].safe /\ run[w].full
           /\ run'[w].safe = run[w].safe
           /\ run'[w].pc = "deactivate"
           /\ run'[w].missing = {k \in ActiveSources(run[w].provider) :
                                   k[2] \notin run[w].seen}
<1>1. run[w] \in Run
  BY DEF Inv, TypeOK
<1> DEFINE missing == {k \in ActiveSources(run[w].provider) :
                         k[2] \notin run[w].seen}
<1>2. /\ Goto(w, [run[w] EXCEPT !.pc = "deactivate", !.missing = missing])
      /\ Quiet /\ ScanDone(w) /\ run[w].safe /\ run[w].full
  BY DEF ListMissing
<1> HIDE DEF missing
<1>3. /\ run'[w] = [run[w] EXCEPT !.pc = "deactivate", !.missing = missing]
      /\ Others(w)
  BY <1>2, GotoSets
<1>4. /\ Carries(w) /\ SameTraversal(w)
      /\ run'[w].pc = "deactivate" /\ run'[w].missing = missing
      /\ run'[w].safe = run[w].safe
  BY <1>1, <1>3 DEF Run, Carries, SameTraversal
<1> QED
  BY <1>2, <1>3, <1>4 DEF missing

\* A run that ends without writing, whatever ended it.
Ends(w) ==
    \/ MatcherRaises(w) \/ OpenRaises(w) \/ ExecuteConflict(w)
    \/ EndIncomplete(w) \/ EndIncremental(w) \/ Abort(w)

LEMMA EndFields ==
    ASSUME Inv, NEW w \in Worker, Ends(w)
    PROVE  /\ Others(w) /\ run'[w].pc = "idle"
           /\ UNCHANGED <<assets, blobs, sources, remote, changes>>
<1>1. /\ Goto(w, IdleRun)
      /\ UNCHANGED <<assets, blobs, sources, remote, changes>>
  BY DEF Ends, MatcherRaises, OpenRaises, ExecuteConflict, EndIncomplete,
         EndIncremental, Abort, Quiet
<1> QED
  BY <1>1, GotoSets DEF IdleRun

LEMMA ReconcileFields ==
    ASSUME Inv, NEW w \in Worker, Reconcile(w)
    PROVE  /\ Others(w) /\ run[w].pc = "deactivate" /\ run'[w].pc = "idle"
           /\ UNCHANGED <<assets, blobs, remote, changes, faults>>
           /\ sources' = [k \in DOMAIN sources |->
                [sources[k] EXCEPT !.active = @ /\ k \notin run[w].missing]]
<1>1. Goto(w, IdleRun)
  BY DEF Reconcile
<1> QED
  BY <1>1, GotoSets DEF IdleRun, Reconcile, Deactivate

\* What a step of the Provider does, whichever it is.
LEMMA ChangeFields ==
    ASSUME Inv, RemoteInPlace, Change
    PROVE  \E k \in Key :
             /\ RemoteInPlace'
             /\ \A l \in Key : l # k => remote'[l] = remote[l]
             /\ UNCHANGED <<assets, blobs, sources>>
             /\ changes' = changes + 1 /\ changes \in Nat
             /\ \A w \in Worker :
                  \/ run'[w] = run[w] /\ (run[w].pc = "idle" \/ remote'[k].present)
                  \/ /\ run'[w] = [run[w] EXCEPT !.gone = @ \cup {k}]
                     /\ run[w] \in Run
<1>1. ASSUME NEW k \in Key, NEW o, ProviderStep(k, o),
             o.path \in PathsOf[k[1]], o.content \in MayHold[k]
      PROVE  /\ RemoteInPlace'
             /\ \A l \in Key : l # k => remote'[l] = remote[l]
             /\ UNCHANGED <<assets, blobs, sources>>
             /\ changes' = changes + 1 /\ changes \in Nat
             /\ \A w \in Worker :
                  \/ run'[w] = run[w] /\ (run[w].pc = "idle" \/ remote'[k].present)
                  \/ /\ run'[w] = [run[w] EXCEPT !.gone = @ \cup {k}]
                     /\ run[w] \in Run
  <2>1. remote'[k] = o /\ \A l \in Key : l # k => remote'[l] = remote[l]
    BY <1>1 DEF ProviderStep, Inv, TypeOK
  <2>2. RemoteInPlace'
    BY <1>1, <2>1 DEF RemoteInPlace
  <2>3. \A w \in Worker : run[w] \in Run
    BY DEF Inv, TypeOK
  <2>4. changes \in Nat
    BY EngineAssumption DEF Inv, TypeOK
  <2> QED
    BY <1>1, <2>1, <2>2, <2>3, <2>4 DEF ProviderStep
<1>2. \A k \in Key : /\ remote[k] \in Object
                     /\ remote[k].path \in PathsOf[k[1]]
                     /\ remote[k].content \in MayHold[k]
  BY DEF Inv, TypeOK, RemoteInPlace
<1>3. PICK k \in Key :
      \/ \E d \in PathsOf[k[1]], c \in MayHold[k] : Upload(k, d, c)
      \/ \E c \in MayHold[k] : Rewrite(k, c)
      \/ \E d \in PathsOf[k[1]] : Move(k, d)
      \/ Remove(k)
      \/ Restore(k)
  BY DEF Change
<1>4. \E o : ProviderStep(k, o) /\ o.path \in PathsOf[k[1]]
             /\ o.content \in MayHold[k]
  <2>1. CASE \E d \in PathsOf[k[1]], c \in MayHold[k] : Upload(k, d, c)
    BY <2>1 DEF Upload
  <2>2. CASE \E c \in MayHold[k] : Rewrite(k, c)
    <3>1. PICK c \in MayHold[k] :
             ProviderStep(k, [remote[k] EXCEPT !.ver = @ + 1, !.content = c])
      BY <2>2 DEF Rewrite
    <3> DEFINE o == [remote[k] EXCEPT !.ver = @ + 1, !.content = c]
    <3>2. o.path = remote[k].path /\ o.content = c
      BY <1>2 DEF Object
    <3> QED
      BY <1>2, <3>1, <3>2
  <2>3. CASE \E d \in PathsOf[k[1]] : Move(k, d)
    BY <1>2, <2>3 DEF Move, Object
  <2>4. CASE Remove(k) \/ Restore(k)
    BY <1>2, <2>4 DEF Remove, Restore, Object
  <2> QED
    BY <1>3, <2>1, <2>2, <2>3, <2>4
<1> QED
  BY <1>1, <1>4

-----------------------------------------------------------------------------
(* Reconciliation.                                                         *)

\* A run whose traversal fields a step keeps stays sound, as long as the step
\* leaves the Providers alone.
LEMMA TraversalKept ==
    ASSUME NEW w \in Worker, TraversalSound(run[w]), Carries(w),
           SameTraversal(w), run'[w].pc # "deactivate", UNCHANGED remote
    PROVE  TraversalSound(run[w])'
  BY DEF TraversalSound, Accounted, Carries, SameTraversal

LEMMA TraversalInit == Init => TraversalsAccount
  BY DEF Init, IdleRun, TraversalsAccount, RemoteInPlace

LEMMA TraversalOfOthers ==
    ASSUME TraversalsAccount, NEW w \in Worker, Others(w), UNCHANGED remote,
           run'[w].pc # "idle" => TraversalSound(run[w])'
    PROVE  TraversalsAccount'
  BY DEF TraversalsAccount, Others, RemoteInPlace, TraversalSound, Accounted

LEMMA StartTraversal ==
    ASSUME Inv, TraversalsAccount, NEW w \in Worker, NEW p \in Provider,
           NEW full \in BOOLEAN, NEW h \in SUBSET ExtId, Start(w, p, full, h)
    PROVE  TraversalsAccount'
<1>1. /\ run'[w].pc = "scan" /\ run'[w].provider = p
      /\ run'[w].full = full /\ run'[w].gone = Absent(p)
      /\ run'[w].dirs = (IF full THEN PathsOf[p] ELSE {})
      /\ Others(w) /\ UNCHANGED remote
  BY StartFields DEF Quiet
<1>2. \A k \in Key : remote[k].path \in PathsOf[k[1]]
  BY DEF TraversalsAccount, RemoteInPlace
<1>3. TraversalSound(run[w])'
  BY <1>1, <1>2 DEF TraversalSound, Accounted, Absent
<1> QED
  BY <1>1, <1>3, TraversalOfOthers

LEMMA VisitDirTraversal ==
    ASSUME Inv, TraversalsAccount, NEW w \in Worker, NEW d \in Path,
           VisitDir(w, d)
    PROVE  TraversalsAccount'
<1> DEFINE r == run[w]
           q == run'[w]
<1>1. /\ Others(w) /\ UNCHANGED remote /\ Carries(w)
      /\ q.pc = "scan" /\ d \in r.dirs /\ q.dirs = r.dirs \ {d}
      /\ q.page = {FactOf(k) : k \in
                {l \in Key : l[1] = r.provider /\ remote[l].present
                             /\ remote[l].path = d}}
      /\ q.seen = r.seen
  BY VisitDirFields DEF Quiet
<1>2. TraversalSound(r) /\ r.pc = "scan"
  BY VisitDirFields DEF TraversalsAccount
<1>3. q.provider = r.provider /\ q.full = r.full /\ q.gone = r.gone
  BY <1>1 DEF Carries
<1>4. ASSUME NEW k \in Key, k[1] = r.provider, r.full, ListsInOnePlace(r.provider)
      PROVE  Accounted(q, k)
  <2>1. CASE ~ remote[k].present
    BY <1>2, <1>3, <1>4, <2>1 DEF TraversalSound, Accounted
  <2>2. CASE remote[k].present
    <3>1. remote[k].path \in PathsOf[r.provider] /\ d \in PathsOf[r.provider]
      BY <1>1, <1>2, <1>4 DEF TraversalsAccount, RemoteInPlace, TraversalSound
    <3>2. remote[k].path = d
      BY <1>4, <3>1 DEF ListsInOnePlace
    <3>3. FactOf(k) \in q.page /\ FactOf(k).key = k
      BY <1>1, <1>4, <2>2, <3>2 DEF FactOf
    <3> QED
      BY <3>3 DEF Accounted
  <2> QED
    BY <2>1, <2>2
<1>5. TraversalSound(q)
  BY <1>1, <1>2, <1>3, <1>4 DEF TraversalSound
<1>6. TraversalSound(run[w])'
  BY <1>1, <1>5 DEF TraversalSound, Accounted
<1> QED
  BY <1>1, <1>6, TraversalOfOthers

LEMMA ResolveHintTraversal ==
    ASSUME Inv, TraversalsAccount, NEW w \in Worker, NEW e \in ExtId,
           ResolveHint(w, e)
    PROVE  TraversalsAccount'
<1> DEFINE r == run[w]
           q == run'[w]
<1>1. /\ Others(w) /\ UNCHANGED remote /\ Carries(w)
      /\ q.pc = "scan" /\ q.dirs = r.dirs /\ r.page = {} /\ q.seen = r.seen
  BY ResolveHintFields DEF Quiet
<1>2. TraversalSound(r)
  BY ResolveHintFields DEF TraversalsAccount
<1>3. TraversalSound(run[w])'
  BY <1>1, <1>2 DEF TraversalSound, Accounted, Carries
<1> QED
  BY <1>1, <1>3, TraversalOfOthers

LEMMA NextFactTraversal ==
    ASSUME Inv, TraversalsAccount, NEW w \in Worker, NEW f \in run[w].page,
           NextFact(w, f)
    PROVE  TraversalsAccount'
<1> DEFINE r == run[w]
           q == run'[w]
<1>1. /\ Others(w) /\ UNCHANGED remote /\ Carries(w)
      /\ q.pc = "match" /\ q.dirs = r.dirs /\ q.page = r.page \ {f}
      /\ q.seen = r.seen \cup {f.key[2]}
  BY NextFactFields DEF Quiet
<1>2. TraversalSound(r)
  BY NextFactFields DEF TraversalsAccount
<1>3. \A k : Accounted(r, k) => Accounted(q, k)
  BY <1>1 DEF Accounted, Carries
<1>4. TraversalSound(run[w])'
  BY <1>1, <1>2, <1>3 DEF TraversalSound, Accounted, Carries
<1> QED
  BY <1>1, <1>4, TraversalOfOthers

LEMMA ListMissingTraversal ==
    ASSUME Inv, TraversalsAccount, NEW w \in Worker, ListMissing(w)
    PROVE  TraversalsAccount'
<1> DEFINE r == run[w]
           q == run'[w]
<1>1. /\ Others(w) /\ UNCHANGED remote /\ Carries(w) /\ SameTraversal(w)
      /\ r.pc = "scan" /\ r.full /\ r.dirs = {} /\ r.page = {}
      /\ q.missing = {k \in ActiveSources(r.provider) : k[2] \notin r.seen}
  BY ListMissingFields DEF Quiet, ScanDone
<1>2. TraversalSound(r)
  BY <1>1 DEF TraversalsAccount
<1>3. \A k \in q.missing : k[1] = r.provider /\ k[2] \notin r.seen
  BY <1>1 DEF ActiveSources
<1>4. TraversalSound(run[w])'
  BY <1>1, <1>2, <1>3 DEF TraversalSound, Accounted, Carries, SameTraversal
<1> QED
  BY <1>1, <1>4, TraversalOfOthers

LEMMA ChangeTraversal ==
    ASSUME Inv, TraversalsAccount, Change
    PROVE  TraversalsAccount'
<1>1. PICK k \in Key :
         /\ RemoteInPlace'
         /\ \A l \in Key : l # k => remote'[l] = remote[l]
         /\ \A w \in Worker :
              \/ run'[w] = run[w] /\ (run[w].pc = "idle" \/ remote'[k].present)
              \/ /\ run'[w] = [run[w] EXCEPT !.gone = @ \cup {k}]
                 /\ run[w] \in Run
  BY ChangeFields DEF TraversalsAccount
<1>2. ASSUME NEW w \in Worker, run'[w].pc # "idle"
      PROVE  TraversalSound(run[w])'
  <2> DEFINE r == run[w]
             q == run'[w]
  <2>1. /\ q.pc = r.pc /\ q.provider = r.provider /\ q.full = r.full
        /\ q.dirs = r.dirs /\ q.page = r.page /\ q.seen = r.seen
        /\ q.missing = r.missing /\ r.gone \subseteq q.gone
        /\ remote'[k].present \/ k \in q.gone
    <3>1. CASE r = q /\ (r.pc = "idle" \/ remote'[k].present)
      BY <1>2, <3>1
    <3>2. CASE q = [r EXCEPT !.gone = @ \cup {k}] /\ r \in Run
      BY <3>2 DEF Run
    <3> QED
      BY <1>1, <3>1, <3>2
  <2>2. TraversalSound(r)
    BY <1>2, <2>1 DEF TraversalsAccount
  <2>3. \A l \in Key : Accounted(r, l) => Accounted(q, l)
    BY <2>1 DEF Accounted
  <2>4. \A l \in Key : l[1] = q.provider =>
             /\ ~ remote'[l].present => l \in q.gone
             /\ q.full /\ ListsInOnePlace(q.provider) => Accounted(q, l)
    BY <1>1, <2>1, <2>2, <2>3 DEF TraversalSound
  <2> QED
    BY <2>1, <2>2, <2>4 DEF TraversalSound, Accounted
<1> QED
  BY <1>1, <1>2 DEF TraversalsAccount

LEMMA NextTraversal ==
    ASSUME Inv, TraversalsAccount, [Next]_vars
    PROVE  TraversalsAccount'
<1>1. ASSUME NEW w \in Worker,
             AskMatcher(w) \/ ReadBody(w) \/ Disappeared(w) \/ Execute(w)
      PROVE  TraversalsAccount'
  <2>1. /\ Others(w) /\ UNCHANGED remote /\ Carries(w) /\ SameTraversal(w)
        /\ run[w].pc # "idle" /\ run'[w].pc # "deactivate"
    BY <1>1, AskMatcherFields, ReadBodyFields, DisappearedFields, ExecuteFields
       DEF Quiet
  <2>2. TraversalSound(run[w])
    BY <2>1 DEF TraversalsAccount
  <2>3. TraversalSound(run[w])'
    BY <2>1, <2>2, TraversalKept
  <2> QED
    BY <2>1, <2>3, TraversalOfOthers
<1>2. ASSUME NEW w \in Worker, Ends(w) \/ Reconcile(w)
      PROVE  TraversalsAccount'
  <2>1. Others(w) /\ UNCHANGED remote /\ run'[w].pc = "idle"
    BY <1>2, EndFields, ReconcileFields
  <2> QED
    BY <2>1, TraversalOfOthers
<1>3. CASE UNCHANGED vars
  BY <1>3 DEF vars, TraversalsAccount, RemoteInPlace, TraversalSound, Accounted
<1>4. ASSUME NEW w \in Worker, NEW p \in Provider, StartFull(w, p)
      PROVE  TraversalsAccount'
  <2>1. {} \in SUBSET ExtId /\ TRUE \in BOOLEAN
    OBVIOUS
  <2> QED
    BY <1>4, <2>1, StartTraversal DEF StartFull
<1>5. ASSUME NEW w \in Worker, NEW p \in Provider, NEW h \in SUBSET ExtId \ {{}},
             StartIncremental(w, p, h)
      PROVE  TraversalsAccount'
  <2>1. h \in SUBSET ExtId /\ FALSE \in BOOLEAN
    OBVIOUS
  <2> QED
    BY <1>5, <2>1, StartTraversal DEF StartIncremental
<1>6. ASSUME NEW w \in Worker, EngineStep(w) \/ Abort(w)
      PROVE  TraversalsAccount'
  BY <1>1, <1>2, <1>6, VisitDirTraversal, ResolveHintTraversal,
     NextFactTraversal, ListMissingTraversal DEF EngineStep, Ends
<1> QED
  BY <1>3, <1>4, <1>5, <1>6, ChangeTraversal DEF Next

LEMMA TraversalHolds == Spec => [](Inv /\ TraversalsAccount)
<1>1. Inv /\ TraversalsAccount /\ [Next]_vars => TraversalsAccount'
  BY NextTraversal
<1> QED
  BY <1>1, TraversalInit, InvHolds, PTL DEF Spec

\* Only a reconciliation makes a Source inactive.
LEMMA OnlyReconcileDeactivates ==
    ASSUME Inv, TraversalsAccount, \A p \in Provider : ListsInOnePlace(p),
           [Next]_vars, NEW k \in DOMAIN sources, sources[k].active,
           ~ sources'[k].active
    PROVE  \E w \in Worker : run[w].pc = "deactivate" /\ k \in run[w].gone
<1>1. ASSUME NEW w \in Worker, Execute(w)
      PROVE  FALSE
  <2> DEFINE f == run[w].fact
  <2>1. Apply(f, run[w].decision)
    BY <1>1 DEF Execute
  <2>2. UNCHANGED sources \/ \E b : sources' = WithSource(f.key, RowFor(f, b))
    BY <2>1 DEF Apply, worldVars
  <2> QED
    BY <2>2 DEF WithSource, RowFor
<1>2. ASSUME NEW w \in Worker, Reconcile(w)
      PROVE  run[w].pc = "deactivate" /\ k \in run[w].gone
  <2>1. run[w].pc = "deactivate"
        /\ sources' = [l \in DOMAIN sources |->
                [sources[l] EXCEPT !.active = @ /\ l \notin run[w].missing]]
    BY <1>2, ReconcileFields
  <2>2. sources[k] \in SourceRow /\ k \in Key
    BY DEF Inv, TypeOK, WorldTypeOK
  <2>3. k \in run[w].missing
    BY <2>1, <2>2 DEF SourceRow
  <2>4. TraversalSound(run[w]) /\ run[w] \in Run
    BY <2>1 DEF TraversalsAccount, Inv, TypeOK
  <2>5. run[w].provider \in Provider /\ k[1] = run[w].provider
        /\ Accounted(run[w], k) /\ k[2] \notin run[w].seen
        /\ run[w].dirs = {} /\ run[w].page = {}
    BY <2>1, <2>2, <2>3, <2>4 DEF TraversalSound, Run
  <2> QED
    BY <2>1, <2>5 DEF Accounted
<1>3. UNCHANGED sources \/ \E w \in Worker : Execute(w) \/ Reconcile(w)
  <2>1. CASE Change
    BY <2>1 DEF Change, Upload, Rewrite, Move, Remove, Restore, ProviderStep
  <2>2. ASSUME NEW w \in Worker, EngineStep(w)
        PROVE  UNCHANGED sources \/ Execute(w) \/ Reconcile(w)
    BY <2>2 DEF EngineStep, VisitDir, ResolveHint, NextFact, AskMatcher,
         MatcherRaises, ReadBody, Disappeared, OpenRaises, ExecuteConflict,
         EndIncomplete, EndIncremental, ListMissing, Quiet
  <2>3. ASSUME NEW w \in Worker,
               \/ \E p \in Provider : StartFull(w, p)
               \/ \E p \in Provider, h \in SUBSET ExtId \ {{}} :
                    StartIncremental(w, p, h)
               \/ Abort(w)
        PROVE  UNCHANGED sources
    BY <2>3 DEF StartFull, StartIncremental, Start, Quiet, Abort
  <2>4. CASE UNCHANGED vars
    BY <2>4 DEF vars
  <2> QED
    BY <2>1, <2>2, <2>3, <2>4 DEF Next
<1> QED
  BY <1>1, <1>2, <1>3

\* Where every Provider lists its objects in one place, no run, locked or not,
\* deactivates the Source of an object that was there all through that run.
THEOREM DeactivationsAreEarned ==
    ASSUME \A p \in Provider : ListsInOnePlace(p)
    PROVE  Spec => DeactivatedWasAbsent
<1>1. Inv /\ TraversalsAccount /\ [Next]_vars =>
        [\A k \in DOMAIN sources :
           sources[k].active /\ ~ sources'[k].active =>
             \E w \in Worker : run[w].pc = "deactivate" /\ k \in run[w].gone]_vars
  BY OnlyReconcileDeactivates
<1> QED
  BY <1>1, TraversalHolds, PTL DEF Spec, DeactivatedWasAbsent

-----------------------------------------------------------------------------
(* Repetition.                                                             *)

LEMMA HeldBytes ==
    ASSUME NEW kind
    PROVE  HeldBy(kind) \subseteq Content
  BY EngineAssumption DEF HeldBy

\* The bytes an object of some kind may have are bytes of that kind.
LEMMA HeldByKind ==
    ASSUME NEW k \in Key, NEW c \in MayHold[k]
    PROVE  c \in HeldBy(Kind(k))
  BY DEF HeldBy

LEMMA RecordsInit == Init => RecordsAgree
<1> SUFFICES ASSUME Init PROVE RecordsAgree
  OBVIOUS
<1> DEFINE n == Len(Legacy)
<1>1. n \in Nat /\ \A i \in 1..n : Legacy[i] \in Key /\ Kind(Legacy[i]) = "file"
  BY EngineAssumption
<1>2. RemoteInPlace
  BY DEF Init, RemoteInPlace
<1>3. /\ DOMAIN blobs = 1..n /\ DOMAIN assets = 1..n
      /\ DOMAIN sources = LegacyKeys
      /\ \A i \in 1..n : assets[i] = "file"
      /\ \A i \in 1..n : blobs[i] = [asset |-> i,
                           content |-> remote[Legacy[i]].content, size |-> Null]
      /\ \A k \in LegacyKeys :
           sources[k] = [blob |-> LegacyRow(k), path |-> remote[k].path,
                         ver |-> 0, size |-> Null, active |-> TRUE]
  BY DEF Init
<1>4. ASSUME NEW b \in 1..n
      PROVE  /\ blobs[b].content \in HeldBy(assets[blobs[b].asset])
             /\ SizesMeet(SizeOf[blobs[b].content], blobs[b].size)
             /\ ~ b > Len(Legacy)
  <2>1. Legacy[b] \in Key /\ Kind(Legacy[b]) = "file"
    BY <1>1
  <2>2. remote[Legacy[b]].content \in MayHold[Legacy[b]]
    BY <1>2, <2>1 DEF RemoteInPlace
  <2>3. remote[Legacy[b]].content \in HeldBy("file")
    BY <2>1, <2>2, HeldByKind
  <2>4. /\ blobs[b].content = remote[Legacy[b]].content
        /\ assets[blobs[b].asset] = "file" /\ blobs[b].size = Null
    BY <1>3
  <2> QED
    BY <1>1, <2>3, <2>4 DEF SizesMeet
<1>5. ASSUME NEW k \in LegacyKeys
      PROVE  /\ assets[AssetOf(k)] = Kind(k)
             /\ SizesMeet(sources[k].size, blobs[sources[k].blob].size)
  <2>1. LegacyRow(k) \in 1..n /\ Kind(k) = "file"
    BY LegacyRows
  <2> QED
    BY <1>3, <2>1 DEF AssetOf, SizesMeet
<1>6. RowsAgree
  BY <1>3, <1>4, <1>5 DEF RowsAgree
<1> QED
  BY <1>2, <1>6 DEF RecordsAgree, FactAgrees, Init, IdleRun

\* A decision the Matcher makes agrees with the sizes it compared.
LEMMA MatchAgrees ==
    ASSUME Inv, RowsAgree, NEW f \in Fact,
           Match(f).op \notin {"fail", "evidence"}
    PROVE  /\ f.evid # Null => SizesMeet(f.size, SizeOf[f.evid])
           /\ Match(f).op \in {"attach", "update"} =>
                SizesMeet(f.size, blobs[Match(f).blob].size)
<1>1. /\ f.evid # Null => f.evid \in Content /\ SizeOf[f.evid] \in Nat
                          /\ SizeOf[f.evid] # Null
      /\ Kind(f.key) \in {"file", "message"}
  BY RepositoryAssumption DEF Fact, Key, Kind
<1>2. ~ EvidenceRefused(f)
  BY DEF Match, Fail, Decide
<1>3. f.evid # Null => SizesMeet(f.size, SizeOf[f.evid])
  BY <1>2 DEF EvidenceRefused, SizesMeet
<1>4. \A b \in DOMAIN blobs : blobs[b].content = f.evid /\ f.evid # Null =>
        SizesMeet(f.size, blobs[b].size)
  BY <1>1, <1>3 DEF RowsAgree, SizesMeet
<1>5. CASE f.key \notin DOMAIN sources
  <2> DEFINE kind == Kind(f.key)
             same == BlobsWithHash(f.evid)
             b == CHOOSE x \in same : TRUE
  <2>1. Match(f) = MatchNew(f)
    BY <1>2, <1>5 DEF Match
  <2>2. \/ Match(f).op \notin {"attach", "update"}
        \/ Match(f) = Decide("attach", b, 0) /\ same # {} /\ f.evid # Null
    <3>1. CASE f.evid = Null \/ kind = "message" \/ same = {}
      <4>1. MatchNew(f) \in {NeedEvidence, Decide("create", 0, 0)}
        BY <1>1, <3>1 DEF MatchNew
      <4> QED
        BY <2>1, <4>1 DEF Decide, NeedEvidence
    <3>2. CASE f.evid # Null /\ kind = "file" /\ same # {}
      <4>1. MatchNew(f) = Fail \/ MatchNew(f) = Decide("attach", b, 0)
        BY <3>2 DEF MatchNew
      <4> QED
        BY <2>1, <3>2, <4>1 DEF Decide, Fail
    <3> QED
      BY <1>1, <3>1, <3>2
  <2>3. same # {} => b \in DOMAIN blobs /\ blobs[b].content = f.evid
    BY DEF BlobsWithHash
  <2> HIDE DEF b
  <2> QED
    BY <1>3, <1>4, <2>2, <2>3 DEF Decide
<1>6. CASE f.key \in DOMAIN sources
  <2> DEFINE row == sources[f.key]
             known == BlobsInAsset(blobs[row.blob].asset, f.evid)
             b == CHOOSE x \in known : TRUE
  <2>1. Match(f) = MatchExisting(f, row)
    BY <1>2, <1>6 DEF Match, Fail, Decide
  <2>2. row.blob \in DOMAIN blobs
    BY <1>6 DEF Inv, WorldWellFormed
  <2>3. known # {} => b \in DOMAIN blobs /\ blobs[b].content = f.evid
    BY DEF BlobsInAsset, BlobsWithHash
  <2>4. CASE f.evid # Null
    <3>1. \/ Match(f).op \notin {"attach", "update"}
          \/ Match(f) = Decide("update", row.blob, 0)
             /\ blobs[row.blob].content = f.evid
          \/ Match(f) = Decide("update", b, 0) /\ known # {}
      <4>1. Match(f) = MatchVerified(f, row)
        BY <2>1, <2>4 DEF MatchExisting
      <4>2. CASE blobs[row.blob].content = f.evid
        <5>1. MatchVerified(f, row) \in
                {Fail, Keep, Decide("update", row.blob, 0)}
          BY <4>2 DEF MatchVerified
        <5> QED
          BY <4>1, <4>2, <5>1 DEF Decide, Fail, Keep
      <4>3. CASE blobs[row.blob].content # f.evid /\ known = {}
        <5>1. MatchVerified(f, row)
                = Decide("version", 0, blobs[row.blob].asset)
          BY <4>3 DEF MatchVerified
        <5> QED
          BY <4>1, <5>1 DEF Decide
      <4>4. CASE blobs[row.blob].content # f.evid /\ known # {}
        <5>1. MatchVerified(f, row) \in {Fail, Decide("update", b, 0)}
          BY <4>4 DEF MatchVerified
        <5> QED
          BY <4>1, <4>4, <5>1 DEF Decide, Fail
      <4> QED
        BY <4>2, <4>3, <4>4
    <3> HIDE DEF b
    <3> QED
      BY <1>3, <1>4, <2>2, <2>3, <2>4, <3>1 DEF Decide
  <2>5. CASE f.evid = Null
    <3>1. \/ Match(f).op \notin {"attach", "update"}
          \/ Match(f) = Decide("update", row.blob, 0) /\ ~ SizeDrifted(f, row)
      BY <2>1, <2>5 DEF MatchExisting, Decide, Keep, NeedEvidence
    <3>2. ~ SizeDrifted(f, row) => SizesMeet(f.size, blobs[row.blob].size)
      BY DEF SizeDrifted, SizesMeet
    <3> QED
      BY <2>5, <3>1, <3>2 DEF Decide
  <2> QED
    BY <2>4, <2>5
<1> QED
  BY <1>5, <1>6

LEMMA RecordsOfOthers ==
    ASSUME RecordsAgree, NEW w \in Worker, Others(w),
           UNCHANGED <<assets, blobs, sources, remote>>, FactAgrees(run'[w])
    PROVE  RecordsAgree'
  BY DEF RecordsAgree, Others, RemoteInPlace, RowsAgree, AssetOf, FactAgrees

\* What a committed decision leaves in the rows.
LEMMA ApplyAgrees ==
    ASSUME Inv, RowsAgree, KindsApart, NEW r \in Run, RunSound(r),
           FactAgrees(r), r.pc = "execute", ~ Conflicts(r.fact, r.decision),
           Apply(r.fact, r.decision)
    PROVE  RowsAgree'
<1> DEFINE f == r.fact
           d == r.decision
           kind == Kind(f.key)
<1>1. /\ f \in Fact /\ f.key \in Key /\ d \in Decision /\ DecisionSound(f, d)
      /\ kind \in {"file", "message"}
      /\ TypeOK /\ WorldWellFormed
  BY RepositoryAssumption DEF RunSound, Run, Fact, Key, Kind, Inv
<1>2. f.evid # Null => f.evid \in HeldBy(kind)
                       /\ SizesMeet(f.size, SizeOf[f.evid])
  BY DEF FactAgrees
<1>3. CASE d.op = "keep"
  BY <1>3 DEF Apply, worldVars, RowsAgree, AssetOf
<1>4. ASSUME NEW a \in Nat, AddBlob(f, a), f.evid \in Content,
             sources' = WithSource(f.key, RowFor(f, Len(blobs) + 1)),
             assets'[a] = kind,
             \A i \in DOMAIN assets : assets'[i] = assets[i]
      PROVE  RowsAgree'
  <2> DEFINE n == Len(blobs) + 1
  <2>1. f.evid # Null /\ SizeOf[f.evid] \in Nat /\ SizeOf[f.evid] # Null
    BY <1>4, RepositoryAssumption
  <2>2. /\ DOMAIN blobs' = DOMAIN blobs \cup {n}
        /\ \A b \in DOMAIN blobs : blobs'[b] = blobs[b]
        /\ blobs'[n].asset = a /\ blobs'[n].content = f.evid
    <3>1. /\ DOMAIN blobs = 1..Len(blobs) /\ Len(blobs) \in Nat
          /\ DOMAIN blobs' = 1..(Len(blobs) + 1)
          /\ \A b \in DOMAIN blobs : blobs'[b] = blobs[b]
          /\ blobs'[n].asset = a /\ blobs'[n].content = f.evid
      BY <1>1, <1>4, BlobAdded
    <3> QED
      BY <3>1
  <2>3. blobs'[n].size = SizeOf[f.evid]
    BY <1>1, <1>4 DEF AddBlob, TypeOK, WorldTypeOK
  <2>4. /\ DOMAIN sources' = DOMAIN sources \cup {f.key}
        /\ sources'[f.key] = RowFor(f, n)
        /\ \A k \in DOMAIN sources : k # f.key => sources'[k] = sources[k]
    BY <1>4 DEF WithSource
  <2>5. ASSUME NEW b \in DOMAIN blobs'
        PROVE  /\ blobs'[b].content \in HeldBy(assets'[blobs'[b].asset])
               /\ SizesMeet(SizeOf[blobs'[b].content], blobs'[b].size)
               /\ b > Len(Legacy) => blobs'[b].size # Null
    <3>1. CASE b = n
      BY <1>2, <1>4, <2>1, <2>2, <2>3, <3>1 DEF SizesMeet
    <3>2. CASE b \in DOMAIN blobs
      <4>1. blobs'[b] = blobs[b] /\ blobs[b].asset \in DOMAIN assets
        BY <1>1, <2>2, <3>2 DEF WorldWellFormed
      <4>2. assets'[blobs[b].asset] = assets[blobs[b].asset]
        BY <1>4, <4>1
      <4> QED
        BY <3>2, <4>1, <4>2 DEF RowsAgree
    <3> QED
      BY <2>2, <3>1, <3>2
  <2>6. ASSUME NEW k \in DOMAIN sources'
        PROVE  /\ assets'[blobs'[sources'[k].blob].asset] = Kind(k)
               /\ SizesMeet(sources'[k].size, blobs'[sources'[k].blob].size)
    <3>1. CASE k = f.key
      BY <1>2, <1>4, <2>1, <2>2, <2>3, <2>4, <3>1 DEF SizesMeet, RowFor
    <3>2. CASE k \in DOMAIN sources /\ k # f.key
      <4>1. /\ sources'[k] = sources[k]
            /\ sources[k].blob \in DOMAIN blobs
            /\ blobs[sources[k].blob].asset \in DOMAIN assets
        BY <1>1, <2>4, <3>2 DEF WorldWellFormed
      <4>2. blobs'[sources[k].blob] = blobs[sources[k].blob]
        BY <2>2, <4>1
      <4>3. assets'[blobs[sources[k].blob].asset]
              = assets[blobs[sources[k].blob].asset]
        BY <1>4, <4>1
      <4>4. /\ assets[blobs[sources[k].blob].asset] = Kind(k)
            /\ SizesMeet(sources[k].size, blobs[sources[k].blob].size)
        BY <3>2 DEF RowsAgree, AssetOf
      <4> QED
        BY <4>1, <4>2, <4>3, <4>4
    <3> QED
      BY <2>4, <3>1, <3>2
  <2> QED
    BY <2>5, <2>6 DEF RowsAgree, AssetOf
<1>5. ASSUME NEW b \in DOMAIN blobs, sources' = WithSource(f.key, RowFor(f, b)),
             UNCHANGED <<assets, blobs>>,
             assets[blobs[b].asset] = kind, SizesMeet(f.size, blobs[b].size)
      PROVE  RowsAgree'
  <2>1. /\ DOMAIN sources' = DOMAIN sources \cup {f.key}
        /\ sources'[f.key] = RowFor(f, b)
        /\ \A k \in DOMAIN sources : k # f.key => sources'[k] = sources[k]
    BY <1>5 DEF WithSource
  <2>2. RowFor(f, b).blob = b /\ RowFor(f, b).size = f.size
    BY DEF RowFor
  <2> QED
    BY <1>5, <2>1, <2>2 DEF RowsAgree, AssetOf
<1>6. CASE d.op = "create"
  <2>1. /\ assets' = Append(assets, kind)
        /\ AddBlob(f, Len(assets) + 1)
        /\ sources' = WithSource(f.key, RowFor(f, Len(blobs) + 1))
        /\ f.evid \in Content
    BY <1>1, <1>6 DEF Apply, DecisionSound
  <2>2. assets \in Seq({"file", "message"})
    BY <1>1 DEF TypeOK, WorldTypeOK
  <2>3. /\ Len(assets) + 1 \in Nat /\ assets'[Len(assets) + 1] = kind
        /\ \A i \in DOMAIN assets : assets'[i] = assets[i]
    BY <1>1, <2>1, <2>2, AppendRow
  <2> QED
    BY <1>4, <2>1, <2>3
<1>7. CASE d.op = "attach"
  <2>1. /\ sources' = WithSource(f.key, RowFor(f, d.blob))
        /\ UNCHANGED <<assets, blobs>>
        /\ d.blob \in DOMAIN blobs /\ f.evid \in Content
        /\ blobs[d.blob].content = f.evid
    BY <1>1, <1>7 DEF Apply, DecisionSound
  <2>2. assets[blobs[d.blob].asset] \in {"file", "message"}
    BY <1>1, <2>1 DEF TypeOK, WorldTypeOK, WorldWellFormed
  <2>3. f.evid \in HeldBy(kind) /\ f.evid \in HeldBy(assets[blobs[d.blob].asset])
    BY <1>2, <2>1, RepositoryAssumption DEF RowsAgree
  <2>4. assets[blobs[d.blob].asset] = kind
    BY <1>1, <2>2, <2>3 DEF KindsApart
  <2>5. SizesMeet(f.size, blobs[d.blob].size)
    BY <1>7 DEF FactAgrees
  <2> QED
    BY <1>5, <2>1, <2>4, <2>5
<1>8. CASE d.op = "update"
  <2>1. /\ sources' = WithSource(f.key, RowFor(f, d.blob))
        /\ UNCHANGED <<assets, blobs>>
        /\ d.blob \in DOMAIN blobs
        /\ f.key \in DOMAIN sources
        /\ blobs[d.blob].asset = AssetOf(f.key)
    BY <1>1, <1>8 DEF Apply, DecisionSound
  <2>2. assets[blobs[d.blob].asset] = kind
    BY <2>1 DEF RowsAgree
  <2>3. SizesMeet(f.size, blobs[d.blob].size)
    BY <1>8 DEF FactAgrees
  <2> QED
    BY <1>5, <2>1, <2>2, <2>3
<1>9. CASE d.op = "version"
  <2>1. /\ AddBlob(f, d.asset)
        /\ sources' = WithSource(f.key, RowFor(f, Len(blobs) + 1))
        /\ UNCHANGED assets
        /\ f.key \in DOMAIN sources /\ d.asset = AssetOf(f.key)
        /\ f.evid \in Content /\ d.asset \in Nat
    BY <1>1, <1>9 DEF Apply, DecisionSound, Decision
  <2>2. assets[d.asset] = kind
    BY <2>1 DEF RowsAgree
  <2> QED
    BY <1>4, <2>1, <2>2
<1> QED
  BY <1>1, <1>3, <1>6, <1>7, <1>8, <1>9 DEF DecisionSound

LEMMA NextRecords ==
    ASSUME Inv, Inv', KindsApart, RecordsAgree, [Next]_vars
    PROVE  RecordsAgree'
<1>1. CASE Change
  <2>1. PICK k \in Key :
          /\ RemoteInPlace'
          /\ UNCHANGED <<assets, blobs, sources>>
          /\ \A w \in Worker :
               run'[w] = run[w] \/ run'[w] = [run[w] EXCEPT !.gone = @ \cup {k}]
    BY <1>1, ChangeFields DEF RecordsAgree
  <2>2. \A w \in Worker : /\ run'[w].pc = run[w].pc
                          /\ run'[w].fact = run[w].fact
                          /\ run'[w].decision = run[w].decision
    BY <2>1 DEF Inv, TypeOK, Run
  <2> QED
    BY <2>1, <2>2 DEF RecordsAgree, RowsAgree, AssetOf, FactAgrees
<1>2. ASSUME NEW w \in Worker, Others(w),
             UNCHANGED <<assets, blobs, sources, remote>>,
             run'[w].pc \in {"idle", "scan", "deactivate"}
      PROVE  RecordsAgree'
  BY <1>2, RecordsOfOthers DEF FactAgrees
<1>3. ASSUME NEW w \in Worker, AskMatcher(w)
      PROVE  RecordsAgree'
  <2> DEFINE f == run[w].fact
  <2>1. /\ Others(w) /\ UNCHANGED <<assets, blobs, sources, remote>>
        /\ run[w].pc = "match"
        /\ run'[w].pc = (IF Match(f).op = "evidence" THEN "open" ELSE "execute")
        /\ run'[w].fact = f /\ run'[w].decision = Match(f)
        /\ Match(f).op # "fail"
    BY <1>3, AskMatcherFields DEF Quiet
  <2>2. f \in Fact /\ RowsAgree
        /\ (f.evid # Null => f.evid \in HeldBy(Kind(f.key)))
    BY <2>1 DEF Inv, InFlightSound, RunSound, RecordsAgree, FactAgrees
  <2>3. Match(f).op # "evidence" =>
          /\ f.evid # Null => SizesMeet(f.size, SizeOf[f.evid])
          /\ Match(f).op \in {"attach", "update"} =>
               SizesMeet(f.size, blobs[Match(f).blob].size)
    BY <2>1, <2>2, MatchAgrees
  <2>4. FactAgrees(run'[w])
    BY <2>1, <2>2, <2>3 DEF FactAgrees
  <2> QED
    BY <2>1, <2>4, RecordsOfOthers
<1>4. ASSUME NEW w \in Worker, ReadBody(w)
      PROVE  RecordsAgree'
  <2> DEFINE f == run[w].fact
  <2>1. /\ Others(w) /\ UNCHANGED <<assets, blobs, sources, remote>>
        /\ run[w].pc = "open" /\ run'[w].pc = "match"
    BY <1>4, ReadBodyFields DEF Quiet
  <2>2. PICK k \in Served(f) :
          run'[w].fact = WithEvidence(f, remote[k].content)
    BY <1>4, ReadBodyFields
  <2>3. f \in Fact
    BY <2>1 DEF Inv, InFlightSound, RunSound
  <2>4. k \in Key /\ Kind(k) = Kind(f.key)
        /\ remote[k].content \in HeldBy(Kind(k))
    BY HeldByKind DEF Served, Kind, RecordsAgree, RemoteInPlace
  <2>5. run'[w].fact.evid = remote[k].content /\ run'[w].fact.key = f.key
    BY <2>2, <2>3 DEF WithEvidence, Fact
  <2>6. FactAgrees(run'[w])
    BY <2>1, <2>4, <2>5 DEF FactAgrees
  <2> QED
    BY <2>1, <2>6, RecordsOfOthers
<1>5. ASSUME NEW w \in Worker, Execute(w)
      PROVE  RecordsAgree'
  <2>1. /\ Others(w) /\ UNCHANGED remote
        /\ run[w].pc = "execute" /\ run'[w].pc = "scan"
        /\ ~ Conflicts(run[w].fact, run[w].decision)
        /\ Apply(run[w].fact, run[w].decision)
    BY <1>5, ExecuteFields
  <2>2. run[w] \in Run /\ RunSound(run[w]) /\ FactAgrees(run[w]) /\ RowsAgree
    BY DEF Inv, TypeOK, InFlightSound, RecordsAgree
  <2>3. RowsAgree'
    BY <2>1, <2>2, ApplyAgrees
  <2>4. WorldAdvances
    BY <1>5, ExecuteInv
  <2>5. ASSUME NEW v \in Worker
        PROVE  FactAgrees(run[v])'
    <3>1. CASE v = w
      BY <2>1, <3>1 DEF FactAgrees
    <3>2. CASE v # w
      <4>1. run'[v] = run[v] /\ FactAgrees(run[v]) /\ RunSound(run[v])
        BY <2>1, <3>2 DEF Others, RecordsAgree, Inv, InFlightSound
      <4>2. run[v].pc = "execute"
              /\ run[v].decision.op \in {"attach", "update"} =>
                run[v].decision.blob \in DOMAIN blobs
        BY <4>1 DEF RunSound, DecisionSound
      <4> QED
        BY <2>4, <4>1, <4>2 DEF FactAgrees, WorldAdvances
    <3> QED
      BY <3>1, <3>2
  <2> QED
    BY <2>1, <2>3, <2>5 DEF RecordsAgree, RemoteInPlace
<1>6. ASSUME NEW w \in Worker, Reconcile(w)
      PROVE  RecordsAgree'
  <2>1. /\ Others(w) /\ run'[w].pc = "idle"
        /\ UNCHANGED <<assets, blobs, remote>>
        /\ sources' = [k \in DOMAIN sources |->
             [sources[k] EXCEPT !.active = @ /\ k \notin run[w].missing]]
    BY <1>6, ReconcileFields
  <2>2. \A k \in DOMAIN sources : sources[k] \in SourceRow
    BY DEF Inv, TypeOK, WorldTypeOK
  <2>3. /\ DOMAIN sources' = DOMAIN sources
        /\ \A k \in DOMAIN sources : /\ sources'[k].blob = sources[k].blob
                                     /\ sources'[k].size = sources[k].size
    BY <2>1, <2>2 DEF SourceRow
  <2>4. RowsAgree'
    BY <2>1, <2>3 DEF RecordsAgree, RowsAgree, AssetOf
  <2> QED
    BY <2>1, <2>4 DEF RecordsAgree, RemoteInPlace, Others, FactAgrees
<1>7. ASSUME NEW w \in Worker, Ends(w)
      PROVE  RecordsAgree'
  BY <1>2, <1>7, EndFields
<1>8. ASSUME NEW w \in Worker, NEW f \in run[w].page, NextFact(w, f)
      PROVE  RecordsAgree'
  <2>1. /\ Others(w) /\ UNCHANGED <<assets, blobs, sources, remote>>
        /\ run[w].pc = "scan" /\ run'[w].pc = "match" /\ run'[w].fact = f
    BY <1>8, NextFactFields DEF Quiet
  <2>2. f.evid = Null
    BY DEF Inv, InFlightSound, RunSound
  <2> QED
    BY <2>1, <2>2, RecordsOfOthers DEF FactAgrees
<1>9. ASSUME NEW w \in Worker, NEW d \in Path, VisitDir(w, d)
      PROVE  RecordsAgree'
  BY <1>2, <1>9, VisitDirFields DEF Quiet
<1>10. ASSUME NEW w \in Worker, NEW e \in ExtId, ResolveHint(w, e)
       PROVE  RecordsAgree'
  BY <1>2, <1>10, ResolveHintFields DEF Quiet
<1>11. ASSUME NEW w \in Worker, Disappeared(w) \/ ListMissing(w)
       PROVE  RecordsAgree'
  BY <1>2, <1>11, DisappearedFields, ListMissingFields DEF Quiet
<1>12. ASSUME NEW w \in Worker, NEW p \in Provider, NEW full \in BOOLEAN,
              NEW h \in SUBSET ExtId, Start(w, p, full, h)
       PROVE  RecordsAgree'
  BY <1>2, <1>12, StartFields DEF Quiet
<1>13. ASSUME NEW w \in Worker, NEW p \in Provider, StartFull(w, p)
       PROVE  RecordsAgree'
  <2>1. {} \in SUBSET ExtId /\ TRUE \in BOOLEAN
    OBVIOUS
  <2> QED
    BY <1>12, <1>13, <2>1 DEF StartFull
<1>14. ASSUME NEW w \in Worker, NEW p \in Provider,
              NEW h \in SUBSET ExtId \ {{}}, StartIncremental(w, p, h)
       PROVE  RecordsAgree'
  <2>1. h \in SUBSET ExtId /\ FALSE \in BOOLEAN
    OBVIOUS
  <2> QED
    BY <1>12, <1>14, <2>1 DEF StartIncremental
<1>15. ASSUME NEW w \in Worker, EngineStep(w) \/ Abort(w)
       PROVE  RecordsAgree'
  BY <1>3, <1>4, <1>5, <1>6, <1>7, <1>8, <1>9, <1>10, <1>11, <1>15
     DEF EngineStep, Ends
<1>16. CASE UNCHANGED vars
  BY <1>16 DEF vars, RecordsAgree, RemoteInPlace, RowsAgree, AssetOf, FactAgrees
<1> QED
  BY <1>1, <1>13, <1>14, <1>15, <1>16 DEF Next

\* Rows that agree are decided upon without a write.
LEMMA AgreeingRowsAreKept ==
    ASSUME Inv, RecordsAgree
    PROVE  ReplayIsNoop
<1> SUFFICES ASSUME NEW k \in DOMAIN sources, remote[k].present,
                    Unchanged(FullFact(k), sources[k])
             PROVE  /\ k[1] \notin PathAddressed => Match(FullFact(k)).op = "keep"
                    /\ Kind(k) = "file" /\ sources[k].blob > Len(Legacy) =>
                         Match(FactOf(k)).op = "keep"
  BY DEF ReplayIsNoop
<1> DEFINE row == sources[k]
           blob == blobs[row.blob]
           c == remote[k].content
           f == FactOf(k)
           g == FullFact(k)
<1>1. /\ k \in Key /\ row \in SourceRow /\ row.blob \in DOMAIN blobs
      /\ blob \in BlobRow
  BY SourceRows DEF Inv
<1>2. /\ remote[k] \in Object /\ c \in Content /\ c # Null
      /\ SizeOf[c] \in Nat /\ SizeOf[c] # Null
      /\ Kind(k) \in {"file", "message"}
  BY <1>1, RepositoryAssumption DEF Inv, TypeOK, Object, Key, Kind
<1>3. /\ f.key = k /\ f.path = remote[k].path /\ f.evid = Null
      /\ f.size = IF Kind(k) = "message" THEN Null ELSE SizeOf[c]
      /\ Kind(k) = "file" => f.ver = remote[k].ver
  BY <1>2 DEF FactOf
<1>4. /\ g.key = k /\ g.path = f.path /\ g.size = f.size /\ g.evid = c
      /\ g.ver = IF Kind(k) = "message" THEN c ELSE f.ver
  BY <1>3 DEF FullFact, WithEvidence, FactOf
<1>5. row.path = f.path /\ row.ver = g.ver /\ row.size = f.size /\ row.active
      /\ row = RowFor(g, row.blob)
  BY <1>4 DEF Unchanged, RowFor
<1>6. /\ assets[AssetOf(k)] = Kind(k)
      /\ SizesMeet(row.size, blob.size)
      /\ SizesMeet(SizeOf[blob.content], blob.size)
      /\ row.blob > Len(Legacy) => blob.size # Null
      /\ SizeOf[blob.content] \in Nat /\ SizeOf[blob.content] # Null
  BY <1>1, RepositoryAssumption DEF RecordsAgree, RowsAgree, BlobRow
<1>7. ASSUME k[1] \notin PathAddressed
      PROVE  Match(g).op = "keep"
  <2>1. blob.content = c
    BY <1>2, <1>3, <1>4, <1>5, <1>7 DEF Inv, VersionPinsContent, ContentOf
  <2>2. ~ EvidenceRefused(g)
    BY <1>3, <1>4 DEF EvidenceRefused
  <2>3. BlobAgrees(row.blob, g, TRUE)
    BY <1>4, <1>6, <2>1 DEF BlobAgrees, SizesMeet
  <2>4. MatchVerified(g, row) = Keep
    BY <1>4, <2>1, <2>3 DEF MatchVerified
  <2>5. Match(g) = Keep
    BY <1>2, <1>4, <1>6, <2>2, <2>4 DEF Match, MatchExisting
  <2> QED
    BY <2>5 DEF Keep, Decide
<1>8. ASSUME Kind(k) = "file", row.blob > Len(Legacy)
      PROVE  Match(f).op = "keep"
  <2>1. blob.size = f.size /\ f.size # Null
    BY <1>2, <1>3, <1>5, <1>6, <1>8 DEF SizesMeet
  <2>2. ~ SizeDrifted(f, row)
    BY <1>5, <2>1 DEF SizeDrifted
  <2>3. row = RowFor(f, row.blob)
    BY <1>3, <1>4, <1>5, <1>8 DEF RowFor
  <2>4. MatchExisting(f, row) = Keep
    BY <1>3, <1>4, <1>5, <1>8, <2>2, <2>3 DEF MatchExisting, Unchanged
  <2>5. Match(f) = Keep
    BY <1>3, <1>6, <2>4 DEF Match, EvidenceRefused
  <2> QED
    BY <2>5 DEF Keep, Decide
<1> QED
  BY <1>7, <1>8

\* Where no bytes are both a file's and a message's, every run that is repeated,
\* locked or not, decides nothing about objects whose state is recorded.
THEOREM ReplaysAreNoops ==
    ASSUME KindsApart
    PROVE  Spec => []ReplayIsNoop
<1>1. Inv /\ Inv' /\ RecordsAgree /\ [Next]_vars => RecordsAgree'
  BY NextRecords
<1>2. Inv /\ RecordsAgree => ReplayIsNoop
  BY AgreeingRowsAreKept
<1> QED
  BY <1>1, <1>2, RecordsInit, InvHolds, PTL DEF Spec

-----------------------------------------------------------------------------
(* Mirroring.                                                              *)

LEMMA MirrorInit == Init => QuietRunsMirror
  BY DEF Init, IdleRun, QuietRunsMirror, RemoteInPlace

\* Under the lock a step of w concerns no other run.
LEMMA MirrorOfOthers ==
    ASSUME Inv, UseLock, QuietRunsMirror, NEW w \in Worker, Others(w),
           run[w].pc # "idle" \/ \A v \in Worker : run[v].pc = "idle",
           UNCHANGED <<remote, changes>>,
           run'[w].pc # "idle" =>
             /\ run'[w].since =< changes
             /\ run'[w].since = changes => MirrorSound(run[w])'
    PROVE  QuietRunsMirror'
<1>1. \A v \in Worker : v # w => run'[v].pc = "idle"
  BY DEF Inv, LockHeld, Others
<1> QED
  BY <1>1 DEF QuietRunsMirror, RemoteInPlace

LEMMA FactsAreCurrent ==
    ASSUME NEW k \in Key, remote[k].present
    PROVE  FactOf(k).key = k /\ Current(FactOf(k))
<1>1. FactOf(k).key = k
  BY DEF FactOf
<1>2. Kind(k) = "file" => FactOf(k).ver = remote[k].ver
  BY DEF FactOf
<1> QED
  BY <1>1, <1>2 DEF Current

\* The Matcher keeps a Source only if it shows what the fact says.
LEMMA KeptRowsShow ==
    ASSUME Inv, NEW f \in Fact, Current(f), Match(f).op = "keep"
    PROVE  Shows(f.key)
<1> DEFINE k == f.key
           row == sources[k]
<1>1. k \in Key /\ Kind(k) \in {"file", "message"}
  BY RepositoryAssumption DEF Fact, Key, Kind
<1>2. Match(f) # Fail
  BY DEF Fail, Decide
<1>3. k \in DOMAIN sources
  <2>1. MatchNew(f).op # "keep"
    BY <1>1 DEF MatchNew, Decide, Fail, NeedEvidence
  <2> QED
    BY <1>2, <2>1 DEF Match
<1>4. Unchanged(f, row)
  <2>1. MatchExisting(f, row).op = "keep"
    BY <1>2, <1>3 DEF Match
  <2>2. ASSUME ~ Unchanged(f, row)
        PROVE  MatchVerified(f, row).op # "keep"
    BY <2>2 DEF MatchVerified, Decide, Fail
  <2> QED
    BY <2>1, <2>2 DEF MatchExisting, Decide, NeedEvidence
<1>5. row.path = f.path /\ row.ver = f.ver /\ row.active
  BY <1>4 DEF Unchanged, RowFor
<1>6. f.path = remote[k].path /\ remote[k].present
  BY DEF Current, FactOf
<1>7. k[1] \notin PathAddressed => ContentOf(k) = remote[k].content
  BY <1>1, <1>3, <1>5 DEF Current, Inv, VersionPinsContent
<1> QED
  BY <1>3, <1>5, <1>6, <1>7 DEF Shows

\* A committed decision about a fact that is still true shows its object, and
\* leaves what is shown of the others.
LEMMA CommitsShow ==
    ASSUME Inv, Inv', WorldAdvances, UNCHANGED remote,
           NEW f \in Fact, Current(f), NEW d, d.op = "keep" => Shows(f.key),
           Apply(f, d)
    PROVE  /\ Shows(f.key)'
           /\ \A k \in Key : Shows(k) /\ k # f.key => Shows(k)'
<1> DEFINE k == f.key
<1>1. k \in Key /\ Kind(k) \in {"file", "message"} /\ remote[k].present
      /\ f.path = remote[k].path /\ (Kind(k) = "file" => f.ver = remote[k].ver)
  BY RepositoryAssumption DEF Fact, Key, Kind, Current, FactOf
<1>2. CASE UNCHANGED worldVars /\ d.op = "keep"
  BY <1>2 DEF worldVars, Shows, ContentOf
<1>3. ASSUME NEW b, sources' = WithSource(k, RowFor(f, b))
      PROVE  /\ Shows(k)'
             /\ \A l \in Key : Shows(l) /\ l # k => Shows(l)'
  <2>1. /\ DOMAIN sources' = DOMAIN sources \cup {k}
        /\ sources'[k] = RowFor(f, b)
        /\ \A l \in DOMAIN sources : l # k => sources'[l] = sources[l]
    BY <1>3 DEF WithSource
  <2>2. /\ sources'[k].path = f.path /\ sources'[k].ver = f.ver
        /\ sources'[k].active
    BY <2>1 DEF RowFor
  <2>3. k[1] \notin PathAddressed => ContentOf(k)' = remote'[k].content
    BY <1>1, <2>1, <2>2 DEF Inv, VersionPinsContent
  <2>4. Shows(k)'
    BY <1>1, <2>1, <2>2, <2>3 DEF Shows
  <2>5. ASSUME NEW l \in DOMAIN sources, l # k
        PROVE  sources'[l] = sources[l] /\ ContentOf(l)' = ContentOf(l)
    <3>1. sources'[l] = sources[l] /\ sources[l].blob \in DOMAIN blobs
      BY <2>1, <2>5 DEF Inv, WorldWellFormed
    <3> QED
      BY <3>1 DEF WorldAdvances, ContentOf
  <2>6. ASSUME NEW l \in Key, Shows(l), l # k
        PROVE  Shows(l)'
    BY <2>1, <2>5, <2>6 DEF Shows
  <2> QED
    BY <2>4, <2>6
<1> QED
  BY <1>2, <1>3 DEF Apply

\* What is shown stays shown while no row and no object changes.
LEMMA ShownStays ==
    ASSUME UNCHANGED <<blobs, sources, remote>>, NEW k
    PROVE  Shows(k)' <=> Shows(k)
  BY DEF Shows, ContentOf

\* The parts of MirrorSound that a run's own fields decide, from a run w whose
\* rows and objects a step leaves alone.
LEMMA QuietMirror ==
    ASSUME NEW q \in Run, UNCHANGED <<blobs, sources, remote>>, MirrorSound(q)
    PROVE  MirrorSound(q)'
  BY DEF MirrorSound, Current, FactOf, Mirrored, Shows, ContentOf, ActiveSources

\* A step of w that leaves rows and objects alone, and after which what w holds
\* is sound if it was sound before.
LEMMA MirrorStep ==
    ASSUME Inv, Inv', UseLock, QuietRunsMirror, NEW w \in Worker, Others(w),
           UNCHANGED <<blobs, sources, remote, changes>>, Carries(w),
           run[w].pc # "idle",
           run[w].since = changes => MirrorSound(run'[w])
    PROVE  QuietRunsMirror'
<1>1. PICK q \in Run : q = run'[w]
  BY DEF Inv, TypeOK
<1>2. run[w].since = changes => MirrorSound(q)'
  BY <1>1, QuietMirror
<1>3. run'[w].since = run[w].since /\ run[w].since =< changes
  BY DEF Carries, QuietRunsMirror
<1> QED
  BY <1>1, <1>2, <1>3, MirrorOfOthers

LEMMA StartMirror ==
    ASSUME Inv, Inv', UseLock, QuietRunsMirror, NEW w \in Worker,
           NEW p \in Provider, NEW full \in BOOLEAN, NEW h \in SUBSET ExtId,
           Start(w, p, full, h)
    PROVE  QuietRunsMirror'
<1>1. /\ Others(w) /\ UNCHANGED <<blobs, sources, remote, changes>>
      /\ run'[w].pc = "scan" /\ run'[w].provider = p /\ run'[w].full = full
      /\ run'[w].dirs = (IF full THEN PathsOf[p] ELSE {})
      /\ run'[w].page = {} /\ run'[w].seen = {} /\ run'[w].since = changes
      /\ changes =< changes
  BY StartFields, EngineAssumption DEF Quiet, Inv, TypeOK
<1>2. PICK q \in Run : q = run'[w]
  BY DEF Inv, TypeOK
<1>3. \A k \in Key : remote[k].path \in PathsOf[k[1]]
  BY DEF QuietRunsMirror, RemoteInPlace
<1>4. MirrorSound(q)
  BY <1>1, <1>2, <1>3 DEF MirrorSound, Mirrored
<1>5. MirrorSound(q)'
  BY <1>1, <1>4, QuietMirror
<1>6. \A v \in Worker : run[v].pc = "idle"
  BY DEF Start
<1> QED
  BY <1>1, <1>2, <1>5, <1>6, MirrorOfOthers

LEMMA VisitDirMirror ==
    ASSUME Inv, Inv', UseLock, QuietRunsMirror, NEW w \in Worker, NEW d \in Path,
           VisitDir(w, d)
    PROVE  QuietRunsMirror'
<1> DEFINE r == run[w]
           q == run'[w]
<1>1. /\ Others(w) /\ UNCHANGED <<blobs, sources, remote, changes>> /\ Carries(w)
      /\ r.pc = "scan" /\ q.pc = "scan" /\ q.dirs = r.dirs \ {d}
      /\ r.page = {}
      /\ q.page = {FactOf(k) : k \in
                {l \in Key : l[1] = r.provider /\ remote[l].present
                             /\ remote[l].path = d}}
      /\ q.seen = r.seen /\ q.safe = r.safe
  BY VisitDirFields DEF Quiet
<1>2. q.provider = r.provider /\ q.full = r.full
  BY <1>1 DEF Carries
<1>3. ASSUME r.since = changes PROVE MirrorSound(q)
  <2>1. MirrorSound(r)
    BY <1>1, <1>3 DEF QuietRunsMirror
  <2>2. \A f \in q.page : f.key[1] = q.provider /\ Current(f)
    BY <1>1, <1>2, FactsAreCurrent
  <2>3. ASSUME NEW k \in Key, k[1] = q.provider, remote[k].present,
               Mirrored(r, k)
        PROVE  Mirrored(q, k)
    BY <1>1, <1>2, <2>3 DEF Mirrored
  <2> QED
    BY <1>1, <1>2, <2>1, <2>2, <2>3 DEF MirrorSound
<1> QED
  BY <1>1, <1>3, MirrorStep

LEMMA ResolveHintMirror ==
    ASSUME Inv, Inv', UseLock, QuietRunsMirror, NEW w \in Worker, NEW e \in ExtId,
           ResolveHint(w, e)
    PROVE  QuietRunsMirror'
<1> DEFINE r == run[w]
           q == run'[w]
           h == <<r.provider, e>>
<1>1. /\ Others(w) /\ UNCHANGED <<blobs, sources, remote, changes>> /\ Carries(w)
      /\ r.pc = "scan" /\ q.pc = "scan" /\ q.dirs = r.dirs
      /\ r.page = {}
      /\ q.page = (IF remote[h].present THEN {FactOf(h)} ELSE {})
      /\ q.seen = r.seen /\ q.safe = r.safe
  BY ResolveHintFields DEF Quiet
<1>2. q.provider = r.provider /\ q.full = r.full
  BY <1>1 DEF Carries
<1>3. ASSUME r.since = changes PROVE MirrorSound(q)
  <2>1. MirrorSound(r)
    BY <1>1, <1>3 DEF QuietRunsMirror
  <2>2. h \in Key /\ h[1] = r.provider
    BY DEF Inv, TypeOK, Run, Key
  <2>3. \A f \in q.page : f.key[1] = q.provider /\ Current(f)
    BY <1>1, <1>2, <2>2, FactsAreCurrent
  <2>4. ASSUME NEW k \in Key, Mirrored(r, k)
        PROVE  Mirrored(q, k)
    BY <1>1, <2>4 DEF Mirrored
  <2> QED
    BY <1>1, <1>2, <2>1, <2>3, <2>4 DEF MirrorSound
<1> QED
  BY <1>1, <1>3, MirrorStep

LEMMA NextFactMirror ==
    ASSUME Inv, Inv', UseLock, QuietRunsMirror, NEW w \in Worker,
           NEW f \in run[w].page, NextFact(w, f)
    PROVE  QuietRunsMirror'
<1> DEFINE r == run[w]
           q == run'[w]
<1>1. /\ Others(w) /\ UNCHANGED <<blobs, sources, remote, changes>> /\ Carries(w)
      /\ r.pc = "scan" /\ q.pc = "match" /\ q.dirs = r.dirs
      /\ q.page = r.page \ {f} /\ q.fact = f
      /\ q.seen = r.seen \cup {f.key[2]} /\ q.safe = r.safe
  BY NextFactFields DEF Quiet
<1>2. q.provider = r.provider /\ q.full = r.full
  BY <1>1 DEF Carries
<1>3. ASSUME r.since = changes PROVE MirrorSound(q)
  <2>1. MirrorSound(r)
    BY <1>1, <1>3 DEF QuietRunsMirror
  <2>2. f.key \in Key /\ f.key[1] = r.provider /\ Current(f)
        /\ remote[f.key].present
    BY <2>1 DEF MirrorSound, Current, Inv, TypeOK, Run, Fact
  <2>3. ASSUME NEW k \in Key, Mirrored(r, k)
        PROVE  Mirrored(q, k)
    BY <1>1, <2>3 DEF Mirrored, FactOf
  <2>4. ASSUME NEW k \in Key, k[1] = r.provider, ~ remote[k].present,
               k[2] \notin r.seen
        PROVE  k[2] \notin q.seen
    <3>1. k[2] = f.key[2] => k = f.key
      BY <2>2, <2>4 DEF Key
    <3> QED
      BY <1>1, <2>2, <2>4, <3>1
  <2> QED
    BY <1>1, <1>2, <2>1, <2>2, <2>3, <2>4 DEF MirrorSound
<1> QED
  BY <1>1, <1>3, MirrorStep

LEMMA AskMatcherMirror ==
    ASSUME Inv, Inv', UseLock, QuietRunsMirror, NEW w \in Worker, AskMatcher(w)
    PROVE  QuietRunsMirror'
<1> DEFINE r == run[w]
           q == run'[w]
<1>1. /\ Others(w) /\ UNCHANGED <<blobs, sources, remote, changes>> /\ Carries(w)
      /\ SameTraversal(w) /\ r.pc = "match"
      /\ q.pc \in {"open", "execute"}
      /\ q.fact = r.fact /\ q.decision = Match(r.fact) /\ q.safe = r.safe
  BY AskMatcherFields DEF Quiet
<1>2. /\ q.provider = r.provider /\ q.full = r.full
      /\ q.dirs = r.dirs /\ q.page = r.page /\ q.seen = r.seen
  BY <1>1 DEF Carries, SameTraversal
<1>3. ASSUME r.since = changes PROVE MirrorSound(q)
  <2>1. MirrorSound(r)
    BY <1>1, <1>3 DEF QuietRunsMirror
  <2>2. r.fact \in Fact /\ Current(r.fact)
    BY <1>1, <2>1 DEF MirrorSound, Inv, InFlightSound, RunSound
  <2>3. q.decision.op = "keep" => Shows(q.fact.key)
    BY <1>1, <2>2, KeptRowsShow
  <2>4. ASSUME NEW k \in Key, Mirrored(r, k)
        PROVE  Mirrored(q, k)
    BY <1>1, <1>2, <2>4 DEF Mirrored
  <2> QED
    BY <1>1, <1>2, <2>1, <2>3, <2>4 DEF MirrorSound
<1> QED
  BY <1>1, <1>3, MirrorStep

LEMMA ReadBodyMirror ==
    ASSUME Inv, Inv', UseLock, QuietRunsMirror, NEW w \in Worker, ReadBody(w)
    PROVE  QuietRunsMirror'
<1> DEFINE r == run[w]
           q == run'[w]
<1>1. /\ Others(w) /\ UNCHANGED <<blobs, sources, remote, changes>> /\ Carries(w)
      /\ SameTraversal(w) /\ r.pc = "open" /\ q.pc = "match" /\ q.safe = r.safe
      /\ \E c : q.fact = WithEvidence(r.fact, c)
  BY ReadBodyFields DEF Quiet
<1>2. /\ q.provider = r.provider /\ q.full = r.full
      /\ q.dirs = r.dirs /\ q.page = r.page /\ q.seen = r.seen
  BY <1>1 DEF Carries, SameTraversal
<1>3. ASSUME r.since = changes PROVE MirrorSound(q)
  <2>1. MirrorSound(r)
    BY <1>1, <1>3 DEF QuietRunsMirror
  <2>2. r.fact \in Fact /\ Current(r.fact) /\ Kind(r.fact.key) \in {"file", "message"}
    BY <1>1, <2>1, RepositoryAssumption
       DEF MirrorSound, Inv, InFlightSound, RunSound, Fact, Key, Kind
  <2>3. /\ q.fact.key = r.fact.key /\ q.fact.path = r.fact.path
        /\ q.fact.size = r.fact.size
        /\ Kind(r.fact.key) = "file" => q.fact.ver = r.fact.ver
    BY <1>1, <2>2 DEF WithEvidence, Fact
  <2>4. Current(q.fact)
    BY <2>2, <2>3 DEF Current
  <2>5. ASSUME NEW k \in Key, Mirrored(r, k)
        PROVE  Mirrored(q, k)
    BY <1>1, <1>2, <2>3, <2>5 DEF Mirrored
  <2> QED
    BY <1>1, <1>2, <2>1, <2>3, <2>4, <2>5 DEF MirrorSound
<1> QED
  BY <1>1, <1>3, MirrorStep

LEMMA DisappearedMirror ==
    ASSUME Inv, Inv', UseLock, QuietRunsMirror, NEW w \in Worker, Disappeared(w)
    PROVE  QuietRunsMirror'
<1> DEFINE r == run[w]
           q == run'[w]
<1>1. /\ Others(w) /\ UNCHANGED <<blobs, sources, remote, changes>> /\ Carries(w)
      /\ SameTraversal(w) /\ r.pc = "open" /\ q.pc = "scan" /\ ~ q.safe
  BY DisappearedFields DEF Quiet
<1>2. /\ q.provider = r.provider
      /\ q.dirs = r.dirs /\ q.page = r.page /\ q.seen = r.seen
  BY <1>1 DEF Carries, SameTraversal
<1>3. ASSUME r.since = changes PROVE MirrorSound(q)
  <2>1. MirrorSound(r)
    BY <1>1, <1>3 DEF QuietRunsMirror
  <2> QED
    BY <1>1, <1>2, <2>1 DEF MirrorSound
<1> QED
  BY <1>1, <1>3, MirrorStep

LEMMA ListMissingMirror ==
    ASSUME Inv, Inv', UseLock, QuietRunsMirror, NEW w \in Worker, ListMissing(w)
    PROVE  QuietRunsMirror'
<1> DEFINE r == run[w]
           q == run'[w]
<1>1. /\ Others(w) /\ UNCHANGED <<blobs, sources, remote, changes>> /\ Carries(w)
      /\ SameTraversal(w) /\ r.pc = "scan" /\ r.dirs = {} /\ r.page = {}
      /\ r.safe /\ r.full /\ q.safe = r.safe /\ q.pc = "deactivate"
      /\ q.missing = {k \in ActiveSources(r.provider) : k[2] \notin r.seen}
  BY ListMissingFields DEF Quiet, ScanDone
<1>2. /\ q.provider = r.provider /\ q.full = r.full
      /\ q.dirs = r.dirs /\ q.page = r.page /\ q.seen = r.seen
  BY <1>1 DEF Carries, SameTraversal
<1>3. ASSUME r.since = changes PROVE MirrorSound(q)
  <2>1. MirrorSound(r)
    BY <1>1, <1>3 DEF QuietRunsMirror
  <2>2. ASSUME NEW k \in Key, Mirrored(r, k)
        PROVE  Mirrored(q, k)
    BY <1>1, <1>2, <2>2 DEF Mirrored
  <2> QED
    BY <1>1, <1>2, <2>1, <2>2 DEF MirrorSound
<1> QED
  BY <1>1, <1>3, MirrorStep

LEMMA ExecuteMirror ==
    ASSUME Inv, Inv', UseLock, QuietRunsMirror, NEW w \in Worker, Execute(w)
    PROVE  QuietRunsMirror'
<1> DEFINE r == run[w]
<1>1. /\ Others(w) /\ UNCHANGED <<remote, changes>> /\ Carries(w)
      /\ SameTraversal(w) /\ r.pc = "execute" /\ run'[w].pc = "scan"
      /\ run'[w].safe = r.safe /\ Apply(r.fact, r.decision)
  BY ExecuteFields
<1>2. PICK q \in Run : q = run'[w]
  BY DEF Inv, TypeOK
<1>3. /\ q.provider = r.provider /\ q.full = r.full /\ q.since = r.since
      /\ q.dirs = r.dirs /\ q.page = r.page /\ q.seen = r.seen
      /\ q.pc = "scan" /\ q.safe = r.safe
  BY <1>1, <1>2 DEF Carries, SameTraversal
<1>4. ASSUME r.since = changes PROVE MirrorSound(q)'
  <2>1. MirrorSound(r)
    BY <1>1, <1>4 DEF QuietRunsMirror
  <2>2. /\ r.fact \in Fact /\ Current(r.fact) /\ r.fact.key[2] \in r.seen
        /\ r.decision.op = "keep" => Shows(r.fact.key)
    BY <1>1, <2>1 DEF MirrorSound, Inv, InFlightSound, RunSound
  <2>3. PICK f \in Fact, d \in Decision : f = r.fact /\ d = r.decision
    BY <2>2 DEF Inv, TypeOK, Run
  <2>4. /\ Current(f) /\ f.key[2] \in r.seen /\ Apply(f, d)
        /\ d.op = "keep" => Shows(f.key)
    BY <1>1, <2>2, <2>3
  <2>5. WorldAdvances /\ UNCHANGED remote
    BY <1>1, ExecuteInv
  <2>6. /\ Shows(f.key)'
        /\ \A k \in Key : Shows(k) /\ k # f.key => Shows(k)'
    BY <2>4, <2>5, CommitsShow
  <2>7. ASSUME NEW k \in Key, Mirrored(r, k)
        PROVE  Mirrored(q, k)'
    <3>1. FactOf(k)' = FactOf(k)
      BY <1>1 DEF FactOf
    <3> QED
      BY <1>1, <1>3, <2>3, <2>4, <2>6, <2>7, <3>1 DEF Mirrored
  <2>8. \A g : Current(g)' <=> Current(g)
    BY <1>1 DEF Current, FactOf
  <2> QED
    BY <1>1, <1>3, <2>1, <2>7, <2>8 DEF MirrorSound
<1>5. r.since =< changes
  BY <1>1 DEF QuietRunsMirror
<1> QED
  BY <1>1, <1>2, <1>3, <1>4, <1>5, MirrorOfOthers

LEMMA NextMirror ==
    ASSUME Inv, Inv', UseLock, QuietRunsMirror, [Next]_vars
    PROVE  QuietRunsMirror'
<1>1. CASE Change
  <2>1. /\ RemoteInPlace'
        /\ changes' = changes + 1 /\ changes \in Nat
        /\ \A w \in Worker : run'[w].pc = run[w].pc
                             /\ run'[w].since = run[w].since
    <3>1. PICK k \in Key :
            /\ RemoteInPlace'
            /\ changes' = changes + 1 /\ changes \in Nat
            /\ \A w \in Worker :
                 \/ run'[w] = run[w]
                 \/ /\ run'[w] = [run[w] EXCEPT !.gone = @ \cup {k}]
                    /\ run[w] \in Run
      BY <1>1, ChangeFields DEF QuietRunsMirror
    <3>2. \A w \in Worker : run'[w].pc = run[w].pc
                            /\ run'[w].since = run[w].since
      BY <3>1 DEF Run
    <3> QED
      BY <3>1, <3>2
  <2>2. \A w \in Worker : run[w].since \in Nat
    BY EngineAssumption DEF Inv, TypeOK, Run
  <2>3. \A w \in Worker : run'[w].pc # "idle" =>
          run'[w].since =< changes' /\ run'[w].since # changes'
    BY <2>1, <2>2 DEF QuietRunsMirror
  <2> QED
    BY <2>1, <2>3 DEF QuietRunsMirror
<1>2. ASSUME NEW w \in Worker, Ends(w) \/ Reconcile(w)
      PROVE  QuietRunsMirror'
  <2>1. /\ Others(w) /\ run'[w].pc = "idle" /\ UNCHANGED <<remote, changes>>
        /\ run[w].pc # "idle"
    BY <1>2, EndFields, ReconcileFields
       DEF Ends, MatcherRaises, OpenRaises, ExecuteConflict, EndIncomplete,
           EndIncremental, Abort, ScanDone
  <2> QED
    BY <2>1, MirrorOfOthers
<1>3. ASSUME NEW w \in Worker, EngineStep(w) \/ Abort(w)
      PROVE  QuietRunsMirror'
  BY <1>2, <1>3, VisitDirMirror, ResolveHintMirror, NextFactMirror,
     AskMatcherMirror, ReadBodyMirror, DisappearedMirror, ExecuteMirror,
     ListMissingMirror DEF EngineStep, Ends
<1>4. ASSUME NEW w \in Worker, NEW p \in Provider, StartFull(w, p)
      PROVE  QuietRunsMirror'
  <2>1. {} \in SUBSET ExtId /\ TRUE \in BOOLEAN
    OBVIOUS
  <2> QED
    BY <1>4, <2>1, StartMirror DEF StartFull
<1>5. ASSUME NEW w \in Worker, NEW p \in Provider,
             NEW h \in SUBSET ExtId \ {{}}, StartIncremental(w, p, h)
      PROVE  QuietRunsMirror'
  <2>1. h \in SUBSET ExtId /\ FALSE \in BOOLEAN
    OBVIOUS
  <2> QED
    BY <1>5, <2>1, StartMirror DEF StartIncremental
<1>6. CASE UNCHANGED vars
  BY <1>6 DEF vars, QuietRunsMirror, RemoteInPlace, MirrorSound, Current, FactOf,
              Mirrored, Shows, ContentOf, ActiveSources
<1> QED
  BY <1>1, <1>3, <1>4, <1>5, <1>6 DEF Next

\* The reconciliation of a run that nothing disturbed leaves what is there.
LEMMA ReconcileShows ==
    ASSUME Inv, QuietRunsMirror, NEW w \in Worker, Reconcile(w),
           run[w].since = changes, NEW k \in Key, k[1] = run[w].provider
    PROVE  Shows(k)'
<1> DEFINE r == run[w]
<1>1. /\ r.pc = "deactivate" /\ UNCHANGED <<blobs, remote>>
      /\ sources' = [l \in DOMAIN sources |->
           [sources[l] EXCEPT !.active = @ /\ l \notin r.missing]]
  BY ReconcileFields
<1>2. MirrorSound(r)
  BY <1>1 DEF QuietRunsMirror
<1>3. /\ r.full /\ r.safe /\ r.dirs = {} /\ r.page = {}
      /\ r.missing = {l \in ActiveSources(r.provider) : l[2] \notin r.seen}
  BY <1>1, <1>2 DEF MirrorSound
<1>4. /\ DOMAIN sources' = DOMAIN sources
      /\ k \in DOMAIN sources =>
           /\ sources'[k].path = sources[k].path
           /\ sources'[k].blob = sources[k].blob
           /\ sources'[k].active <=> sources[k].active /\ k \notin r.missing
  <2>1. \A l \in DOMAIN sources : sources[l] \in SourceRow
    BY DEF Inv, TypeOK, WorldTypeOK
  <2> QED
    BY <1>1, <2>1 DEF SourceRow
<1>5. CASE remote[k].present
  <2>1. Mirrored(r, k)
    BY <1>2, <1>3, <1>5 DEF MirrorSound
  <2>2. Shows(k) /\ k[2] \in r.seen
    BY <1>1, <1>3, <2>1 DEF Mirrored
  <2>3. k \notin r.missing
    BY <1>3, <2>2
  <2> QED
    BY <1>1, <1>4, <1>5, <2>2, <2>3 DEF Shows, ContentOf
<1>6. CASE ~ remote[k].present
  <2>1. k[2] \notin r.seen
    BY <1>2, <1>6 DEF MirrorSound
  <2>2. k \in DOMAIN sources /\ sources[k].active => k \in r.missing
    BY <1>3, <2>1 DEF ActiveSources
  <2> QED
    BY <1>1, <1>4, <1>6, <2>2 DEF Shows
<1> QED
  BY <1>5, <1>6

\* A run goes from its reconciliation to its end by reconciling or by aborting.
LEMMA DeactivateEnds ==
    ASSUME Inv, [Next]_vars, NEW w \in Worker, run[w].pc = "deactivate",
           run'[w].pc = "idle", faults' = faults
    PROVE  Reconcile(w)
<1>1. CASE Change
  <2>1. run[w] \in Run
    BY DEF Inv, TypeOK
  <2>2. \E k : run'[w] = run[w] \/ run'[w] = [run[w] EXCEPT !.gone = @ \cup {k}]
    BY <1>1 DEF Change, Upload, Rewrite, Move, Remove, Restore, ProviderStep
  <2> QED
    BY <2>1, <2>2 DEF Run
<1>2. ASSUME NEW v \in Worker, NEW r, Goto(v, r)
      PROVE  v = w
  BY <1>2, GotoSets DEF Others
<1>3. ASSUME NEW v \in Worker, NEW p \in Provider, NEW full, NEW h,
             Start(v, p, full, h)
      PROVE  FALSE
  BY <1>2, <1>3 DEF Start
<1>4. ASSUME NEW v \in Worker, EngineStep(v) \/ Abort(v)
      PROVE  Reconcile(w)
  <2>1. CASE Abort(v)
    BY <2>1 DEF Abort, Inv, TypeOK
  <2>2. CASE Reconcile(v)
    BY <1>2, <2>2 DEF Reconcile
  <2>3. CASE EngineStep(v) /\ ~ Reconcile(v)
    <3>1. v = w
      BY <1>2, <2>3 DEF EngineStep, VisitDir, ResolveHint, NextFact, AskMatcher,
           MatcherRaises, ReadBody, Disappeared, OpenRaises, Execute,
           ExecuteConflict, EndIncomplete, EndIncremental, ListMissing
    <3>2. run[v].pc # "deactivate"
      BY <2>3 DEF EngineStep, VisitDir, ResolveHint, NextFact, AskMatcher,
           MatcherRaises, ReadBody, Disappeared, OpenRaises, Execute,
           ExecuteConflict, EndIncomplete, EndIncremental, ListMissing, ScanDone
    <3> QED
      BY <3>1, <3>2
  <2> QED
    BY <1>4, <2>1, <2>2, <2>3
<1>5. CASE UNCHANGED vars
  BY <1>5 DEF vars
<1> QED
  BY <1>1, <1>3, <1>4, <1>5 DEF Next, StartFull, StartIncremental

\* A full run under the lock that completes while the Providers held still, of
\* Providers with any number of places, leaves every object of its Provider shown
\* as it is, whatever earlier runs and faults left behind.
THEOREM LockedRunsMirror ==
    ASSUME UseLock
    PROVE  Spec => StableTraversalMirrors
<1>1. Inv /\ Inv' /\ QuietRunsMirror /\ [Next]_vars => QuietRunsMirror'
  BY NextMirror
<1>2. Inv /\ QuietRunsMirror /\ [Next]_vars =>
        [\A w \in Worker :
           run[w].pc = "deactivate" /\ run'[w].pc = "idle" /\ faults' = faults
             /\ run[w].since = changes
           => \A k \in Key : k[1] = run[w].provider => Shows(k)']_vars
  BY DeactivateEnds, ReconcileShows
<1> QED
  BY <1>1, <1>2, MirrorInit, InvHolds, PTL DEF Spec, StableTraversalMirrors
=============================================================================
