----------------------------- MODULE SyncEngine -----------------------------
(***************************************************************************)
(* Synchronisation runs.  A run walks a Provider that keeps changing under *)
(* it, asks the Matcher what every fact means, reads the body of an object *)
(* when the Matcher needs evidence, commits each decision as a transaction *)
(* of its own and, when the run is a full authoritative one, deactivates   *)
(* the Sources it did not see.                                             *)
(*                                                                         *)
(* Formal runs hold the flock of pdi.operational, so at most one is under  *)
(* way (UseLock); the plain command line of pdi.main takes no lock.        *)
(***************************************************************************)
EXTENDS Matcher

CONSTANTS
    Worker,      \* the processes that may run a synchronisation
    UseLock,     \* TRUE when every run goes through pdi.operational
    PathsOf,     \* the places where each Provider lists objects
    PathAddressed,  \* the Providers whose bodies are read by path (Nextcloud)
    MayHold,     \* the contents each object may have
    Legacy,      \* the files, in order, whose rows predate recorded sizes
    MaxChanges,  \* bound: Provider-side changes in a behaviour
    MaxFaults    \* bound: aborted runs in a behaviour

ASSUME EngineAssumption ==
    /\ UseLock \in BOOLEAN
    /\ PathsOf \in [Provider -> SUBSET Path]
    /\ PathAddressed \subseteq Provider
    /\ MayHold \in [Key -> SUBSET Content]
    /\ Legacy \in Seq(Key)
    /\ \A i, j \in DOMAIN Legacy : Legacy[i] = Legacy[j] => i = j
    /\ \A i \in DOMAIN Legacy : Kind(Legacy[i]) = "file"
    /\ MaxChanges \in Nat
    /\ MaxFaults \in Nat

VARIABLES
    remote,   \* what each Provider holds: one object per key, present or not
    run,      \* the state of each worker's run
    changes,  \* Provider-side changes so far
    faults    \* aborted runs so far

vars == <<assets, blobs, sources, remote, run, changes, faults>>

Object == [present : BOOLEAN, path : Path, ver : Nat, content : Content]

Run == [pc : {"idle", "scan", "match", "open", "execute", "deactivate"},
        provider : Provider, full : BOOLEAN,
        dirs : SUBSET Path,       \* places still to list
        hints : SUBSET ExtId,     \* candidates still to resolve
        page : SUBSET Fact,       \* facts listed and not yet processed
        seen : SUBSET ExtId,      \* seen_external_ids
        safe : BOOLEAN,           \* reconciliation_safe
        fact : Fact \cup {Null},
        decision : Decision,
        missing : SUBSET Key,     \* the Sources about to be deactivated
        gone : SUBSET Key,        \* history: absent at some instant of the run
        since : 0..MaxChanges]    \* history: changes when the run started

IdleRun == [pc |-> "idle", provider |-> CHOOSE p \in Provider : TRUE,
            full |-> FALSE, dirs |-> {}, hints |-> {}, page |-> {},
            seen |-> {}, safe |-> TRUE, fact |-> Null,
            decision |-> Keep, missing |-> {}, gone |-> {}, since |-> 0]

TypeOK ==
    /\ WorldTypeOK
    /\ remote \in [Key -> Object]
    /\ run \in [Worker -> Run]
    /\ changes \in 0..MaxChanges
    /\ faults \in 0..MaxFaults

\* A Provider reports a version and a size for files; Gmail reports neither.
FactOf(k) ==
    [key |-> k, path |-> remote[k].path,
     ver |-> IF Kind(k) = "message" THEN Null ELSE remote[k].ver,
     size |-> IF Kind(k) = "message" THEN Null ELSE SizeOf[remote[k].content],
     evid |-> Null]

\* The digest of a body is recorded in the fact, and is a message's version.
WithEvidence(f, c) ==
    [f EXCEPT !.evid = c, !.ver = IF Kind(f.key) = "message" THEN c ELSE @]

Absent(p) == {k \in Key : k[1] = p /\ ~ remote[k].present}

\* Rows written before Blob.size and Source.provider_size were recorded.
LegacyKeys == {Legacy[i] : i \in DOMAIN Legacy}
LegacyRow(k) == CHOOSE i \in DOMAIN Legacy : Legacy[i] = k

Init ==
    /\ remote \in [Key -> [present : BOOLEAN, path : Path, ver : {0},
                           content : Content]]
    /\ \A k \in Key :
         /\ remote[k].path \in PathsOf[k[1]]
         /\ remote[k].content \in MayHold[k]
         /\ remote[k].present <=> k \in LegacyKeys
         /\ ~ remote[k].present =>     \* nothing depends on these two
              /\ remote[k].path = CHOOSE d \in PathsOf[k[1]] : TRUE
              /\ remote[k].content = CHOOSE c \in MayHold[k] : TRUE
    /\ \A k, l \in LegacyKeys :
         k # l => remote[k].content # remote[l].content
    /\ assets = [i \in 1..Len(Legacy) |-> "file"]
    /\ blobs = [i \in 1..Len(Legacy) |->
                  [asset |-> i, content |-> remote[Legacy[i]].content,
                   size |-> Null]]
    /\ sources = [k \in LegacyKeys |->
                    [blob |-> LegacyRow(k), path |-> remote[k].path,
                     ver |-> 0, size |-> Null, active |-> TRUE]]
    /\ run = [w \in Worker |-> IdleRun]
    /\ changes = 0
    /\ faults = 0

-----------------------------------------------------------------------------
(* The Provider, which nothing in PDI can hold still.                      *)

ProviderStep(k, object) ==
    /\ changes < MaxChanges
    /\ changes' = changes + 1
    /\ remote' = [remote EXCEPT ![k] = object]
    /\ run' = [w \in Worker |->
                  IF object.present \/ run[w].pc = "idle" THEN run[w]
                  ELSE [run[w] EXCEPT !.gone = @ \cup {k}]]
    /\ UNCHANGED <<assets, blobs, sources, faults>>

\* A path names at most one object where bodies are addressed by path.
Free(k, d) ==
    k[1] \in PathAddressed =>
        \A l \in Key : l[1] = k[1] /\ remote[l].present => remote[l].path # d

\* A new object, or new bytes under the id of one that was removed; the bytes
\* of a message never change.
Upload(k, d, c) ==
    /\ ~ remote[k].present /\ Free(k, d)
    /\ Kind(k) = "file" \/ remote[k].ver = 0
    /\ ProviderStep(k, [present |-> TRUE, path |-> d, ver |-> remote[k].ver + 1,
                        content |-> c])

\* A new version of a file, with new bytes or the same ones.
Rewrite(k, c) ==
    /\ remote[k].present /\ Kind(k) = "file"
    /\ ProviderStep(k, [remote[k] EXCEPT !.ver = @ + 1, !.content = c])

\* A rename or a move keeps the object's id and its version.
Move(k, d) ==
    /\ remote[k].present /\ d # remote[k].path /\ Free(k, d)
    /\ ProviderStep(k, [remote[k] EXCEPT !.path = d])

Remove(k) ==
    /\ remote[k].present
    /\ ProviderStep(k, [remote[k] EXCEPT !.present = FALSE])

\* An object comes back as it was, as from a recycle bin.
Restore(k) ==
    /\ ~ remote[k].present /\ Free(k, remote[k].path)
    /\ remote[k].ver > 0 \/ k \in LegacyKeys
    /\ ProviderStep(k, [remote[k] EXCEPT !.present = TRUE])

Change ==
    \E k \in Key :
      \/ \E d \in PathsOf[k[1]], c \in MayHold[k] : Upload(k, d, c)
      \/ \E c \in MayHold[k] : Rewrite(k, c)
      \/ \E d \in PathsOf[k[1]] : Move(k, d)
      \/ Remove(k)
      \/ Restore(k)

-----------------------------------------------------------------------------
(* The engine.                                                             *)

Goto(w, r) == run' = [run EXCEPT ![w] = r]
Quiet == UNCHANGED <<assets, blobs, sources, remote, changes, faults>>

Start(w, p, full, hints) ==
    /\ run[w].pc = "idle"
    /\ UseLock => \A v \in Worker : run[v].pc = "idle"
    /\ Goto(w, [IdleRun EXCEPT !.pc = "scan", !.provider = p, !.full = full,
                               !.dirs = IF full THEN PathsOf[p] ELSE {},
                               !.hints = hints, !.gone = Absent(p),
                               !.since = changes])
    /\ Quiet

\* sync_once: scan() visits every place where the Provider lists objects.
StartFull(w, p) == Start(w, p, TRUE, {})

\* sync_incremental: discovery names candidates, whatever mechanism chose them.
StartIncremental(w, p, hints) == Start(w, p, FALSE, hints)

\* One PROPFIND, or one page of search results: a snapshot of one place.
VisitDir(w, d) ==
    LET r == run[w] IN
    /\ r.pc = "scan" /\ r.page = {} /\ d \in r.dirs
    /\ Goto(w, [r EXCEPT !.dirs = @ \ {d},
                         !.page = {FactOf(k) : k \in
                           {l \in Key : l[1] = r.provider /\ remote[l].present
                                        /\ remote[l].path = d}}])
    /\ Quiet

\* Revalidate one candidate; a candidate that is no longer there is skipped.
ResolveHint(w, e) ==
    LET r == run[w]
        k == <<r.provider, e>>
    IN  /\ r.pc = "scan" /\ r.page = {} /\ e \in r.hints
        /\ Goto(w, [r EXCEPT !.hints = @ \ {e},
                             !.page = IF remote[k].present THEN {FactOf(k)}
                                      ELSE {}])
        /\ Quiet

NextFact(w, f) ==
    LET r == run[w] IN
    /\ r.pc = "scan" /\ f \in r.page
    /\ Goto(w, [r EXCEPT !.pc = "match", !.page = @ \ {f}, !.fact = f,
                         !.seen = @ \cup {f.key[2]}])
    /\ Quiet

\* The engine asks the Matcher and keeps its decision, read off the rows as
\* they are now.  A requirement left after the body was read ends the run, and
\* so does an exception of the Matcher.
AskMatcher(w) ==
    LET r == run[w]
        d == Match(r.fact)
    IN  /\ r.pc = "match"
        /\ d.op # "fail" /\ (d.op = "evidence" => r.fact.evid = Null)
        /\ Goto(w, [r EXCEPT !.pc = IF d.op = "evidence" THEN "open"
                                    ELSE "execute",
                             !.decision = d])
        /\ Quiet

MatcherRaises(w) ==
    LET r == run[w]
        d == Match(r.fact)
    IN  /\ r.pc = "match"
        /\ d.op = "fail" \/ (d.op = "evidence" /\ r.fact.evid # Null)
        /\ Goto(w, IdleRun)
        /\ Quiet

\* The objects whose body adapter.open(f) would stream now: Nextcloud requests
\* the path at which f was listed, Immich and Gmail request f's own id.
Served(f) ==
    {k \in Key : /\ k[1] = f.key[1] /\ remote[k].present
                 /\ IF k[1] \in PathAddressed THEN remote[k].path = f.path
                    ELSE k = f.key}

ReadBody(w) ==
    LET r == run[w] IN
    /\ r.pc = "open"
    /\ \E k \in Served(r.fact) :
         Goto(w, [r EXCEPT !.pc = "match",
                           !.fact = WithEvidence(@, remote[k].content)])
    /\ Quiet

\* Nextcloud's adapter turns a missing body into a disappearance: the fact is
\* skipped and the run may no longer reconcile.
Disappeared(w) ==
    LET r == run[w] IN
    /\ r.pc = "open" /\ Served(r.fact) = {} /\ r.provider \in PathAddressed
    /\ Goto(w, [r EXCEPT !.pc = "scan", !.safe = FALSE, !.fact = Null,
                         !.decision = Keep])
    /\ Quiet

\* The other adapters raise, which ends the run.
OpenRaises(w) ==
    LET r == run[w] IN
    /\ r.pc = "open" /\ Served(r.fact) = {} /\ r.provider \notin PathAddressed
    /\ Goto(w, IdleRun)
    /\ Quiet

Execute(w) ==
    LET r == run[w] IN
    /\ r.pc = "execute" /\ ~ Conflicts(r.fact, r.decision)
    /\ Apply(r.fact, r.decision)
    /\ Goto(w, [r EXCEPT !.pc = "scan", !.fact = Null, !.decision = Keep])
    /\ UNCHANGED <<remote, changes, faults>>

\* A unique index refuses the transaction: it rolls back and the run ends.
ExecuteConflict(w) ==
    /\ run[w].pc = "execute" /\ Conflicts(run[w].fact, run[w].decision)
    /\ Goto(w, IdleRun)
    /\ Quiet

ScanDone(w) ==
    run[w].pc = "scan" /\ run[w].dirs = {} /\ run[w].hints = {}
                       /\ run[w].page = {}

\* IncompleteProviderSyncError
EndIncomplete(w) ==
    /\ ScanDone(w) /\ ~ run[w].safe
    /\ Goto(w, IdleRun)
    /\ Quiet

\* No mechanism of the code passes qualified tombstones, so a run that is not
\* full has nothing left to do.
EndIncremental(w) ==
    /\ ScanDone(w) /\ run[w].safe /\ ~ run[w].full
    /\ Goto(w, IdleRun)
    /\ Quiet

\* Mutants: a guard against empty listings; absence believed of any run.
ListMissingUnlessEmpty(w) ==
    LET r == run[w] IN
    /\ ScanDone(w) /\ r.safe /\ r.full
    /\ Goto(w, [r EXCEPT !.pc = "deactivate",
                         !.missing = {k \in ActiveSources(r.provider) :
                                        r.seen # {} /\ k[2] \notin r.seen}])
    /\ Quiet

ListMissingOfAnyRun(w) ==
    LET r == run[w] IN
    /\ ScanDone(w) /\ r.safe
    /\ Goto(w, [r EXCEPT !.pc = "deactivate",
                         !.missing = {k \in ActiveSources(r.provider) :
                                        k[2] \notin r.seen}])
    /\ Quiet

ListMissing(w) ==
    LET r == run[w] IN
    /\ ScanDone(w) /\ r.safe /\ r.full
    /\ Goto(w, [r EXCEPT !.pc = "deactivate",
                         !.missing = {k \in ActiveSources(r.provider) :
                                        k[2] \notin r.seen}])
    /\ Quiet

Reconcile(w) ==
    /\ run[w].pc = "deactivate"
    /\ Deactivate(run[w].missing)
    /\ Goto(w, IdleRun)
    /\ UNCHANGED <<remote, changes, faults>>

\* Any other exception, or the death of the process, between two transactions.
Abort(w) ==
    /\ run[w].pc # "idle"
    /\ faults < MaxFaults
    /\ faults' = faults + 1
    /\ Goto(w, IdleRun)
    /\ UNCHANGED <<assets, blobs, sources, remote, changes>>

EngineStep(w) ==
    \/ \E d \in Path : VisitDir(w, d)
    \/ \E e \in ExtId : ResolveHint(w, e)
    \/ \E f \in run[w].page : NextFact(w, f)
    \/ AskMatcher(w)
    \/ MatcherRaises(w)
    \/ ReadBody(w)
    \/ Disappeared(w)
    \/ OpenRaises(w)
    \/ Execute(w)
    \/ ExecuteConflict(w)
    \/ EndIncomplete(w)
    \/ EndIncremental(w)
    \/ ListMissing(w)
    \/ Reconcile(w)

Next ==
    \/ Change
    \/ \E w \in Worker :
         \/ \E p \in Provider : StartFull(w, p)
         \/ \E p \in Provider, h \in SUBSET ExtId \ {{}} :
              StartIncremental(w, p, h)
         \/ EngineStep(w)
         \/ Abort(w)

Spec == Init /\ [][Next]_vars

\* The timers keep starting full runs of every Provider, a process that runs
\* goes on running, and nothing forces the Provider to change or a run to abort.
Fairness ==
    /\ \A w \in Worker : WF_vars(EngineStep(w))
    /\ \A p \in Provider : SF_vars(\E w \in Worker : StartFull(w, p))

FairSpec == Spec /\ Fairness
=============================================================================
