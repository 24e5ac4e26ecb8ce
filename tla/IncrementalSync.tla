--------------------------- MODULE IncrementalSync ---------------------------
(***************************************************************************)
(* Incremental synchronisation: what makes it safe not to look at          *)
(* everything.  A Provider has one row of sync state, a checkpoint under a *)
(* version that is compared and swapped, and a latch that stops            *)
(* incremental runs until a full traversal has made the checkpoint         *)
(* trustworthy again.  Providers share no row and no object, so a          *)
(* behaviour is about one of them, Nextcloud or Immich.                    *)
(*                                                                         *)
(* A Nextcloud run follows the Activity feed, whose oldest entries the     *)
(* server forgets; an Immich run asks for everything updated in a window   *)
(* of time that overlaps the previous one.  SyncEngine.tla models what     *)
(* becomes of each fact; here a fact is the revision of its object, and a  *)
(* change is anything that gives an object a new revision.  A removal is   *)
(* not one: no mechanism records it, and full traversals find it.          *)
(***************************************************************************)
EXTENDS Integers, Sequences, FiniteSets

CONSTANTS
    Obj,         \* the objects of the Provider
    Worker,
    Null,
    PageLimit,   \* entries in one page of the feed
    Overlap,     \* how far a window reaches behind the last checkpoint
    MaxLag,      \* an update is stamped at most this long before it is visible
    MaxAhead,    \* PDI's clock runs at most this much ahead of the server's
    MaxBehind,   \* ... or behind it
    MaxChanges,  \* bound: changes at the Providers
    MaxTime,     \* bound: the server's clock
    MaxVersion   \* bound: writes of the sync state row

ASSUME IncrementalAssumption ==
    /\ Null \notin Int
    /\ PageLimit \in Nat \ {0}
    /\ Overlap \in Nat /\ MaxLag \in Nat /\ MaxAhead \in Nat /\ MaxBehind \in Nat
    /\ MaxChanges \in Nat /\ MaxTime \in Nat /\ MaxVersion \in Nat
    /\ MaxLag + MaxAhead =< Overlap   \* what five minutes must be enough for

Provider == {"nextcloud", "immich"}

VARIABLES
    provider,  \* the Provider this behaviour is about
    locked,  \* whether every run holds the formal lock
    rev,     \* the revision of every object at its Provider
    log,     \* the Activity feed: the objects each entry names
    head,    \* how many of its oldest entries the server has forgotten
    changes, \* changes so far
    stamp,   \* updatedAt of every object
    now,     \* the server's clock
    state,   \* the Provider's sync state row
    known,   \* the revision the World Model has of every object
    best,    \* history: the latest revision it ever had
    job      \* the run of every worker

setting == <<provider, locked>>
vars == <<setting, rev, log, head, changes, stamp, now, state, known, best, job>>

Row == [checkpoint : Int \cup {Null}, version : Nat, reconcile : BOOLEAN]

Job == [pc : {"idle", "fetch", "gap", "discover", "anchor", "scan", "write",
              "commit"},
        op : {"full", "incremental", "bootstrap", "recover"},
        base : Nat,                    \* the version the final CAS expects
        next : Int \cup {Null},        \* next_checkpoint, or the anchor
        window : (Int \X Int) \cup {Null},
        todo : SUBSET Obj,             \* objects still to visit
        listed : SUBSET Obj,           \* objects whose fact was read
        fact : (Obj \X Nat) \cup {Null},
        fresh : BOOLEAN]               \* history: started under today's latch

IdleJob == [pc |-> "idle", op |-> "full", base |-> 0,
            next |-> Null, window |-> Null, todo |-> {}, listed |-> {},
            fact |-> Null, fresh |-> FALSE]

TypeOK ==
    /\ rev \in [Obj -> Nat] /\ known \in [Obj -> Nat] /\ best \in [Obj -> Nat]
    /\ log \in Seq(SUBSET Obj) /\ head \in 0..Len(log)
    /\ changes \in 0..MaxChanges
    /\ stamp \in [Obj -> Int] /\ now \in 0..MaxTime
    /\ state \in Row
    /\ provider \in Provider /\ locked \in BOOLEAN
    /\ job \in [Worker -> Job]

Init ==
    /\ rev = [o \in Obj |-> 0] /\ known = rev /\ best = rev
    /\ log = <<>> /\ head = 0 /\ changes = 0
    /\ stamp = [o \in Obj |-> -1] /\ now = 0
    /\ state = [checkpoint |-> Null, version |-> 0, reconcile |-> FALSE]
    /\ provider \in Provider /\ locked \in BOOLEAN
    /\ job = [w \in Worker |-> IdleJob]

-----------------------------------------------------------------------------
(* The Providers.                                                          *)

\* Something happens to the objects of O, a folder's for instance, and the feed
\* gets one entry for it; an entry that is about no file names none.
FeedChange(O) ==
    /\ provider = "nextcloud"
    /\ changes < MaxChanges /\ changes' = changes + 1
    /\ rev' = [o \in Obj |-> IF o \in O THEN rev[o] + 1 ELSE rev[o]]
    /\ log' = Append(log, O)
    /\ UNCHANGED <<head, stamp, now, state, known, best, setting, job>>

Forget ==
    /\ head < Len(log)
    /\ head' = head + 1
    /\ UNCHANGED <<rev, log, changes, stamp, now, state, known, best, setting, job>>

\* An update becomes visible, stamped with a moment up to MaxLag ago.
TimedChange(o, t) ==
    /\ provider = "immich"
    /\ changes < MaxChanges /\ changes' = changes + 1
    /\ t \in (now - MaxLag)..now /\ t >= stamp[o]
    /\ rev' = [rev EXCEPT ![o] = @ + 1]
    /\ stamp' = [stamp EXCEPT ![o] = t]
    /\ UNCHANGED <<log, head, now, state, known, best, setting, job>>

Tick ==
    /\ provider = "immich" /\ now < MaxTime
    /\ now' = now + 1
    /\ UNCHANGED <<rev, log, head, changes, stamp, state, known, best, setting, job>>

-----------------------------------------------------------------------------
(* The sync state row.                                                     *)

\* Mutant: the version is not compared.
CanSwapAnyVersion(version, latched) == state.reconcile = latched

\* PostgreSQLProviderSyncStateRepository._cas finds the row it expects.
CanSwap(version, latched) ==
    state.version = version /\ state.reconcile = latched

Swap(checkpoint, latched) ==
    state' = [checkpoint |-> checkpoint, version |-> state.version + 1,
              reconcile |-> latched]

\* What an operation requires of the row before it does anything.
Allowed(op, row) ==
    CASE op = "full" -> TRUE
      [] op = "incremental" -> ~ row.reconcile /\ row.checkpoint # Null
      [] op = "bootstrap" -> ~ row.reconcile /\ row.checkpoint = Null
      [] op = "recover" -> row.reconcile

-----------------------------------------------------------------------------
(* The runs.                                                               *)

Become(w, j) == job' = [job EXCEPT ![w] = j]
World == <<rev, log, head, changes, stamp, now>>
Quiet == UNCHANGED <<World, state, known, best, setting>>

\* PDI reads its own clock.
Reading(t) == t \in (now - MaxBehind)..(now + MaxAhead)

Start(w, op) ==
    /\ job[w].pc = "idle"
    /\ locked => \A v \in Worker : job[v].pc = "idle"
    /\ Allowed(op, state) /\ (op = "full" \/ state.version < MaxVersion)
    /\ Become(w, [IdleJob EXCEPT
                    !.op = op, !.base = state.version, !.fresh = state.reconcile,
                    !.next = IF op = "incremental" THEN state.checkpoint
                             ELSE Null,
                    !.pc = CASE op = "full" -> "scan"
                             [] op \in {"bootstrap", "recover"} -> "anchor"
                             [] op = "incremental" /\ provider = "nextcloud" -> "fetch"
                             [] op = "incremental" /\ provider = "immich" -> "discover",
                    !.todo = IF op = "full" THEN Obj ELSE {}])
    /\ Quiet

Retained == (head + 1)..Len(log)
PageOf(since) == {i \in Retained : since < i /\ i =< since + PageLimit}

\* The server flags a cursor it does not know (X-Activity-First-Known), and an
\* anchor of 0 proves nothing about the entries that follow it.
GapAfter(since) ==
    Retained # {} /\ (since = 0 \/ since \notin Retained)

FetchNothing(w) ==
    /\ job[w].pc = "fetch"
    /\ ~ GapAfter(job[w].next) /\ PageOf(job[w].next) = {}
    /\ Become(w, IdleJob)
    /\ Quiet

FetchPage(w) ==
    LET j == job[w]
        page == PageOf(j.next)
    IN  /\ j.pc = "fetch" /\ ~ GapAfter(j.next) /\ page # {}
        /\ Become(w, [j EXCEPT !.pc = "discover",
                               !.next = CHOOSE i \in page : \A k \in page : k =< i,
                               !.todo = UNION {log[i] : i \in page}])
        /\ Quiet

FetchGap(w) ==
    /\ job[w].pc = "fetch" /\ GapAfter(job[w].next)
    /\ Become(w, [job[w] EXCEPT !.pc = "gap"])
    /\ Quiet

\* mark_reconciliation_required keeps the checkpoint; the run fails either way.
MarkGap(w) ==
    /\ job[w].pc = "gap" /\ state.version = job[w].base
    /\ Swap(state.checkpoint, TRUE)
    /\ job' = [v \in Worker |-> IF v = w THEN IdleJob
                                ELSE [job[v] EXCEPT !.fresh = FALSE]]
    /\ UNCHANGED <<World, known, best, setting>>

MarkGapConflict(w) ==
    /\ job[w].pc = "gap" /\ state.version # job[w].base
    /\ Become(w, IdleJob)
    /\ Quiet

\* sync_incremental reads the row again and expects that version at the end,
\* whichever row the page was fetched for.
DiscoverPage(w) ==
    LET j == job[w] IN
    /\ j.pc = "discover" /\ provider = "nextcloud"
    /\ Become(w, IF state.reconcile THEN IdleJob
                 ELSE [j EXCEPT !.pc = "scan", !.base = state.version])
    /\ Quiet

\* Mutant: the windows do not overlap.
WindowStartAtCheckpoint(previous) == previous

WindowStart(previous) == previous - Overlap

\* Mutant: the clock alone decides where the window ends.
WindowEndOfClock(previous, t) == t

WindowEnd(previous, t) == IF t > previous THEN t ELSE previous

Within(o, window) == window[1] =< stamp[o] /\ stamp[o] =< window[2]

DiscoverWindow(w, t) ==
    LET j == job[w]
        end == WindowEnd(state.checkpoint, t)
        window == <<WindowStart(state.checkpoint), end>>
    IN  /\ j.pc = "discover" /\ provider = "immich" /\ Reading(t)
        /\ Become(w, IF state.reconcile THEN IdleJob
                     ELSE [j EXCEPT !.pc = "scan", !.base = state.version,
                                    !.next = end, !.window = window,
                                    !.todo = {o \in Obj : Within(o, window)}])
        /\ Quiet

\* The point from which incremental runs will follow is fixed before the
\* traversal that makes it trustworthy.
Anchor(w, a) ==
    LET j == job[w] IN
    /\ j.pc = "anchor"
    /\ IF provider = "nextcloud"
       THEN a = IF Retained = {} THEN 0 ELSE Len(log)
       ELSE Reading(a)
    /\ Become(w, [j EXCEPT !.pc = "scan", !.next = a, !.todo = Obj])
    /\ Quiet

\* One object is looked up and its fact handed to the engine.  A timed object
\* that left the window meanwhile is not found there any more.
ReadFact(w, o) ==
    LET j == job[w] IN
    /\ j.pc = "scan" /\ o \in j.todo
    /\ IF j.window = Null \/ Within(o, j.window)
       THEN Become(w, [j EXCEPT !.pc = "write", !.todo = @ \ {o},
                                !.listed = @ \cup {o}, !.fact = <<o, rev[o]>>])
       ELSE Become(w, [j EXCEPT !.todo = @ \ {o}])
    /\ Quiet

WriteFact(w) ==
    LET j == job[w]
        o == j.fact[1]
        r == j.fact[2]
    IN  /\ j.pc = "write"
        /\ known' = [known EXCEPT ![o] = r]
        /\ best' = [best EXCEPT ![o] = IF r > @ THEN r ELSE @]
        /\ Become(w, [j EXCEPT !.pc = "scan", !.fact = Null])
        /\ UNCHANGED <<World, state, setting>>

\* Immich searches are repeated, and fail unless both passes list the same.
ScanDone(w) ==
    LET j == job[w] IN
    /\ j.pc = "scan" /\ j.todo = {}
    /\ j.window # Null => j.listed = {o \in Obj : Within(o, j.window)}
    /\ Become(w, IF j.op = "full" THEN IdleJob ELSE [j EXCEPT !.pc = "commit"])
    /\ Quiet

\* The last step of a run that moves the checkpoint, and its conflict.
CommitCheckpoint(w) ==
    LET j == job[w] IN
    /\ j.pc = "commit" /\ CanSwap(j.base, j.op = "recover")
    /\ Swap(j.next, FALSE)
    /\ Become(w, IdleJob)
    /\ UNCHANGED <<World, known, best, setting>>

CommitConflict(w) ==
    /\ job[w].pc = "commit" /\ ~ CanSwap(job[w].base, job[w].op = "recover")
    /\ Become(w, IdleJob)
    /\ Quiet

\* Any exception, drift between two passes, or the death of the process.
Fail(w) ==
    /\ job[w].pc # "idle"
    /\ Become(w, IdleJob)
    /\ Quiet

Next ==
    \/ \E O \in SUBSET Obj : FeedChange(O)
    \/ Forget
    \/ \E o \in Obj, t \in -MaxLag..MaxTime : TimedChange(o, t)
    \/ Tick
    \/ \E w \in Worker :
         \/ \E op \in {"full", "incremental", "bootstrap", "recover"} :
              Start(w, op)
         \/ FetchNothing(w)
         \/ FetchPage(w)
         \/ FetchGap(w)
         \/ MarkGap(w)
         \/ MarkGapConflict(w)
         \/ DiscoverPage(w)
         \/ \E t \in -MaxBehind..(MaxTime + MaxAhead) : DiscoverWindow(w, t)
         \/ \E a \in -MaxBehind..(MaxTime + MaxAhead + MaxChanges) : Anchor(w, a)
         \/ \E o \in job[w].todo : ReadFact(w, o)
         \/ WriteFact(w)
         \/ ScanDone(w)
         \/ CommitCheckpoint(w)
         \/ CommitConflict(w)
         \/ Fail(w)

Spec == Init /\ [][Next]_vars

-----------------------------------------------------------------------------
\* A later run that follows the checkpoint finds what happened to o, or finds
\* that the server forgot it: the feed has a later entry about o, or the window
\* reaches back to its update.
Ahead(o, checkpoint) ==
    IF provider = "nextcloud"
    THEN \E i \in DOMAIN log :
           /\ i > checkpoint /\ o \in log[i]
           /\ i \in Retained \/ Retained = {} \/ GapAfter(checkpoint)
    ELSE stamp[o] >= checkpoint - Overlap

Trusted == state.checkpoint # Null /\ ~ state.reconcile

\* A checkpoint that may be followed covers every change the World Model has
\* not seen: whatever is interrupted, purged, stamped late or read off a fast
\* clock, a change is recorded or is still ahead.  A run that holds no lock may
\* overwrite a newer revision with one it read before, hence best; under the
\* lock the World Model itself has it (the CAS-last rule of sync_incremental,
\* the anchor of bootstrap and recover, and the overlap).
NoUpdateLost ==
    Trusted => \A o \in Obj :
                 \/ Ahead(o, state.checkpoint)
                 \/ best[o] = rev[o] /\ (locked => known[o] = rev[o])

\* The state is as the rows and the clock can be, and no change of a Resource
\* falls behind a checkpoint that is trusted.
NothingLost == TypeOK /\ NoUpdateLost

\* A checkpoint is replaced by an older one only where runs hold no lock, and
\* then only a feed's, whose entries are read again: a clock that steps back
\* never moves a window back (ImmichIncrementalSync.run_incremental).
CheckpointNeverRegresses ==
    [][(provider = "immich" \/ locked) /\ Trusted
         => state'.checkpoint >= state.checkpoint]_vars

\* The latch is released only by a recovery that started after it was set, so
\* that its traversal began later than the gap was noticed, however long other
\* recoveries of the same latch or of an earlier one have been under way
\* (recover_after_reconciliation's compare-and-swap).
LatchOutlivesItsGap ==
    [][state.reconcile /\ ~ state'.reconcile =>
         \E w \in Worker : /\ job[w].pc = "commit" /\ job[w].op = "recover"
                           /\ job[w].fresh]_vars
=============================================================================
