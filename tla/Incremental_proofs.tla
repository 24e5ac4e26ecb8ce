------------------------- MODULE Incremental_proofs -------------------------
(***************************************************************************)
(* Proofs that incremental runs lose no update, never move a checkpoint    *)
(* back and release the latch only after a recovery that followed the gap; *)
(* and that a search that completes missed nothing.                        *)
(***************************************************************************)
EXTENDS IncrementalSync, ImmichSearch, SequenceLemmas, FiniteSetTheorems, SequenceTheorems

-----------------------------------------------------------------------------
(* The inductive invariant of the incremental runs.                        *)

\* The World Model has what the Provider has of o.
Recorded(o) == best[o] = rev[o] /\ (locked => known[o] = rev[o])

\* A checkpoint never lies behind what happens next.
Horizon == IF provider = "nextcloud" THEN Len(log) ELSE now + MaxAhead

\* A run that has fixed the checkpoint it will commit.
Follows(j) == j.op # "full" /\ j.pc \notin {"idle", "gap", "anchor"}

\* What the run will have done for o when it commits its checkpoint.
Covers(j, o) ==
    \/ Ahead(o, j.next) \/ Recorded(o)
    \/ o \in j.todo
    \/ j.pc = "write" /\ j.fact = <<o, rev[o]>>

Shape(j) ==
    /\ j \in Job
    /\ j.pc \in {"fetch", "gap", "discover"} => j.op = "incremental" /\ j.window = Null
    /\ j.pc = "fetch" => provider = "nextcloud" /\ j.todo = {}
    /\ j.pc = "anchor" => j.op \in {"bootstrap", "recover"}
    /\ j.pc = "commit" => j.todo = {} /\ j.op # "full"
    /\ j.op = "incremental" /\ j.pc # "idle" => state.checkpoint # Null
    /\ j.window # Null =>
         /\ provider = "immich" /\ j.op = "incremental" /\ j.window[2] = j.next
         /\ \A o \in j.todo : stamp[o] >= j.window[1]

\* Nothing falls between the checkpoint a run will commit and what it reads.
Coverage(j) ==
    Follows(j) => /\ j.next \in Int /\ j.next <= Horizon
                  /\ \A o \in Obj : Covers(j, o)

\* A fact that has been overtaken will be read again.
FactIsKept(j) ==
    j.pc = "write" =>
        /\ j.fact \in Obj \X Nat /\ j.fact[2] <= rev[j.fact[1]]
        /\ locked /\ j.fact[2] # rev[j.fact[1]] =>
             /\ Trusted => Ahead(j.fact[1], state.checkpoint)
             /\ j.op # "full" => Ahead(j.fact[1], j.next)

\* What a run knows of the row while its version has not moved.
RowIsKnown(j) ==
    /\ j.base <= state.version
    /\ j.pc # "idle" /\ j.base = state.version =>
         /\ j.op = "bootstrap" => state.checkpoint = Null
         /\ j.op = "recover" => j.fresh
    /\ /\ j.op = "incremental" /\ Follows(j)
       /\ locked \/ (provider = "immich" /\ j.pc # "discover" /\ j.base = state.version)
       => j.next >= state.checkpoint

JobInv(j) == Shape(j) /\ Coverage(j) /\ FactIsKept(j) /\ RowIsKnown(j)

OneRun == locked => \A v, w \in Worker : job[v].pc # "idle" /\ job[w].pc # "idle" => v = w

IncrementalInv ==
    /\ TypeOK /\ NoUpdateLost /\ OneRun
    /\ \A w \in Worker : JobInv(job[w])
    /\ \A o \in Obj : best[o] <= rev[o]
    /\ state.checkpoint # Null => state.checkpoint <= Horizon

-----------------------------------------------------------------------------
(* What a checkpoint leaves ahead.                                         *)

\* A feed has something ahead of a checkpoint exactly if it has had a later
\* entry: where the server forgot it, the gap is noticed.
LEMMA AheadInFeed ==
  ASSUME TypeOK, provider = "nextcloud", NEW o \in Obj, NEW c \in Int
  PROVE  Ahead(o, c) <=> \E i \in DOMAIN log : i > c /\ o \in log[i]
<1> SUFFICES ASSUME NEW i \in DOMAIN log, i > c, o \in log[i]
             PROVE  i \in Retained \/ Retained = {} \/ GapAfter(c)
  BY DEF Ahead
<1>1. i \in 1..Len(log) /\ head \in Nat /\ Len(log) \in Nat
  BY DEF TypeOK
<1>2. CASE i > head
  BY <1>1, <1>2 DEF Retained
<1>3. CASE i <= head
  <2>1. c \notin Retained
    BY <1>1, <1>3 DEF Retained
  <2> QED
    BY <2>1 DEF GapAfter
<1> QED
  BY <1>1, <1>2, <1>3

\* What is ahead of a checkpoint is ahead of every earlier one.
LEMMA AheadOfEarlier ==
  ASSUME TypeOK, NEW o \in Obj, NEW c \in Int, NEW d \in Int, d <= c, Ahead(o, c)
  PROVE  Ahead(o, d)
<1>1. CASE provider = "nextcloud"
  <2>1. PICK i \in DOMAIN log : i > c /\ o \in log[i]
    BY <1>1, AheadInFeed
  <2>2. i > d
    BY <2>1 DEF TypeOK
  <2> QED
    BY <1>1, <2>1, <2>2, AheadInFeed
<1>2. CASE provider # "nextcloud"
  BY <1>2, IncrementalAssumption DEF Ahead, TypeOK
<1> QED
  BY <1>1, <1>2

LEMMA HorizonIsInt ==
  ASSUME TypeOK
  PROVE  Horizon \in Int
  BY IncrementalAssumption DEF TypeOK, Horizon

LEMMA FeedChangeAhead ==
  ASSUME TypeOK, NEW O \in SUBSET Obj, FeedChange(O)
  PROVE  /\ TypeOK' /\ Horizon' >= Horizon
         /\ \A o \in Obj : rev'[o] >= rev[o] /\ stamp'[o] >= stamp[o]
         /\ \A o \in Obj, c \in Int : Ahead(o, c) => Ahead(o, c)'
         /\ \A o \in Obj, c \in Int : rev'[o] # rev[o] /\ c <= Horizon => Ahead(o, c)'
<1>1. /\ provider = "nextcloud" /\ provider' = provider
      /\ changes < MaxChanges /\ changes' = changes + 1 /\ log' = Append(log, O)
      /\ rev' = [o \in Obj |-> IF o \in O THEN rev[o] + 1 ELSE rev[o]]
      /\ UNCHANGED <<head, stamp, now, state, known, best, setting, job>>
  BY DEF FeedChange, setting
<1>2. /\ rev \in [Obj -> Nat] /\ log \in Seq(SUBSET Obj) /\ head \in 0..Len(log)
      /\ changes \in 0..MaxChanges /\ stamp \in [Obj -> Int] /\ Len(log) \in Nat
  BY DEF TypeOK
<1>3. /\ rev' \in [Obj -> Nat]
      /\ \A o \in Obj : rev'[o] = IF o \in O THEN rev[o] + 1 ELSE rev[o]
  BY <1>1, <1>2
<1>4. /\ log' \in Seq(SUBSET Obj) /\ Len(log') = Len(log) + 1 /\ log'[Len(log) + 1] = O
      /\ \A i \in DOMAIN log : i \in DOMAIN log' /\ log'[i] = log[i]
      /\ Len(log) + 1 \in DOMAIN log'
  BY <1>1, <1>2
<1>5. TypeOK'
  <2>1. changes' \in 0..MaxChanges /\ head' \in 0..Len(log')
    BY <1>1, <1>2, <1>4, IncrementalAssumption
  <2> QED
    BY <1>1, <1>3, <1>4, <2>1 DEF TypeOK, setting
<1>6. Horizon = Len(log) /\ Horizon' = Len(log) + 1
  BY <1>1, <1>4 DEF Horizon
<1>7. \A o \in Obj : rev'[o] >= rev[o] /\ stamp'[o] >= stamp[o]
  BY <1>1, <1>2, <1>3
<1>8. \A o \in Obj, c \in Int : Ahead(o, c)' <=> \E i \in DOMAIN log' : i > c /\ o \in log'[i]
  <2> SUFFICES ASSUME NEW o \in Obj, NEW c \in Int
               PROVE  Ahead(o, c)' <=> \E i \in DOMAIN log' : i > c /\ o \in log'[i]
    OBVIOUS
  <2>1. (TypeOK /\ provider = "nextcloud" =>
           (Ahead(o, c) <=> \E i \in DOMAIN log : i > c /\ o \in log[i]))'
    BY AheadInFeed, PTL
  <2> QED
    BY <1>1, <1>5, <2>1
<1>9. \A o \in Obj, c \in Int : Ahead(o, c) => Ahead(o, c)'
  BY <1>1, <1>4, <1>8, AheadInFeed
<1>10. \A o \in Obj, c \in Int : rev'[o] # rev[o] /\ c <= Horizon => Ahead(o, c)'
  <2> SUFFICES ASSUME NEW o \in Obj, NEW c \in Int, rev'[o] # rev[o], c <= Horizon
               PROVE  \E i \in DOMAIN log' : i > c /\ o \in log'[i]
    BY <1>8
  <2>1. o \in O
    BY <1>3
  <2>2. Len(log) + 1 > c
    BY <1>2, <1>6
  <2> QED
    BY <1>4, <2>1, <2>2
<1> QED
  BY <1>2, <1>5, <1>6, <1>7, <1>9, <1>10

LEMMA ForgetAhead ==
  ASSUME TypeOK, Forget
  PROVE  /\ TypeOK' /\ Horizon' >= Horizon
         /\ \A o \in Obj : rev'[o] >= rev[o] /\ stamp'[o] >= stamp[o]
         /\ \A o \in Obj, c \in Int : Ahead(o, c) => Ahead(o, c)'
         /\ \A o \in Obj, c \in Int : rev'[o] # rev[o] /\ c <= Horizon => Ahead(o, c)'
<1>1. /\ head < Len(log) /\ head' = head + 1
      /\ UNCHANGED <<rev, log, changes, stamp, now, state, known, best, provider, locked, job>>
  BY DEF Forget, setting
<1>2. head' \in 0..Len(log)
  BY <1>1 DEF TypeOK
<1>3. TypeOK'
  BY <1>1, <1>2 DEF TypeOK
<1>4. Horizon' = Horizon
  BY <1>1 DEF Horizon
<1>5. ASSUME NEW o \in Obj, NEW c \in Int, Ahead(o, c)
      PROVE  Ahead(o, c)'
  <2>1. CASE provider = "nextcloud"
    <3>1. \E i \in DOMAIN log : i > c /\ o \in log[i]
      BY <1>5, <2>1, AheadInFeed
    <3>2. (TypeOK /\ provider = "nextcloud" =>
             (Ahead(o, c) <=> \E i \in DOMAIN log : i > c /\ o \in log[i]))'
      BY AheadInFeed, PTL
    <3> QED
      BY <1>1, <1>3, <2>1, <3>1, <3>2
  <2>2. CASE provider # "nextcloud"
    BY <1>1, <1>5, <2>2 DEF Ahead
  <2> QED
    BY <2>1, <2>2
<1>6. \A o \in Obj : rev'[o] >= rev[o] /\ stamp'[o] >= stamp[o] /\ rev'[o] = rev[o]
  BY <1>1 DEF TypeOK
<1> QED
  BY <1>3, <1>4, <1>5, <1>6, HorizonIsInt

LEMMA TimeAhead ==
  ASSUME TypeOK,
         \/ \E o \in Obj, t \in -MaxLag..MaxTime : TimedChange(o, t)
         \/ Tick
  PROVE  /\ TypeOK' /\ Horizon' >= Horizon
         /\ \A o \in Obj : rev'[o] >= rev[o] /\ stamp'[o] >= stamp[o]
         /\ \A o \in Obj, c \in Int : Ahead(o, c) => Ahead(o, c)'
         /\ \A o \in Obj, c \in Int : rev'[o] # rev[o] /\ c <= Horizon => Ahead(o, c)'
<1>1. CASE \E x \in Obj, t \in -MaxLag..MaxTime : TimedChange(x, t)
  <2>1. PICK x \in Obj, t \in -MaxLag..MaxTime : TimedChange(x, t)
    BY <1>1
  <2>2. /\ provider = "immich" /\ changes < MaxChanges /\ changes' = changes + 1
        /\ t \in (now - MaxLag)..now /\ t >= stamp[x]
        /\ rev' = [rev EXCEPT ![x] = rev[x] + 1] /\ stamp' = [stamp EXCEPT ![x] = t]
        /\ UNCHANGED <<log, head, now, state, known, best, provider, locked, job>>
    BY <2>1 DEF TimedChange, setting
  <2>3. /\ rev \in [Obj -> Nat] /\ stamp \in [Obj -> Int] /\ now \in Nat /\ t \in Int
        /\ MaxLag \in Nat /\ MaxAhead \in Nat /\ Overlap \in Nat /\ MaxLag + MaxAhead =< Overlap
        /\ changes \in 0..MaxChanges /\ MaxChanges \in Nat /\ t >= now - MaxLag
    BY <2>2, IncrementalAssumption DEF TypeOK
  <2>4. /\ rev' \in [Obj -> Nat] /\ stamp' \in [Obj -> Int] /\ changes' \in 0..MaxChanges
        /\ \A o \in Obj : /\ rev'[o] = IF o = x THEN rev[x] + 1 ELSE rev[o]
                          /\ stamp'[o] = IF o = x THEN t ELSE stamp[o]
    BY <2>2, <2>3
  <2>5. TypeOK'
    BY <2>2, <2>4 DEF TypeOK
  <2>6. Horizon = now + MaxAhead /\ Horizon' = Horizon
    BY <2>2 DEF Horizon
  <2>7. \A o \in Obj : rev'[o] >= rev[o] /\ stamp'[o] >= stamp[o]
    BY <2>2, <2>3, <2>4
  <2>8. \A o \in Obj, c \in Int : Ahead(o, c) => Ahead(o, c)'
    BY <2>2, <2>3, <2>4, <2>7 DEF Ahead
  <2>9. \A o \in Obj, c \in Int : rev'[o] # rev[o] /\ c <= Horizon => Ahead(o, c)'
    BY <2>2, <2>3, <2>4, <2>6 DEF Ahead
  <2> QED
    BY <2>5, <2>6, <2>7, <2>8, <2>9, HorizonIsInt
<1>2. CASE Tick
  <2>1. /\ provider = "immich" /\ now < MaxTime /\ now' = now + 1
        /\ UNCHANGED <<rev, log, head, changes, stamp, state, known, best, provider, locked, job>>
    BY <1>2 DEF Tick, setting
  <2>2. now' \in 0..MaxTime /\ now \in Nat /\ MaxAhead \in Nat
    BY <2>1, IncrementalAssumption DEF TypeOK
  <2>3. TypeOK'
    BY <2>1, <2>2 DEF TypeOK
  <2>4. Horizon' >= Horizon
    BY <2>1, <2>2 DEF Horizon
  <2>5. \A o \in Obj : rev'[o] >= rev[o] /\ stamp'[o] >= stamp[o] /\ rev'[o] = rev[o]
    BY <2>1 DEF TypeOK
  <2>6. \A o \in Obj, c \in Int : Ahead(o, c) => Ahead(o, c)'
    BY <2>1 DEF Ahead
  <2> QED
    BY <2>3, <2>4, <2>5, <2>6
<1> QED
  BY <1>1, <1>2

-----------------------------------------------------------------------------
(* The Provider's steps.                                                   *)

LEMMA InvIs ==
  ASSUME IncrementalInv
  PROVE  /\ rev \in [Obj -> Nat] /\ known \in [Obj -> Nat] /\ best \in [Obj -> Nat]
         /\ stamp \in [Obj -> Int] /\ job \in [Worker -> Job] /\ Horizon \in Int
         /\ state.checkpoint \in Int \cup {Null} /\ state.version \in Nat
         /\ state.reconcile \in BOOLEAN
         /\ \A o \in Obj : best[o] <= rev[o]
         /\ state.checkpoint # Null => state.checkpoint \in Int /\ state.checkpoint <= Horizon
         /\ \A w \in Worker : JobInv(job[w]) /\ job[w] \in Job
  BY HorizonIsInt DEF IncrementalInv, TypeOK, Row, JobInv, Shape

(* Whatever happens at the Provider happens ahead of every checkpoint.     *)
LEMMA WorldStep ==
  ASSUME IncrementalInv, UNCHANGED <<state, known, best, setting, job>>,
         TypeOK', Horizon' >= Horizon,
         \A o \in Obj : rev'[o] >= rev[o] /\ stamp'[o] >= stamp[o],
         \A o \in Obj, c \in Int : Ahead(o, c) => Ahead(o, c)',
         \A o \in Obj, c \in Int : rev'[o] # rev[o] /\ c <= Horizon => Ahead(o, c)'
  PROVE  IncrementalInv'
<1>1. /\ state' = state /\ known' = known /\ best' = best /\ job' = job
      /\ provider' = provider /\ locked' = locked
  BY DEF setting
<1>2. /\ rev \in [Obj -> Nat] /\ rev' \in [Obj -> Nat] /\ best \in [Obj -> Nat]
      /\ stamp \in [Obj -> Int] /\ stamp' \in [Obj -> Int]
      /\ Horizon \in Int /\ Horizon' \in Int
  <2>1. (TypeOK => Horizon \in Int)'
    BY HorizonIsInt, PTL
  <2> QED
    BY <2>1, InvIs DEF TypeOK
<1>3. ASSUME NEW o \in Obj, NEW c \in Int, c <= Horizon, Ahead(o, c) \/ Recorded(o)
      PROVE  Ahead(o, c)' \/ Recorded(o)'
  BY <1>1, <1>3 DEF Recorded
<1>4. ASSUME NEW w \in Worker
      PROVE  JobInv(job[w])'
  <2> DEFINE j == job[w]
  <2>1. JobInv(j) /\ j \in Job /\ (j.fact \in Obj \X Nat => j.fact[1] \in Obj /\ j.fact[2] \in Nat)
    BY InvIs
  <2>2. j' = j
    BY <1>1
  <2>3. Shape(j)'
    <3>1. \A o \in Obj, x \in Int : stamp[o] >= x => stamp'[o] >= x
      BY <1>2
    <3>2. j.todo \subseteq Obj /\ (j.window \in Int \X Int => j.window[1] \in Int)
          /\ j.window \in (Int \X Int) \cup {Null}
      BY <2>1 DEF Job
    <3> QED
      BY <1>1, <2>1, <2>2, <3>1, <3>2 DEF JobInv, Shape
  <2>4. Coverage(j)'
    <3> SUFFICES ASSUME Follows(j)
                 PROVE  /\ j.next \in Int /\ j.next <= Horizon'
                        /\ \A o \in Obj : Covers(j, o)'
      BY <2>2 DEF Coverage, Follows
    <3>1. j.next \in Int /\ j.next <= Horizon /\ \A o \in Obj : Covers(j, o)
      BY <2>1 DEF JobInv, Coverage
    <3>2. ASSUME NEW o \in Obj
          PROVE  \/ Ahead(o, j.next)' \/ Recorded(o)'
                 \/ o \in j.todo
                 \/ j.pc = "write" /\ j.fact = <<o, rev'[o]>>
      BY <1>3, <3>1 DEF Covers
    <3>3. \A o \in Obj : Covers(j, o)'
      BY <2>2, <3>2 DEF Covers, Ahead, Retained, GapAfter
    <3> QED
      BY <1>2, <3>1, <3>3
  <2>5. FactIsKept(j)'
    <3> SUFFICES ASSUME j.pc = "write"
                 PROVE  FactIsKept(j)'
      BY <2>2 DEF FactIsKept
    <3>1. PICK o \in Obj, r \in Nat, n \in Int \cup {Null}, c \in Int \cup {Null} :
               j.fact = <<o, r>> /\ n = j.next /\ c = state.checkpoint
      <4>1. j.fact \in Obj \X Nat
        BY <2>1 DEF JobInv, FactIsKept
      <4>2. j.next \in Int \cup {Null}
        BY <2>1 DEF Job
      <4>3. state.checkpoint \in Int \cup {Null}
        BY InvIs
      <4>4. \A x \in Obj \X Nat : \E o \in Obj, r \in Nat : x = <<o, r>>
        OBVIOUS
      <4> HIDE DEF j
      <4> QED
        BY <4>1, <4>2, <4>3, <4>4
    <3>2. /\ r <= rev[o]
          /\ locked /\ r # rev[o] => /\ Trusted => Ahead(o, c)
                                     /\ j.op # "full" => Ahead(o, n)
      BY <2>1, <3>1 DEF JobInv, FactIsKept, Ahead, Retained, GapAfter
    <3>3. r <= rev'[o]
      BY <1>2, <3>1, <3>2
    <3>4. j.op # "full" => n \in Int /\ n <= Horizon
      BY <2>1, <3>1 DEF JobInv, Coverage, Follows
    <3>5. Trusted => c \in Int /\ c <= Horizon
      BY <3>1, InvIs DEF Trusted
    <3>6. locked /\ r # rev'[o] => /\ Trusted => Ahead(o, c)'
                                   /\ j.op # "full" => Ahead(o, n)'
      BY <1>1, <3>2, <3>4, <3>5
    <3> QED
      BY <1>1, <2>2, <3>1, <3>3, <3>6 DEF FactIsKept, Trusted, Ahead, Retained, GapAfter
  <2>6. RowIsKnown(j)'
    BY <1>1, <2>1, <2>2 DEF JobInv, RowIsKnown, Follows
  <2> QED
    BY <2>3, <2>4, <2>5, <2>6 DEF JobInv
<1>5. NoUpdateLost'
  <2> SUFFICES ASSUME Trusted, NEW o \in Obj
               PROVE  Ahead(o, state.checkpoint)' \/ Recorded(o)'
    BY <1>1 DEF NoUpdateLost, Trusted, Recorded
  <2>1. state.checkpoint \in Int /\ state.checkpoint <= Horizon
    BY InvIs DEF Trusted
  <2>2. Ahead(o, state.checkpoint) \/ Recorded(o)
    BY DEF IncrementalInv, NoUpdateLost, Recorded
  <2>3. (\E c \in Int : c = state.checkpoint /\ Ahead(o, c)') \/ Recorded(o)'
    BY <1>3, <2>1, <2>2
  <2> QED
    BY <1>1, <2>3 DEF Ahead, Retained, GapAfter
<1>6. OneRun'
  BY <1>1 DEF IncrementalInv, OneRun
<1>7. \A o \in Obj : best'[o] <= rev'[o]
  BY <1>1, <1>2, InvIs
<1>8. state'.checkpoint # Null => state'.checkpoint <= Horizon'
  BY <1>1, <1>2, InvIs
<1> QED
  BY <1>4, <1>5, <1>6, <1>7, <1>8 DEF IncrementalInv

LEMMA WorldSteps ==
  ASSUME IncrementalInv,
         \/ \E O \in SUBSET Obj : FeedChange(O)
         \/ Forget
         \/ \E o \in Obj, t \in -MaxLag..MaxTime : TimedChange(o, t)
         \/ Tick
  PROVE  IncrementalInv'
<1>1. TypeOK
  BY DEF IncrementalInv
<1>2. UNCHANGED <<state, known, best, setting, job>>
  BY DEF FeedChange, Forget, TimedChange, Tick
<1>3. CASE \E O \in SUBSET Obj : FeedChange(O)
  BY <1>1, <1>2, <1>3, FeedChangeAhead, WorldStep
<1>4. CASE Forget
  BY <1>1, <1>2, <1>4, ForgetAhead, WorldStep
<1>5. CASE (\E o \in Obj, t \in -MaxLag..MaxTime : TimedChange(o, t)) \/ Tick
  BY <1>1, <1>2, <1>5, TimeAhead, WorldStep
<1> QED
  BY <1>3, <1>4, <1>5

-----------------------------------------------------------------------------
(* The steps of a run.                                                     *)

(* A step that moves one run and nothing else.                             *)
LEMMA JobStep ==
  ASSUME IncrementalInv, NEW w \in Worker, NEW j, Become(w, j), Quiet, JobInv(j),
         locked /\ j.pc # "idle" => \A v \in Worker : v # w => job[v].pc = "idle"
  PROVE  IncrementalInv'
<1>1. /\ UNCHANGED <<rev, log, head, changes, stamp, now, state, known, best, provider, locked>>
      /\ job' = [job EXCEPT ![w] = j]
  BY DEF Quiet, World, setting, Become
<1>2. job \in [Worker -> Job] /\ j \in Job /\ \A v \in Worker : JobInv(job[v])
  BY InvIs DEF JobInv, Shape
<1>3. /\ job' \in [Worker -> Job]
      /\ \A v \in Worker : job'[v] = IF v = w THEN j ELSE job[v]
  BY <1>1, <1>2
<1>4. TypeOK'
  BY <1>1, <1>3 DEF IncrementalInv, TypeOK
<1>5. ASSUME NEW x, JobInv(x)
      PROVE  JobInv(x)'
  <2>1. \A o \in Obj : \A c : Ahead(o, c)' <=> Ahead(o, c)
    BY <1>1 DEF Ahead, Retained, GapAfter
  <2>2. Shape(x)' /\ RowIsKnown(x)'
    BY <1>1, <1>5 DEF JobInv, Shape, RowIsKnown, Follows
  <2>3. Coverage(x)'
    BY <1>1, <1>5, <2>1 DEF JobInv, Coverage, Covers, Recorded, Follows, Horizon
  <2>4. FactIsKept(x)'
    <3> SUFFICES ASSUME x.pc = "write" PROVE FactIsKept(x)'
      BY DEF FactIsKept
    <3>1. FactIsKept(x) /\ x.fact[1] \in Obj
      BY <1>5 DEF JobInv, FactIsKept
    <3> QED
      BY <1>1, <2>1, <3>1 DEF FactIsKept, Trusted, Ahead, Retained, GapAfter
  <2> QED
    BY <2>2, <2>3, <2>4 DEF JobInv
<1>6. ASSUME NEW v \in Worker
      PROVE  JobInv(job[v])'
  <2>1. PICK x : x = (IF v = w THEN j ELSE job[v])
    OBVIOUS
  <2>2. JobInv(x)
    BY <1>2, <2>1
  <2>3. JobInv(x)'
    BY <1>5, <2>2
  <2>4. (job[v] = x /\ JobInv(x) => JobInv(job[v]))'
    BY DEF JobInv, Shape, Coverage, FactIsKept, RowIsKnown, Follows, Covers
  <2> QED
    BY <1>3, <2>1, <2>3, <2>4
<1>7. NoUpdateLost'
  BY <1>1 DEF IncrementalInv, NoUpdateLost, Trusted, Ahead, Retained, GapAfter
<1>8. OneRun'
  BY <1>1, <1>3 DEF IncrementalInv, OneRun
<1>9. \A o \in Obj : best'[o] <= rev'[o]
  BY <1>1 DEF IncrementalInv
<1>10. state'.checkpoint # Null => state'.checkpoint <= Horizon'
  BY <1>1 DEF IncrementalInv, Horizon
<1> QED
  BY <1>4, <1>6, <1>7, <1>8, <1>9, <1>10 DEF IncrementalInv

LEMMA IdleJobIs ==
  ASSUME IncrementalInv
  PROVE  JobInv(IdleJob)
<1>1. IdleJob \in Job /\ IdleJob.pc = "idle" /\ IdleJob.base = 0 /\ IdleJob.window = Null
  BY DEF IdleJob, Job
<1>2. state.version \in Nat
  BY InvIs
<1> QED
  BY <1>1, <1>2 DEF JobInv, Shape, Coverage, FactIsKept, RowIsKnown, Follows

(* A run that ends without having committed.                               *)
LEMMA EndSteps ==
  ASSUME IncrementalInv, NEW w \in Worker, Become(w, IdleJob), Quiet
  PROVE  IncrementalInv'
<1>1. PICK j : j = IdleJob
  OBVIOUS
<1>2. JobInv(j) /\ j.pc = "idle" /\ Become(w, j)
  BY <1>1, IdleJobIs DEF IdleJob
<1> QED
  BY <1>2, JobStep

\* No other run is under way with the lock held.
LEMMA OthersIdle ==
  ASSUME IncrementalInv, NEW w \in Worker, job[w].pc # "idle", locked
  PROVE  \A v \in Worker : v # w => job[v].pc = "idle"
  BY DEF IncrementalInv, OneRun

LEMMA StartStep ==
  ASSUME IncrementalInv, NEW w \in Worker,
         NEW op \in {"full", "incremental", "bootstrap", "recover"}, Start(w, op)
  PROVE  IncrementalInv'
<1> DEFINE pc == CASE op = "full" -> "scan"
                   [] op \in {"bootstrap", "recover"} -> "anchor"
                   [] op = "incremental" /\ provider = "nextcloud" -> "fetch"
                   [] op = "incremental" /\ provider = "immich" -> "discover"
           next == IF op = "incremental" THEN state.checkpoint ELSE Null
           todo == IF op = "full" THEN Obj ELSE {}
           j == [IdleJob EXCEPT !.op = op, !.base = state.version, !.fresh = state.reconcile,
                                !.next = next, !.pc = pc, !.todo = todo]
<1>1. Become(w, j) /\ Quiet /\ Allowed(op, state)
      /\ (locked => \A v \in Worker : job[v].pc = "idle")
  BY DEF Start
<1>2. /\ op = "full" => pc = "scan"
      /\ op \in {"bootstrap", "recover"} => pc = "anchor"
      /\ op = "incremental" => pc \in {"fetch", "discover"}
      /\ pc = "fetch" => provider = "nextcloud" /\ op = "incremental"
      /\ op = "full" \/ todo = {}
  BY DEF IncrementalInv, TypeOK, Provider
<1>3. todo \subseteq Obj /\ next \in Int \cup {Null}
      /\ (op = "incremental" => next = state.checkpoint)
      /\ state.version \in Nat /\ state.reconcile \in BOOLEAN
  BY InvIs
<1> HIDE DEF pc, next, todo
<1>4. /\ j \in Job /\ j.op = op /\ j.pc = pc /\ j.base = state.version /\ j.next = next
      /\ j.todo = todo /\ j.fresh = state.reconcile /\ j.window = Null
  BY <1>2, <1>3 DEF Job, IdleJob
<1> HIDE DEF j
<1>5. op = "incremental" => Trusted /\ state.checkpoint \in Int /\ state.checkpoint <= Horizon
  BY <1>1, InvIs DEF Allowed, Trusted
<1>6. op = "bootstrap" => state.checkpoint = Null
  BY <1>1 DEF Allowed
<1>7. op = "recover" => state.reconcile
  BY <1>1 DEF Allowed
<1>8. Shape(j)
  BY <1>2, <1>4, <1>5 DEF Shape, Trusted
<1>9. Coverage(j)
  <2> SUFFICES ASSUME Follows(j)
               PROVE  j.next \in Int /\ j.next <= Horizon /\ \A o \in Obj : Covers(j, o)
    BY DEF Coverage
  <2>1. op = "incremental"
    BY <1>2, <1>4 DEF Follows
  <2>2. \A o \in Obj : Ahead(o, state.checkpoint) \/ Recorded(o)
    BY <1>5, <2>1 DEF IncrementalInv, NoUpdateLost, Recorded
  <2> QED
    BY <1>3, <1>4, <1>5, <2>1, <2>2 DEF Covers
<1>10. FactIsKept(j)
  BY <1>2, <1>4 DEF FactIsKept
<1>11. RowIsKnown(j)
  BY <1>3, <1>4, <1>5, <1>6, <1>7 DEF RowIsKnown
<1> QED
  BY <1>1, <1>8, <1>9, <1>10, <1>11, JobStep DEF JobInv

(* The steps that fetch and discover.                                      *)

\* A page is the entries that follow its cursor, up to its last.
LEMMA FeedPageIs ==
  ASSUME TypeOK, NEW c \in Int, ~GapAfter(c), PageOf(c) # {}
  PROVE  LET n == CHOOSE i \in PageOf(c) : \A k \in PageOf(c) : k =< i
         IN  /\ n \in Int /\ c < n /\ n <= Len(log)
             /\ \A i \in DOMAIN log : c < i /\ i <= n => i \in PageOf(c)
<1> DEFINE m == IF c + PageLimit < Len(log) THEN c + PageLimit ELSE Len(log)
           IsLast(i) == \A k \in PageOf(c) : k =< i
           n == CHOOSE i \in PageOf(c) : IsLast(i)
<1>1. head \in Nat /\ Len(log) \in Nat /\ DOMAIN log = 1..Len(log) /\ PageLimit \in Nat \ {0}
  BY IncrementalAssumption DEF TypeOK
<1>2. c \in Retained
  BY DEF GapAfter, PageOf
<1>3. c > head /\ c <= Len(log)
  BY <1>1, <1>2 DEF Retained
<1>4. \A i \in Int : i \in PageOf(c) <=> c < i /\ i <= m
  BY <1>1, <1>3 DEF PageOf, Retained
<1>5. PageOf(c) \subseteq Int /\ m \in Int
  BY <1>1 DEF PageOf, Retained
<1> HIDE DEF m
<1>6. m \in PageOf(c) /\ IsLast(m)
  BY <1>4, <1>5
<1>7. n \in PageOf(c) /\ IsLast(n)
  BY <1>6
<1>8. n = m
  BY <1>4, <1>5, <1>6, <1>7
<1>9. m <= Len(log)
  BY <1>1 DEF m
<1> QED
  BY <1>1, <1>4, <1>5, <1>6, <1>8, <1>9

LEMMA FetchStep ==
  ASSUME IncrementalInv, NEW w \in Worker, FetchPage(w)
  PROVE  IncrementalInv'
<1> DEFINE j == job[w]
           entries == PageOf(j.next)
           n == CHOOSE i \in entries : \A k \in entries : k =< i
           todo == UNION {log[i] : i \in entries}
           new == [j EXCEPT !.pc = "discover", !.next = n, !.todo = todo]
<1>1. /\ j.pc = "fetch" /\ ~GapAfter(j.next) /\ entries # {} /\ Become(w, new) /\ Quiet
  BY DEF FetchPage
<1>2. j \in Job /\ JobInv(j) /\ TypeOK
  BY InvIs DEF IncrementalInv
<1>3. /\ j.op = "incremental" /\ provider = "nextcloud" /\ state.checkpoint # Null
      /\ Follows(j) /\ j.next \in Int /\ j.next <= Horizon
      /\ \A o \in Obj : Covers(j, o)
      /\ j.window = Null
  BY <1>1, <1>2 DEF JobInv, Shape, Coverage, Follows
<1>4. /\ n \in Int /\ j.next < n /\ n <= Len(log)
      /\ \A i \in DOMAIN log : j.next < i /\ i <= n => i \in entries
  BY <1>1, <1>2, <1>3, FeedPageIs
<1>5. todo \subseteq Obj /\ entries \subseteq DOMAIN log
  <2>1. entries \subseteq DOMAIN log /\ log \in Seq(SUBSET Obj)
    BY <1>2 DEF PageOf, Retained, TypeOK
  <2> QED
    BY <2>1
<1> HIDE DEF todo, n
<1>6. /\ new \in Job /\ new.op = j.op /\ new.pc = "discover" /\ new.base = j.base
      /\ new.next = n /\ new.todo = todo /\ new.window = j.window
  <2> HIDE DEF j
  <2> QED
    BY <1>2, <1>4, <1>5 DEF Job
<1> HIDE DEF new, entries
<1>7. Shape(new)
  BY <1>2, <1>3, <1>6 DEF Shape
<1>8. Coverage(new)
  <2>1. n <= Horizon
    BY <1>3, <1>4 DEF Horizon
  <2>2. ASSUME NEW o \in Obj
        PROVE  Covers(new, o)
    <3>1. CASE o \in j.todo \/ Recorded(o)
      BY <1>1, <1>2, <1>6, <3>1 DEF Covers, JobInv, Shape
    <3>2. CASE Ahead(o, j.next)
      <4>1. PICK i \in DOMAIN log : i > j.next /\ o \in log[i]
        BY <1>2, <1>3, <3>2, AheadInFeed
      <4>2. CASE i > n
        BY <1>2, <1>3, <1>4, <1>6, <4>1, <4>2, AheadInFeed DEF Covers
      <4>3. CASE i <= n
        <5>1. i \in entries
          BY <1>4, <4>1, <4>3
        <5> QED
          BY <1>6, <4>1, <5>1 DEF Covers, todo
      <4> QED
        BY <1>2, <1>4, <4>2, <4>3 DEF TypeOK
    <3> QED
      BY <1>1, <1>3, <3>1, <3>2 DEF Covers
  <2> QED
    BY <1>4, <1>6, <2>1, <2>2 DEF Coverage
<1>9. FactIsKept(new)
  BY <1>6 DEF FactIsKept
<1>10. RowIsKnown(new)
  <2>1. /\ j.base <= state.version
        /\ locked => j.next >= state.checkpoint
    BY <1>1, <1>2, <1>3 DEF JobInv, RowIsKnown
  <2>2. state.checkpoint \in Int
    BY <1>3, InvIs
  <2>3. locked => n >= state.checkpoint
    BY <1>3, <1>4, <2>1, <2>2
  <2> QED
    BY <1>3, <1>6, <2>1, <2>3 DEF RowIsKnown
<1>11. locked => \A v \in Worker : v # w => job[v].pc = "idle"
  BY <1>1, OthersIdle
<1> QED
  BY <1>1, <1>7, <1>8, <1>9, <1>10, <1>11, JobStep DEF JobInv

LEMMA GapStep ==
  ASSUME IncrementalInv, NEW w \in Worker, FetchGap(w)
  PROVE  IncrementalInv'
<1> DEFINE j == job[w]
           new == [j EXCEPT !.pc = "gap"]
<1>1. j.pc = "fetch" /\ Become(w, new) /\ Quiet
  BY DEF FetchGap
<1>2. j \in Job /\ JobInv(j)
  BY InvIs
<1>3. /\ new \in Job /\ new.op = j.op /\ new.pc = "gap" /\ new.base = j.base
      /\ new.next = j.next /\ new.todo = j.todo /\ new.window = j.window
  <2> HIDE DEF j
  <2> QED
    BY <1>2 DEF Job
<1> HIDE DEF new
<1>4. Shape(new)
  BY <1>1, <1>2, <1>3 DEF JobInv, Shape
<1>5. Coverage(new) /\ FactIsKept(new)
  BY <1>3 DEF Coverage, Follows, FactIsKept
<1>6. RowIsKnown(new)
  BY <1>1, <1>2, <1>3 DEF JobInv, Shape, RowIsKnown, Follows
<1>7. locked => \A v \in Worker : v # w => job[v].pc = "idle"
  BY <1>1, OthersIdle
<1> QED
  BY <1>1, <1>4, <1>5, <1>6, <1>7, JobStep DEF JobInv

LEMMA DiscoverPageStep ==
  ASSUME IncrementalInv, NEW w \in Worker, DiscoverPage(w)
  PROVE  IncrementalInv'
<1> DEFINE j == job[w]
           new == [j EXCEPT !.pc = "scan", !.base = state.version]
<1>1. CASE state.reconcile
  BY <1>1, EndSteps DEF DiscoverPage
<1>2. CASE ~state.reconcile
  <2>1. j.pc = "discover" /\ provider = "nextcloud" /\ Become(w, new) /\ Quiet
    BY <1>2 DEF DiscoverPage
  <2>2. j \in Job /\ JobInv(j) /\ state.version \in Nat
    BY InvIs
  <2>3. /\ new \in Job /\ new.op = j.op /\ new.pc = "scan" /\ new.base = state.version
        /\ new.next = j.next /\ new.todo = j.todo /\ new.window = j.window
    <3> HIDE DEF j
    <3> QED
      BY <2>2 DEF Job
  <2> HIDE DEF new
  <2>4. Shape(new)
    BY <2>1, <2>2, <2>3 DEF JobInv, Shape
  <2>5. Coverage(new)
    BY <2>1, <2>2, <2>3 DEF JobInv, Coverage, Follows, Covers
  <2>6. FactIsKept(new)
    BY <2>3 DEF FactIsKept
  <2>7. RowIsKnown(new)
    BY <2>1, <2>2, <2>3 DEF JobInv, Shape, RowIsKnown, Follows
  <2>8. locked => \A v \in Worker : v # w => job[v].pc = "idle"
    BY <2>1, OthersIdle
  <2> QED
    BY <2>1, <2>4, <2>5, <2>6, <2>7, <2>8, JobStep DEF JobInv
<1> QED
  BY <1>1, <1>2 DEF TypeOK, IncrementalInv, Row

LEMMA DiscoverWindowStep ==
  ASSUME IncrementalInv, NEW w \in Worker, NEW t \in -MaxBehind..(MaxTime + MaxAhead),
         DiscoverWindow(w, t)
  PROVE  IncrementalInv'
<1> DEFINE j == job[w]
           c == state.checkpoint
           end == WindowEnd(c, t)
           window == <<WindowStart(c), end>>
           todo == {o \in Obj : Within(o, window)}
           new == [j EXCEPT !.pc = "scan", !.base = state.version, !.next = end,
                            !.window = window, !.todo = todo]
<1>1. CASE state.reconcile
  BY <1>1, EndSteps DEF DiscoverWindow
<1>2. CASE ~state.reconcile
  <2>1. j.pc = "discover" /\ provider = "immich" /\ Become(w, new) /\ Quiet /\ Reading(t)
    BY <1>2 DEF DiscoverWindow
  <2>2. j \in Job /\ JobInv(j) /\ state.version \in Nat
    BY InvIs
  <2>3. /\ j.op = "incremental" /\ c # Null /\ Trusted /\ c \in Int /\ c <= Horizon
    BY <1>2, <2>1, <2>2, InvIs DEF JobInv, Shape, Trusted
  <2>4. /\ now \in Nat /\ MaxAhead \in Nat /\ MaxBehind \in Nat /\ Overlap \in Nat
        /\ Horizon = now + MaxAhead
    BY <2>1, IncrementalAssumption DEF IncrementalInv, TypeOK, Horizon
  <2>5. t \in Int /\ t <= now + MaxAhead
    BY <2>1, <2>4 DEF Reading
  <2>6. end \in Int /\ end >= c /\ end <= Horizon /\ end \in {c, t}
    BY <2>3, <2>4, <2>5 DEF WindowEnd
  <2>7. WindowStart(c) = c - Overlap /\ WindowStart(c) \in Int
    BY <2>3, <2>4 DEF WindowStart
  <2> HIDE DEF end
  <2>8. window \in Int \X Int /\ window[1] = c - Overlap /\ window[2] = end
    BY <2>6, <2>7
  <2> HIDE DEF window
  <2>9. todo \subseteq Obj /\ \A o \in Obj : o \in todo <=> window[1] =< stamp[o] /\ stamp[o] =< end
    BY <2>8 DEF Within
  <2> HIDE DEF todo
  <2>10. /\ new \in Job /\ new.op = "incremental" /\ new.pc = "scan" /\ new.base = state.version
         /\ new.next = end /\ new.todo = todo /\ new.window = window
    <3> HIDE DEF j
    <3> QED
      BY <2>2, <2>3, <2>6, <2>8, <2>9 DEF Job, j
  <2> HIDE DEF new
  <2>11. Shape(new)
    <3>1. \A o \in Obj : o \in todo => stamp[o] >= window[1]
      BY <2>3, <2>4, <2>8, <2>9, InvIs
    <3> QED
      BY <2>1, <2>3, <2>8, <2>9, <2>10, <3>1 DEF Shape
  <2>12. Coverage(new)
    <3>1. ASSUME NEW o \in Obj
          PROVE  Covers(new, o)
      <4>1. Ahead(o, c) \/ Recorded(o)
        BY <2>3 DEF IncrementalInv, NoUpdateLost, Recorded
      <4>2. CASE Ahead(o, c)
        <5>1. stamp[o] \in Int /\ stamp[o] >= c - Overlap
          BY <2>1, <4>2, InvIs DEF Ahead
        <5>2. o \in todo \/ stamp[o] >= end - Overlap
          BY <2>4, <2>6, <2>8, <2>9, <5>1
        <5>3. stamp[o] >= end - Overlap => Ahead(o, end)
          BY <2>1 DEF Ahead
        <5> QED
          BY <2>10, <5>2, <5>3 DEF Covers
      <4> QED
        BY <4>1, <4>2 DEF Covers
    <3> QED
      BY <2>6, <2>10, <3>1 DEF Coverage
  <2>13. FactIsKept(new)
    BY <2>10 DEF FactIsKept
  <2>14. RowIsKnown(new)
    BY <2>2, <2>6, <2>10 DEF RowIsKnown
  <2>15. locked => \A v \in Worker : v # w => job[v].pc = "idle"
    BY <2>1, OthersIdle
  <2> QED
    BY <2>1, <2>11, <2>12, <2>13, <2>14, <2>15, JobStep DEF JobInv
<1> QED
  BY <1>1, <1>2 DEF TypeOK, IncrementalInv, Row

LEMMA AnchorStep ==
  ASSUME IncrementalInv, NEW w \in Worker,
         NEW a \in -MaxBehind..(MaxTime + MaxAhead + MaxChanges), Anchor(w, a)
  PROVE  IncrementalInv'
<1> DEFINE j == job[w]
           new == [j EXCEPT !.pc = "scan", !.next = a, !.todo = Obj]
<1>1. /\ j.pc = "anchor" /\ Become(w, new) /\ Quiet
      /\ IF provider = "nextcloud" THEN a = IF Retained = {} THEN 0 ELSE Len(log) ELSE Reading(a)
  BY DEF Anchor
<1>2. j \in Job /\ JobInv(j)
  BY InvIs
<1>3. j.op \in {"bootstrap", "recover"} /\ j.window = Null
  BY <1>1, <1>2 DEF JobInv, Shape
<1>4. /\ now \in Nat /\ MaxAhead \in Nat /\ MaxBehind \in Nat /\ Len(log) \in Nat
  BY IncrementalAssumption DEF IncrementalInv, TypeOK
<1>5. a \in Int /\ a <= Horizon
  BY <1>1, <1>4 DEF Reading, Horizon
<1>6. /\ new \in Job /\ new.op = j.op /\ new.pc = "scan" /\ new.base = j.base
      /\ new.next = a /\ new.todo = Obj /\ new.window = Null /\ new.fresh = j.fresh
  <2>1. j.window = Null
    BY <1>3
  <2> HIDE DEF j
  <2> QED
    BY <1>2, <1>5, <2>1 DEF Job
<1> HIDE DEF new
<1>7. Shape(new)
  BY <1>3, <1>6 DEF Shape
<1>8. Coverage(new)
  BY <1>5, <1>6 DEF Coverage, Covers
<1>9. FactIsKept(new)
  BY <1>6 DEF FactIsKept
<1>10. RowIsKnown(new)
  BY <1>1, <1>2, <1>3, <1>6 DEF JobInv, RowIsKnown
<1>11. locked => \A v \in Worker : v # w => job[v].pc = "idle"
  BY <1>1, OthersIdle
<1> QED
  BY <1>1, <1>7, <1>8, <1>9, <1>10, <1>11, JobStep DEF JobInv

LEMMA ReadFactStep ==
  ASSUME IncrementalInv, NEW w \in Worker, NEW o \in job[w].todo, ReadFact(w, o)
  PROVE  IncrementalInv'
<1> DEFINE j == job[w]
           read == [j EXCEPT !.pc = "write", !.todo = j.todo \ {o},
                             !.listed = j.listed \cup {o}, !.fact = <<o, rev[o]>>]
           gone == [j EXCEPT !.todo = j.todo \ {o}]
<1>1. /\ j.pc = "scan" /\ Quiet
      /\ IF j.window = Null \/ Within(o, j.window) THEN Become(w, read) ELSE Become(w, gone)
  BY DEF ReadFact
<1>2. j \in Job /\ JobInv(j) /\ rev \in [Obj -> Nat]
  BY InvIs
<1>3. o \in Obj /\ j.todo \ {o} \subseteq Obj /\ j.listed \cup {o} \subseteq Obj
      /\ <<o, rev[o]>> \in Obj \X Nat
  BY <1>2 DEF Job
<1>4. locked => \A v \in Worker : v # w => job[v].pc = "idle"
  BY <1>1, OthersIdle
<1>5. CASE j.window = Null \/ Within(o, j.window)
  <2>1. /\ read \in Job /\ read.op = j.op /\ read.pc = "write" /\ read.base = j.base
        /\ read.next = j.next /\ read.todo = j.todo \ {o} /\ read.window = j.window
        /\ read.fresh = j.fresh /\ read.fact = <<o, rev[o]>>
    <3>1. j \in Job
      BY <1>2
    <3> HIDE DEF j
    <3> QED
      BY <3>1, <1>3 DEF Job
  <2> HIDE DEF read
  <2>2. Shape(read)
    BY <1>1, <1>2, <2>1 DEF JobInv, Shape
  <2>3. Coverage(read)
    BY <1>1, <1>2, <2>1 DEF JobInv, Coverage, Covers, Follows
  <2>4. FactIsKept(read)
    BY <1>2, <1>3, <2>1 DEF FactIsKept
  <2>5. RowIsKnown(read)
    BY <1>1, <1>2, <2>1 DEF JobInv, RowIsKnown, Follows
  <2> QED
    BY <1>1, <1>4, <1>5, <2>2, <2>3, <2>4, <2>5, JobStep DEF JobInv
<1>6. CASE ~(j.window = Null \/ Within(o, j.window))
  <2>1. /\ gone \in Job /\ gone.op = j.op /\ gone.pc = j.pc /\ gone.base = j.base
        /\ gone.next = j.next /\ gone.todo = j.todo \ {o} /\ gone.window = j.window
        /\ gone.fresh = j.fresh
    <3>1. j \in Job
      BY <1>2
    <3> HIDE DEF j
    <3> QED
      BY <3>1, <1>3 DEF Job
  <2> HIDE DEF gone
  <2>2. Shape(gone)
    BY <1>1, <1>2, <2>1 DEF JobInv, Shape
  <2>3. Coverage(gone)
    <3>1. ASSUME Follows(j)
          PROVE  Ahead(o, j.next)
      <4>1. /\ j.window \in Int \X Int /\ j.window[2] = j.next /\ stamp[o] >= j.window[1]
            /\ j.next \in Int
        BY <1>2, <1>6, <3>1 DEF JobInv, Shape, Coverage, Job
      <4>2. ~(j.window[1] =< stamp[o] /\ stamp[o] =< j.next)
        BY <1>6, <4>1 DEF Within
      <4>3. stamp[o] \in Int /\ Overlap \in Nat /\ j.window[1] \in Int
        BY <1>3, <4>1, InvIs, IncrementalAssumption
      <4>4. stamp[o] >= j.next - Overlap
        BY <4>1, <4>2, <4>3
      <4>5. provider # "nextcloud"
        BY <1>2, <1>6 DEF JobInv, Shape
      <4> QED
        BY <4>4, <4>5 DEF Ahead
    <3> QED
      BY <1>1, <1>2, <2>1, <3>1 DEF JobInv, Coverage, Covers, Follows
  <2>4. FactIsKept(gone)
    BY <1>1, <2>1 DEF FactIsKept
  <2>5. RowIsKnown(gone)
    BY <1>1, <1>2, <2>1 DEF JobInv, RowIsKnown, Follows
  <2> QED
    BY <1>1, <1>4, <1>6, <2>2, <2>3, <2>4, <2>5, JobStep DEF JobInv
<1> QED
  BY <1>5, <1>6

LEMMA ScanDoneStep ==
  ASSUME IncrementalInv, NEW w \in Worker, ScanDone(w)
  PROVE  IncrementalInv'
<1> DEFINE j == job[w]
           new == [j EXCEPT !.pc = "commit"]
<1>1. CASE j.op = "full"
  BY <1>1, EndSteps DEF ScanDone
<1>2. CASE j.op # "full"
  <2>1. /\ j.pc = "scan" /\ j.todo = {} /\ Become(w, new) /\ Quiet
    BY <1>2 DEF ScanDone
  <2>2. j \in Job /\ JobInv(j)
    BY InvIs
  <2>3. /\ new \in Job /\ new.op = j.op /\ new.pc = "commit" /\ new.base = j.base
        /\ new.next = j.next /\ new.todo = j.todo /\ new.window = j.window
        /\ new.fresh = j.fresh
    <3>1. j \in Job
      BY <2>2
    <3> HIDE DEF j
    <3> QED
      BY <3>1 DEF Job
  <2> HIDE DEF new
  <2>4. Shape(new)
    BY <1>2, <2>1, <2>2, <2>3 DEF JobInv, Shape
  <2>5. Coverage(new)
    BY <2>1, <2>2, <2>3 DEF JobInv, Coverage, Covers, Follows
  <2>6. FactIsKept(new)
    BY <2>3 DEF FactIsKept
  <2>7. RowIsKnown(new)
    BY <2>1, <2>2, <2>3 DEF JobInv, RowIsKnown, Follows
  <2>8. locked => \A v \in Worker : v # w => job[v].pc = "idle"
    BY <2>1, OthersIdle
  <2> QED
    BY <2>1, <2>4, <2>5, <2>6, <2>7, <2>8, JobStep DEF JobInv
<1> QED
  BY <1>1, <1>2

LEMMA QuietEnds ==
  ASSUME IncrementalInv, NEW w \in Worker,
         FetchNothing(w) \/ MarkGapConflict(w) \/ CommitConflict(w) \/ Fail(w)
  PROVE  IncrementalInv'
  BY EndSteps DEF FetchNothing, MarkGapConflict, CommitConflict, Fail

(* A fact is written: the World Model has that revision, and does not lose a *)
(* later one for good.                                                     *)
LEMMA WriteFactStep ==
  ASSUME IncrementalInv, NEW w \in Worker, WriteFact(w)
  PROVE  IncrementalInv'
<1> DEFINE j == job[w]
           new == [j EXCEPT !.pc = "scan", !.fact = Null]
<1>1. j \in Job /\ JobInv(j) /\ j.pc = "write"
  BY InvIs DEF WriteFact
<1>2. PICK x \in Obj, r \in Nat : j.fact = <<x, r>>
  <2>1. j.fact \in Obj \X Nat
    BY <1>1 DEF JobInv, FactIsKept
  <2> HIDE DEF j
  <2> QED
    BY <2>1
<1>3. /\ known' = [known EXCEPT ![x] = r]
      /\ best' = [best EXCEPT ![x] = IF r > best[x] THEN r ELSE best[x]]
      /\ job' = [job EXCEPT ![w] = new]
      /\ UNCHANGED <<rev, log, head, changes, stamp, now, state, provider, locked>>
  BY <1>2 DEF WriteFact, World, setting, Become
<1>4. /\ r <= rev[x]
      /\ locked /\ r # rev[x] => /\ Trusted => Ahead(x, state.checkpoint)
                                 /\ j.op # "full" => Ahead(x, j.next)
  BY <1>1, <1>2 DEF JobInv, FactIsKept
<1>5. /\ new \in Job /\ new.op = j.op /\ new.pc = "scan" /\ new.base = j.base
      /\ new.next = j.next /\ new.todo = j.todo /\ new.window = j.window
      /\ new.fresh = j.fresh
  <2>1. j \in Job
    BY <1>1
  <2> HIDE DEF j
  <2> QED
    BY <2>1 DEF Job
<1> HIDE DEF new
<1>6. /\ rev \in [Obj -> Nat] /\ known \in [Obj -> Nat] /\ best \in [Obj -> Nat]
      /\ job \in [Worker -> Job]
      /\ \A o \in Obj : best[o] <= rev[o]
  BY InvIs
<1>7. /\ known' \in [Obj -> Nat] /\ best' \in [Obj -> Nat] /\ job' \in [Worker -> Job]
      /\ \A o \in Obj : /\ known'[o] = IF o = x THEN r ELSE known[o]
                        /\ best'[o] = IF o = x /\ r > best[x] THEN r ELSE best[o]
      /\ \A v \in Worker : job'[v] = IF v = w THEN new ELSE job[v]
  BY <1>3, <1>5, <1>6
<1>8. TypeOK'
  BY <1>3, <1>7 DEF IncrementalInv, TypeOK
<1>9. \A o \in Obj : best'[o] <= rev'[o]
  BY <1>3, <1>4, <1>6, <1>7
<1>10. ASSUME NEW o \in Obj, Recorded(o)
       PROVE  Recorded(o)' \/ (locked /\ o = x /\ r # rev[x])
  BY <1>3, <1>4, <1>6, <1>7, <1>10 DEF Recorded
<1>11. r = rev[x] => Recorded(x)'
  BY <1>3, <1>6, <1>7 DEF Recorded
<1>12. \A o \in Obj : \A c : Ahead(o, c)' <=> Ahead(o, c)
  BY <1>3 DEF Ahead, Retained, GapAfter
<1>13. locked => \A v \in Worker : v # w => job[v].pc = "idle"
  BY <1>1, OthersIdle
<1>14. ASSUME NEW v \in Worker
       PROVE  JobInv(job[v])'
  <2>1. PICK y : y = (IF v = w THEN new ELSE job[v])
    OBVIOUS
  <2>2. Shape(y)' /\ RowIsKnown(y)'
    <3>1. CASE v = w
      BY <1>1, <1>3, <1>5, <2>1, <3>1 DEF JobInv, Shape, RowIsKnown, Follows
    <3>2. CASE v # w
      BY <1>3, <2>1, <3>2, InvIs DEF JobInv, Shape, RowIsKnown, Follows
    <3> QED
      BY <3>1, <3>2
  <2>3. Coverage(y)'
    <3> SUFFICES ASSUME Follows(y)
                 PROVE  y.next \in Int /\ y.next <= Horizon /\ \A o \in Obj : Covers(y, o)'
      BY <1>3 DEF Coverage, Horizon, Follows
    <3>1. CASE v = w
      <4>1. Follows(j) /\ j.op # "full"
        BY <1>1, <1>5, <2>1, <3>1 DEF Follows
      <4>2. /\ j.next \in Int /\ j.next <= Horizon
            /\ \A o \in Obj : Covers(j, o)
        BY <1>1, <4>1 DEF JobInv, Coverage
      <4>3. ASSUME NEW o \in Obj
            PROVE  Covers(y, o)'
        <5>1. Ahead(o, j.next) \/ Recorded(o)' \/ o \in j.todo
          <6>1. CASE o = x
            BY <1>4, <1>10, <1>11, <1>2, <4>1, <4>2, <6>1 DEF Covers
          <6>2. CASE o # x
            BY <1>2, <1>10, <4>2, <6>2 DEF Covers
          <6> QED
            BY <6>1, <6>2
        <5> QED
          BY <1>5, <1>12, <2>1, <3>1, <5>1 DEF Covers
      <4> QED
        BY <1>5, <2>1, <3>1, <4>2, <4>3
    <3>2. CASE v # w
      <4>1. ~locked
        BY <1>13, <2>1, <3>2 DEF Follows
      <4>2. /\ y.next \in Int /\ y.next <= Horizon
            /\ \A o \in Obj : Covers(y, o)
        BY <2>1, <3>2, InvIs DEF JobInv, Coverage
      <4>3. \A o \in Obj : Covers(y, o)'
        BY <1>3, <1>10, <1>12, <4>1, <4>2 DEF Covers
      <4> QED
        BY <4>2, <4>3
    <3> QED
      BY <3>1, <3>2
  <2>4. FactIsKept(y)'
    <3>1. CASE v = w
      BY <1>5, <2>1, <3>1 DEF FactIsKept
    <3>2. CASE v # w /\ y.pc = "write"
      <4>1. FactIsKept(y) /\ y.fact[1] \in Obj /\ ~locked
        BY <1>13, <2>1, <3>2, InvIs DEF JobInv, FactIsKept
      <4> QED
        BY <1>3, <4>1 DEF FactIsKept
    <3>3. CASE y.pc # "write"
      BY <3>3 DEF FactIsKept
    <3> QED
      BY <3>1, <3>2, <3>3
  <2>5. JobInv(y)'
    BY <2>2, <2>3, <2>4 DEF JobInv
  <2>6. (job[v] = y /\ JobInv(y) => JobInv(job[v]))'
    BY DEF JobInv, Shape, Coverage, FactIsKept, RowIsKnown, Follows, Covers
  <2> QED
    BY <1>7, <2>1, <2>5, <2>6
<1>15. NoUpdateLost'
  <2> SUFFICES ASSUME Trusted, NEW o \in Obj
               PROVE  Ahead(o, state.checkpoint) \/ Recorded(o)'
    BY <1>3, <1>12 DEF NoUpdateLost, Trusted, Recorded
  <2>1. Ahead(o, state.checkpoint) \/ Recorded(o)
    BY DEF IncrementalInv, NoUpdateLost, Recorded
  <2> QED
    BY <1>4, <1>10, <2>1
<1>16. OneRun'
  BY <1>3, <1>7, <1>13, <1>1 DEF IncrementalInv, OneRun
<1>17. state'.checkpoint # Null => state'.checkpoint <= Horizon'
  BY <1>3 DEF IncrementalInv, Horizon
<1> QED
  BY <1>8, <1>9, <1>14, <1>15, <1>16, <1>17 DEF IncrementalInv

(* A step that moves the row: what other runs know of it is out of date.   *)
LEMMA RowStep ==
  ASSUME IncrementalInv, NEW w \in Worker, job[w].pc # "idle",
         UNCHANGED <<World, known, best, setting>>,
         state' \in Row, state'.version = state.version + 1,
         state.checkpoint # Null => state'.checkpoint # Null,
         state'.checkpoint # Null => state'.checkpoint <= Horizon,
         NoUpdateLost',
         job' \in [Worker -> Job], job'[w] = IdleJob,
         \A v \in Worker : v # w =>
            \E b \in BOOLEAN : job'[v] = [job[v] EXCEPT !.fresh = b]
  PROVE  IncrementalInv'
<1>1. UNCHANGED <<rev, log, head, changes, stamp, now, known, best, provider, locked>>
  BY DEF World, setting
<1>2. TypeOK'
  BY <1>1 DEF IncrementalInv, TypeOK
<1>3. locked => \A v \in Worker : v # w => job[v].pc = "idle"
  BY OthersIdle
<1>4. state.version \in Nat /\ \A v \in Worker : JobInv(job[v]) /\ job[v] \in Job
  BY InvIs
<1>5. \A o \in Obj : \A c : Ahead(o, c)' <=> Ahead(o, c)
  BY <1>1 DEF Ahead, Retained, GapAfter
<1>6. ASSUME NEW v \in Worker, v # w
      PROVE  /\ job'[v].pc = job[v].pc /\ job'[v].op = job[v].op /\ job'[v].base = job[v].base
             /\ job'[v].next = job[v].next /\ job'[v].window = job[v].window
             /\ job'[v].todo = job[v].todo /\ job'[v].fact = job[v].fact
             /\ job'[v] \in Job
  <2> DEFINE j == job[v]
  <2>1. PICK b \in BOOLEAN : job'[v] = [j EXCEPT !.fresh = b]
    BY <1>6
  <2>2. j \in Job
    BY <1>4
  <2> HIDE DEF j
  <2> QED
    BY <2>1, <2>2 DEF Job, j
<1>7. ASSUME NEW v \in Worker
      PROVE  JobInv(job[v])'
  <2>1. CASE v = w
    <3>1. IdleJob \in Job /\ IdleJob.pc = "idle" /\ IdleJob.base = 0 /\ IdleJob.window = Null
      BY DEF IdleJob, Job
    <3>2. state'.version \in Nat
      BY <1>4
    <3> QED
      BY <2>1, <3>1, <3>2 DEF JobInv, Shape, Coverage, FactIsKept, RowIsKnown, Follows
  <2>2. CASE v # w
    <3> DEFINE j == job[v]
    <3>1. JobInv(j) /\ j \in Job /\ (locked => j.pc = "idle")
      BY <1>3, <1>4, <2>2
    <3>2. Shape(j)'
      BY <1>1, <1>6, <2>2, <3>1 DEF JobInv, Shape
    <3>3. Coverage(j)'
      BY <1>1, <1>5, <1>6, <2>2, <3>1 DEF JobInv, Coverage, Covers, Recorded, Follows, Horizon
    <3>4. FactIsKept(j)'
      BY <1>1, <1>6, <2>2, <3>1 DEF JobInv, FactIsKept
    <3>5. RowIsKnown(j)'
      <4>1. j.base \in Nat /\ j.base <= state.version /\ j'.base = j.base
        BY <1>6, <2>2, <3>1 DEF JobInv, RowIsKnown, Job
      <4>2. j'.base <= state'.version /\ j'.base # state'.version
        BY <1>4, <4>1
      <4>3. ~(locked' /\ Follows(j)')
        BY <1>1, <1>6, <2>2, <3>1 DEF Follows
      <4> QED
        BY <4>2, <4>3 DEF RowIsKnown
    <3> QED
      BY <3>2, <3>3, <3>4, <3>5 DEF JobInv
  <2> QED
    BY <2>1, <2>2
<1>8. OneRun'
  <2>1. \A v \in Worker : locked => job'[v].pc = "idle"
    BY <1>3, <1>6 DEF IdleJob
  <2> QED
    BY <1>1, <2>1 DEF OneRun
<1>9. \A o \in Obj : best'[o] <= rev'[o]
  BY <1>1 DEF IncrementalInv
<1>10. state'.checkpoint # Null => state'.checkpoint <= Horizon'
  BY <1>1 DEF Horizon
<1> QED
  BY <1>2, <1>7, <1>8, <1>9, <1>10 DEF IncrementalInv

\* Swap writes the checkpoint and the latch, and counts.
LEMMA SwapIs ==
  ASSUME IncrementalInv, NEW c \in Int \cup {Null}, NEW latched \in BOOLEAN, Swap(c, latched)
  PROVE  /\ state' \in Row /\ state'.version = state.version + 1
         /\ state'.checkpoint = c /\ state'.reconcile = latched
<1>1. state.version + 1 \in Nat
  BY InvIs
<1> QED
  BY <1>1 DEF Swap, Row

LEMMA MarkGapStep ==
  ASSUME IncrementalInv, NEW w \in Worker, MarkGap(w)
  PROVE  /\ IncrementalInv'
         /\ state'.checkpoint = state.checkpoint /\ state'.reconcile = TRUE
<1>1. /\ job[w].pc = "gap" /\ Swap(state.checkpoint, TRUE)
      /\ job' = [v \in Worker |-> IF v = w THEN IdleJob ELSE [job[v] EXCEPT !.fresh = FALSE]]
      /\ UNCHANGED <<World, known, best, setting>>
  BY DEF MarkGap
<1>2. /\ state' \in Row /\ state'.version = state.version + 1
      /\ state'.checkpoint = state.checkpoint /\ state'.reconcile = TRUE
  BY <1>1, InvIs, SwapIs
<1>3. job' \in [Worker -> Job]
  <2>1. ASSUME NEW v \in Worker
        PROVE  [job[v] EXCEPT !.fresh = FALSE] \in Job
    <3> DEFINE j == job[v]
    <3>1. j \in Job
      BY InvIs
    <3> HIDE DEF j
    <3> QED
      BY <3>1 DEF Job, j
  <2>2. IdleJob \in Job
    BY DEF IdleJob, Job
  <2> QED
    BY <1>1, <2>1, <2>2
<1>4. /\ job'[w] = IdleJob
      /\ \A v \in Worker : v # w => \E b \in BOOLEAN : job'[v] = [job[v] EXCEPT !.fresh = b]
  BY <1>1
<1>5. NoUpdateLost'
  BY <1>2 DEF NoUpdateLost, Trusted
<1>6. state'.checkpoint # Null => state'.checkpoint <= Horizon
  BY <1>2, InvIs
<1> QED
  BY <1>1, <1>2, <1>3, <1>4, <1>5, <1>6, RowStep

(* A checkpoint is committed: the run covered every object.                *)
LEMMA CommitStep ==
  ASSUME IncrementalInv, NEW w \in Worker, CommitCheckpoint(w)
  PROVE  /\ IncrementalInv'
         /\ state'.checkpoint = job[w].next /\ state'.reconcile = FALSE
<1> DEFINE j == job[w]
<1>1. /\ j.pc = "commit" /\ Swap(j.next, FALSE) /\ job' = [job EXCEPT ![w] = IdleJob]
      /\ UNCHANGED <<World, known, best, setting>>
  BY DEF CommitCheckpoint, Become
<1>2. j \in Job /\ JobInv(j) /\ job \in [Worker -> Job]
  BY InvIs
<1>3. Follows(j) /\ j.todo = {}
  BY <1>1, <1>2 DEF JobInv, Shape, Follows
<1>4. /\ j.next \in Int /\ j.next <= Horizon
      /\ \A o \in Obj : Ahead(o, j.next) \/ Recorded(o)
  BY <1>1, <1>2, <1>3 DEF JobInv, Coverage, Covers
<1>5. /\ state' \in Row /\ state'.version = state.version + 1
      /\ state'.checkpoint = j.next /\ state'.reconcile = FALSE
  BY <1>1, <1>4, SwapIs
<1>6. /\ job' \in [Worker -> Job] /\ job'[w] = IdleJob
      /\ \A v \in Worker : v # w => \E b \in BOOLEAN : job'[v] = [job[v] EXCEPT !.fresh = b]
  <2>1. IdleJob \in Job
    BY DEF IdleJob, Job
  <2>2. \A v \in Worker :
          job[v] = [job[v] EXCEPT !.fresh = job[v].fresh] /\ job[v].fresh \in BOOLEAN
    BY <1>2 DEF Job
  <2> QED
    BY <1>1, <1>2, <2>1, <2>2
<1>7. NoUpdateLost'
  <2>1. UNCHANGED <<rev, log, head, stamp, known, best, provider, locked>>
    BY <1>1 DEF World, setting
  <2> QED
    BY <1>4, <1>5, <2>1 DEF NoUpdateLost, Recorded, Ahead, Retained, GapAfter
<1>8. j.next # Null
  BY <1>4, IncrementalAssumption
<1> QED
  BY <1>1, <1>4, <1>5, <1>6, <1>7, <1>8, RowStep

-----------------------------------------------------------------------------
(* The theorems.                                                           *)

LEMMA InitIncremental ==
  ASSUME Init
  PROVE  IncrementalInv
<1>1. IdleJob \in Job /\ IdleJob.pc = "idle" /\ IdleJob.base = 0 /\ IdleJob.window = Null
  BY DEF IdleJob, Job
<1>2. /\ rev = [o \in Obj |-> 0] /\ known = rev /\ best = rev
      /\ log = <<>> /\ head = 0 /\ changes = 0 /\ stamp = [o \in Obj |-> -1] /\ now = 0
      /\ state = [checkpoint |-> Null, version |-> 0, reconcile |-> FALSE]
      /\ provider \in Provider /\ locked \in BOOLEAN
      /\ job = [w \in Worker |-> IdleJob]
  BY DEF Init
<1>3. TypeOK
  BY <1>1, <1>2, IncrementalAssumption DEF TypeOK, Row
<1>4. \A w \in Worker : JobInv(job[w])
  BY <1>1, <1>2 DEF JobInv, Shape, Coverage, FactIsKept, RowIsKnown, Follows
<1>5. OneRun /\ NoUpdateLost /\ \A o \in Obj : best[o] <= rev[o]
  BY <1>1, <1>2 DEF OneRun, NoUpdateLost, Trusted
<1> QED
  BY <1>2, <1>3, <1>4, <1>5 DEF IncrementalInv

\* A step of a run that leaves the row of the state alone.
RunStep(w) ==
    \/ \E op \in {"full", "incremental", "bootstrap", "recover"} : Start(w, op)
    \/ FetchNothing(w) \/ FetchPage(w) \/ FetchGap(w) \/ MarkGapConflict(w)
    \/ DiscoverPage(w)
    \/ \E t \in -MaxBehind..(MaxTime + MaxAhead) : DiscoverWindow(w, t)
    \/ \E a \in -MaxBehind..(MaxTime + MaxAhead + MaxChanges) : Anchor(w, a)
    \/ \E o \in job[w].todo : ReadFact(w, o)
    \/ WriteFact(w) \/ ScanDone(w) \/ CommitConflict(w) \/ Fail(w)

WorldMoves ==
    \/ \E O \in SUBSET Obj : FeedChange(O)
    \/ Forget
    \/ \E o \in Obj, t \in -MaxLag..MaxTime : TimedChange(o, t)
    \/ Tick

LEMMA NextIs ==
  ASSUME [Next]_vars
  PROVE  \/ UNCHANGED vars \/ WorldMoves
         \/ \E w \in Worker : RunStep(w) \/ MarkGap(w) \/ CommitCheckpoint(w)
  BY DEF Next, RunStep, WorldMoves

LEMMA RowIsLeftAlone ==
  ASSUME UNCHANGED vars \/ WorldMoves \/ \E w \in Worker : RunStep(w)
  PROVE  state' = state
  BY DEF vars, WorldMoves, FeedChange, Forget, TimedChange, Tick, RunStep, Start, FetchNothing,
         FetchPage, FetchGap, MarkGapConflict, DiscoverPage, DiscoverWindow, Anchor, ReadFact,
         WriteFact, ScanDone, CommitConflict, Fail, Quiet

LEMMA StutterKeeps ==
  ASSUME IncrementalInv, UNCHANGED vars
  PROVE  IncrementalInv'
<1>1. TypeOK'
  BY DEF vars, setting, IncrementalInv, TypeOK
<1>2. \A o \in Obj, c \in Int : Ahead(o, c) => Ahead(o, c)'
  BY DEF vars, setting, Ahead, Retained, GapAfter
<1>3. Horizon' = Horizon /\ rev' = rev /\ stamp' = stamp
      /\ UNCHANGED <<state, known, best, setting, job>>
  BY DEF vars, setting, Horizon
<1> QED
  BY <1>1, <1>2, <1>3, InvIs, WorldStep

LEMMA StepIncremental ==
  ASSUME IncrementalInv, [Next]_vars
  PROVE  IncrementalInv'
<1>1. CASE UNCHANGED vars
  BY <1>1, StutterKeeps
<1>2. CASE WorldMoves
  BY <1>2, WorldSteps DEF WorldMoves
<1>3. ASSUME NEW w \in Worker, RunStep(w)
      PROVE  IncrementalInv'
  <2>1. CASE FetchNothing(w) \/ MarkGapConflict(w) \/ CommitConflict(w) \/ Fail(w)
    BY <2>1, QuietEnds
  <2>2. CASE FetchPage(w) \/ FetchGap(w) \/ DiscoverPage(w)
    BY <2>2, FetchStep, GapStep, DiscoverPageStep
  <2>3. CASE \E t \in -MaxBehind..(MaxTime + MaxAhead) : DiscoverWindow(w, t)
    BY <2>3, DiscoverWindowStep
  <2>4. CASE \E a \in -MaxBehind..(MaxTime + MaxAhead + MaxChanges) : Anchor(w, a)
    BY <2>4, AnchorStep
  <2>5. CASE \E o \in job[w].todo : ReadFact(w, o)
    BY <2>5, ReadFactStep
  <2>6. CASE WriteFact(w) \/ ScanDone(w)
    BY <2>6, WriteFactStep, ScanDoneStep
  <2>7. CASE \E op \in {"full", "incremental", "bootstrap", "recover"} : Start(w, op)
    BY <2>7, StartStep
  <2> QED
    BY <1>3, <2>1, <2>2, <2>3, <2>4, <2>5, <2>6, <2>7 DEF RunStep
<1> QED
  BY <1>1, <1>2, <1>3, NextIs, MarkGapStep, CommitStep

LEMMA IncrementalInvHolds == Spec => []IncrementalInv
<1>1. Init => IncrementalInv
  BY InitIncremental
<1>2. IncrementalInv /\ [Next]_vars => IncrementalInv'
  BY StepIncremental
<1> QED
  BY <1>1, <1>2, PTL DEF Spec

(* Whatever is interrupted, purged, stamped late or read off a fast clock, *)
(* a change that a trusted checkpoint has passed is in the World Model     *)
(* (SyncEngine.sync_incremental, NextcloudActivityIncrementalSync,         *)
(* ImmichIncrementalSync).                                                 *)
THEOREM NoUpdateIsLost == Spec => []NothingLost
<1>1. IncrementalInv => NothingLost
  BY DEF IncrementalInv, NothingLost
<1> QED
  BY <1>1, IncrementalInvHolds, PTL

(* A trusted checkpoint never moves back, but for a feed's when its runs   *)
(* hold no lock (the compare-and-swap of _cas; run_incremental).           *)
THEOREM CheckpointsAdvance == Spec => CheckpointNeverRegresses
<1> DEFINE A == (provider = "immich" \/ locked) /\ Trusted
                  => state'.checkpoint >= state.checkpoint
<1>1. IncrementalInv /\ [Next]_vars => [A]_vars
  <2> SUFFICES ASSUME IncrementalInv, [Next]_vars, provider = "immich" \/ locked, Trusted
               PROVE  state'.checkpoint >= state.checkpoint
    OBVIOUS
  <2>1. state.checkpoint \in Int
    BY InvIs DEF Trusted
  <2>2. CASE state' = state
    BY <2>1, <2>2
  <2>3. ASSUME NEW w \in Worker, CommitCheckpoint(w)
        PROVE  state'.checkpoint >= state.checkpoint
    <3> DEFINE j == job[w]
    <3>1. /\ j.pc = "commit" /\ state.version = j.base /\ state.reconcile = (j.op = "recover")
      BY <2>3 DEF CommitCheckpoint, CanSwap
    <3>2. JobInv(j) /\ j \in Job
      BY InvIs
    <3>3. j.op = "incremental" /\ Follows(j)
      BY <3>1, <3>2 DEF Trusted, JobInv, Shape, RowIsKnown, Follows, Job
    <3>4. j.next >= state.checkpoint
      BY <3>1, <3>2, <3>3 DEF JobInv, RowIsKnown
    <3> QED
      BY <2>3, <3>4, CommitStep
  <2>4. ASSUME NEW w \in Worker, MarkGap(w)
        PROVE  state'.checkpoint >= state.checkpoint
    <3>1. state'.checkpoint = state.checkpoint
      BY <2>4, MarkGapStep
    <3> QED
      BY <2>1, <3>1
  <2> QED
    BY <2>2, <2>3, <2>4, NextIs, RowIsLeftAlone
<1>2. Spec => [][A]_vars
  BY <1>1, IncrementalInvHolds, PTL DEF Spec
<1> QED
  BY <1>2 DEF CheckpointNeverRegresses

(* The latch is released only by a recovery that began under it            *)
(* (recover_after_reconciliation).                                         *)
THEOREM LatchesOutliveTheirGaps == Spec => LatchOutlivesItsGap
<1> DEFINE A == state.reconcile /\ ~ state'.reconcile =>
                  \E w \in Worker : /\ job[w].pc = "commit" /\ job[w].op = "recover"
                                    /\ job[w].fresh
<1>1. IncrementalInv /\ [Next]_vars => [A]_vars
  <2> SUFFICES ASSUME IncrementalInv, [Next]_vars, state.reconcile, ~ state'.reconcile
               PROVE  \E w \in Worker : /\ job[w].pc = "commit" /\ job[w].op = "recover"
                                        /\ job[w].fresh
    OBVIOUS
  <2>1. PICK w \in Worker : CommitCheckpoint(w)
    BY NextIs, RowIsLeftAlone, MarkGapStep
  <2>2. /\ job[w].pc = "commit" /\ state.version = job[w].base
        /\ state.reconcile = (job[w].op = "recover")
    BY <2>1 DEF CommitCheckpoint, CanSwap
  <2>3. job[w].op = "recover"
    BY <2>2
  <2>4. job[w].fresh
    BY <2>2, <2>3, InvIs DEF JobInv, RowIsKnown
  <2> QED
    BY <2>2, <2>3, <2>4
<1>2. Spec => [][A]_vars
  BY <1>1, IncrementalInvHolds, PTL DEF Spec
<1> QED
  BY <1>2 DEF LatchOutlivesItsGap

-----------------------------------------------------------------------------
(* The search: what inserting and removing do to a sequence.                           *)

LEMMA InsertAtIs ==
  ASSUME NEW S, NEW s \in Seq(S), NEW e \in S, NEW i \in 1..(Len(s) + 1)
  PROVE  /\ InsertAt(s, i, e) \in Seq(S)
         /\ Len(InsertAt(s, i, e)) = Len(s) + 1
         /\ \A j \in 1..(i - 1) : InsertAt(s, i, e)[j] = s[j]
         /\ InsertAt(s, i, e)[i] = e
         /\ \A j \in (i + 1)..(Len(s) + 1) : InsertAt(s, i, e)[j] = s[j - 1]
<1> DEFINE l == SubSeq(s, 1, i - 1)
           le == l \o <<e>>
           r == SubSeq(s, i, Len(s))
<1>1. Len(s) \in Nat /\ i \in Int /\ 1 =< i /\ i =< Len(s) + 1
  OBVIOUS
<1>2. /\ l \in Seq(S) /\ Len(l) = i - 1
      /\ \A j \in 1..(i - 1) : l[j] = s[j]
  BY <1>1, SubSeqIs
<1>3. /\ r \in Seq(S) /\ Len(r) = Len(s) - i + 1
      /\ \A j \in 1..(Len(s) - i + 1) : r[j] = s[i + j - 1]
  BY <1>1, SubSeqIs
<1>4. InsertAt(s, i, e) = le \o r
  BY DEF InsertAt
<1> HIDE DEF l, r
<1>5. /\ le \in Seq(S) /\ Len(le) = i
      /\ \A j \in 1..(i - 1) : le[j] = s[j]
      /\ le[i] = e
  BY <1>1, <1>2
<1> HIDE DEF le
<1>6. /\ le \o r \in Seq(S) /\ Len(le \o r) = Len(s) + 1
      /\ \A j \in 1..i : (le \o r)[j] = le[j]
      /\ \A j \in 1..(Len(s) - i + 1) : (le \o r)[i + j] = r[j]
  BY <1>1, <1>3, <1>5, ConcatIs
<1>7. ASSUME NEW j \in (i + 1)..(Len(s) + 1)
      PROVE  (le \o r)[j] = s[j - 1]
  <2> DEFINE m == j - i
  <2>1. m \in 1..(Len(s) - i + 1) /\ i + m = j /\ i + m - 1 = j - 1
    BY <1>1
  <2> HIDE DEF m
  <2>2. (le \o r)[i + m] = r[m] /\ r[m] = s[i + m - 1]
    BY <1>3, <1>6, <2>1
  <2> QED
    BY <2>1, <2>2
<1>8. i \in 1..i /\ \A j \in 1..(i - 1) : j \in 1..i
  BY <1>1
<1> QED
  BY <1>4, <1>5, <1>6, <1>7, <1>8

-----------------------------------------------------------------------------
(* The same on sequences without repetitions, and what they list.          *)

LEMMA ToSetIs ==
  ASSUME NEW S, NEW s \in Seq(S)
  PROVE  /\ ToSet(s) \subseteq S
         /\ \A i \in 1..Len(s) : s[i] \in ToSet(s)
         /\ \A x \in ToSet(s) : \E i \in 1..Len(s) : x = s[i]
  BY DEF ToSet

LEMMA RemoveAtKeepsDistinct ==
  ASSUME NEW S, NEW s \in Seq(S), NEW i \in 1..Len(s), Distinct(s)
  PROVE  /\ Distinct(RemoveAt(s, i))
         /\ ToSet(RemoveAt(s, i)) = ToSet(s) \ {s[i]}
<1> DEFINE t == RemoveAt(s, i)
<1>1. /\ t \in Seq(S) /\ Len(t) = Len(s) - 1
      /\ \A j \in 1..(i - 1) : t[j] = s[j]
      /\ \A j \in i..(Len(s) - 1) : t[j] = s[j + 1]
  BY RemoveAtIs
<1> HIDE DEF t
<1>2. Len(s) \in Nat /\ i \in Int /\ 1 =< i /\ i =< Len(s)
  OBVIOUS
<1>3. \A j, k \in 1..Len(s) : s[j] = s[k] => j = k
  BY DEF Distinct
<1> DEFINE at(j) == IF j < i THEN j ELSE j + 1
<1>4. \A j \in 1..Len(t) : at(j) \in 1..Len(s) /\ at(j) # i /\ t[j] = s[at(j)]
  BY <1>1, <1>2
<1>5. \A j, k \in 1..Len(t) : at(j) = at(k) => j = k
  BY <1>1, <1>2
<1>6. \A k \in 1..Len(s) : k # i => \E j \in 1..Len(t) : at(j) = k
  <2> SUFFICES ASSUME NEW k \in 1..Len(s), k # i
               PROVE  \E j \in 1..Len(t) : at(j) = k
    OBVIOUS
  <2>1. CASE k < i
    <3> k \in 1..Len(t) /\ at(k) = k
      BY <1>1, <1>2, <2>1
    <3> QED
      OBVIOUS
  <2>2. CASE ~ (k < i)
    <3> k - 1 \in 1..Len(t) /\ at(k - 1) = k
      BY <1>1, <1>2, <2>2
    <3> QED
      OBVIOUS
  <2> QED
    BY <2>1, <2>2
<1> HIDE DEF at
<1>7. \A j, k \in 1..Len(t) : t[j] = t[k] => j = k
  BY <1>3, <1>4, <1>5
<1>8. Distinct(t)
  BY <1>1, <1>7 DEF Distinct
<1>9. ToSet(t) \subseteq ToSet(s) \ {s[i]}
  <2> SUFFICES ASSUME NEW x \in ToSet(t)
               PROVE  x \in ToSet(s) /\ x # s[i]
    OBVIOUS
  <2>1. PICK j \in 1..Len(t) : x = t[j]
    BY <1>1, ToSetIs
  <2>2. at(j) \in 1..Len(s) /\ at(j) # i /\ x = s[at(j)]
    BY <1>4, <2>1
  <2> QED
    BY <1>3, <2>2, ToSetIs
<1>10. ToSet(s) \ {s[i]} \subseteq ToSet(t)
  <2> SUFFICES ASSUME NEW x \in ToSet(s), x # s[i]
               PROVE  x \in ToSet(t)
    OBVIOUS
  <2>1. PICK k \in 1..Len(s) : x = s[k]
    BY ToSetIs
  <2>2. PICK j \in 1..Len(t) : at(j) = k
    BY <1>6, <2>1
  <2> QED
    BY <1>1, <1>4, <2>1, <2>2, ToSetIs
<1> QED
  BY <1>8, <1>9, <1>10 DEF t

LEMMA InsertAtKeepsDistinct ==
  ASSUME NEW S, NEW s \in Seq(S), NEW e \in S, NEW i \in 1..(Len(s) + 1),
         Distinct(s), e \notin ToSet(s)
  PROVE  /\ Distinct(InsertAt(s, i, e))
         /\ ToSet(InsertAt(s, i, e)) = ToSet(s) \cup {e}
<1> DEFINE t == InsertAt(s, i, e)
<1>1. /\ t \in Seq(S) /\ Len(t) = Len(s) + 1
      /\ \A j \in 1..(i - 1) : t[j] = s[j]
      /\ t[i] = e
      /\ \A j \in (i + 1)..(Len(s) + 1) : t[j] = s[j - 1]
  BY InsertAtIs
<1> HIDE DEF t
<1>2. Len(s) \in Nat /\ i \in Int /\ 1 =< i /\ i =< Len(s) + 1
  OBVIOUS
<1>3. \A j, k \in 1..Len(s) : s[j] = s[k] => j = k
  BY DEF Distinct
<1> DEFINE from(j) == IF j < i THEN j ELSE j - 1
<1>4. \A j \in 1..Len(t) : j # i => from(j) \in 1..Len(s) /\ t[j] = s[from(j)]
  BY <1>1, <1>2
<1>5. \A j, k \in 1..Len(t) : j # i /\ k # i /\ from(j) = from(k) => j = k
  BY <1>1, <1>2
<1>6. \A k \in 1..Len(s) : \E j \in 1..Len(t) : j # i /\ from(j) = k
  <2> SUFFICES ASSUME NEW k \in 1..Len(s)
               PROVE  \E j \in 1..Len(t) : j # i /\ from(j) = k
    OBVIOUS
  <2>1. CASE k < i
    <3> k \in 1..Len(t) /\ k # i /\ from(k) = k
      BY <1>1, <1>2, <2>1
    <3> QED
      OBVIOUS
  <2>2. CASE ~ (k < i)
    <3> k + 1 \in 1..Len(t) /\ k + 1 # i /\ from(k + 1) = k
      BY <1>1, <1>2, <2>2
    <3> QED
      OBVIOUS
  <2> QED
    BY <2>1, <2>2
<1>7. i \in 1..Len(t)
  BY <1>1, <1>2
<1> HIDE DEF from
<1>8. \A j \in 1..Len(t) : j # i => t[j] \in ToSet(s)
  BY <1>4, ToSetIs
<1>9. \A j, k \in 1..Len(t) : t[j] = t[k] => j = k
  BY <1>1, <1>3, <1>4, <1>5, <1>8
<1>10. Distinct(t)
  BY <1>1, <1>9 DEF Distinct
<1>11. ToSet(t) \subseteq ToSet(s) \cup {e}
  BY <1>1, <1>8, ToSetIs
<1>12. ToSet(s) \cup {e} \subseteq ToSet(t)
  <2>1. e \in ToSet(t)
    BY <1>1, <1>7, ToSetIs
  <2>2. ASSUME NEW x \in ToSet(s)
        PROVE  x \in ToSet(t)
    <3>1. PICK k \in 1..Len(s) : x = s[k]
      BY ToSetIs
    <3>2. PICK j \in 1..Len(t) : j # i /\ from(j) = k
      BY <1>6, <3>1
    <3> QED
      BY <1>1, <1>4, <3>1, <3>2, ToSetIs
  <2> QED
    BY <2>1, <2>2
<1> QED
  BY <1>10, <1>11, <1>12 DEF t

LEMMA ConcatKeepsDistinct ==
  ASSUME NEW S, NEW l \in Seq(S), NEW r \in Seq(S)
  PROVE  /\ ToSet(l \o r) = ToSet(l) \cup ToSet(r)
         /\ Distinct(l) /\ Distinct(r) /\ ToSet(r) \cap ToSet(l) = {}
              => Distinct(l \o r)
<1> DEFINE t == l \o r
<1>1. /\ t \in Seq(S) /\ Len(t) = Len(l) + Len(r)
      /\ \A j \in 1..Len(l) : t[j] = l[j]
      /\ \A j \in 1..Len(r) : t[Len(l) + j] = r[j]
  BY ConcatIs
<1> HIDE DEF t
<1>2. Len(l) \in Nat /\ Len(r) \in Nat
  OBVIOUS
<1>3. \A j \in 1..Len(t) :
        \/ j \in 1..Len(l) /\ t[j] = l[j]
        \/ /\ j > Len(l) /\ j - Len(l) \in 1..Len(r)
           /\ t[j] = r[j - Len(l)]
  <2> SUFFICES ASSUME NEW j \in 1..Len(t), j > Len(l)
               PROVE  /\ j - Len(l) \in 1..Len(r)
                      /\ t[j] = r[j - Len(l)]
    BY <1>1, <1>2
  <2> DEFINE m == j - Len(l)
  <2>1. m \in 1..Len(r) /\ Len(l) + m = j
    BY <1>1, <1>2
  <2> HIDE DEF m
  <2>2. m \in 1..Len(r) /\ t[j] = r[m]
    BY <1>1, <2>1
  <2> QED
    BY <2>2 DEF m
<1>4. ToSet(t) \subseteq ToSet(l) \cup ToSet(r)
  <2> SUFFICES ASSUME NEW x \in ToSet(t)
               PROVE  x \in ToSet(l) \/ x \in ToSet(r)
    OBVIOUS
  <2>1. PICK j \in 1..Len(t) : x = t[j]
    BY <1>1, ToSetIs
  <2>2. CASE j \in 1..Len(l) /\ t[j] = l[j]
    BY <2>1, <2>2, ToSetIs
  <2>3. CASE j - Len(l) \in 1..Len(r) /\ t[j] = r[j - Len(l)]
    BY <2>1, <2>3, ToSetIs
  <2> QED
    BY <1>3, <2>2, <2>3
<1>5. ToSet(l) \cup ToSet(r) \subseteq ToSet(t)
  <2>1. ASSUME NEW x \in ToSet(l)
        PROVE  x \in ToSet(t)
    <3>1. PICK j \in 1..Len(l) : x = l[j]
      BY ToSetIs
    <3>2. j \in 1..Len(t)
      BY <1>1, <1>2
    <3> QED
      BY <1>1, <3>1, <3>2, ToSetIs
  <2>2. ASSUME NEW x \in ToSet(r)
        PROVE  x \in ToSet(t)
    <3>1. PICK j \in 1..Len(r) : x = r[j]
      BY ToSetIs
    <3>2. Len(l) + j \in 1..Len(t)
      BY <1>1, <1>2
    <3> QED
      BY <1>1, <3>1, <3>2, ToSetIs
  <2> QED
    BY <2>1, <2>2
<1>6. ASSUME Distinct(l), Distinct(r), ToSet(r) \cap ToSet(l) = {},
             NEW j \in 1..Len(t), NEW k \in 1..Len(t), t[j] = t[k]
      PROVE  j = k
  <2>1. /\ \A m, n \in 1..Len(l) : l[m] = l[n] => m = n
        /\ \A m, n \in 1..Len(r) : r[m] = r[n] => m = n
    BY <1>6 DEF Distinct
  <2>2. \A m \in 1..Len(l), n \in 1..Len(r) : l[m] # r[n]
    BY <1>6, ToSetIs
  <2>3. CASE j \in 1..Len(l) /\ t[j] = l[j]
    BY <1>3, <1>6, <2>1, <2>2, <2>3
  <2>4. CASE j - Len(l) \in 1..Len(r) /\ t[j] = r[j - Len(l)]
    <3>1. k - Len(l) \in 1..Len(r) /\ t[k] = r[k - Len(l)]
      BY <1>3, <1>6, <2>2, <2>4
    <3>2. j - Len(l) = k - Len(l)
      BY <1>6, <2>1, <2>4, <3>1
    <3> QED
      BY <1>2, <3>2
  <2> QED
    BY <1>3, <2>3, <2>4
<1> QED
  BY <1>1, <1>4, <1>5, <1>6 DEF Distinct, t

LEMMA DistinctCount ==
  ASSUME NEW S, NEW s \in Seq(S), Distinct(s)
  PROVE  IsFiniteSet(ToSet(s)) /\ Cardinality(ToSet(s)) = Len(s)
<1>1. Len(s) \in Nat /\ DOMAIN s = 1..Len(s)
  OBVIOUS
<1>2. /\ IsFiniteSet(1..Len(s))
      /\ Cardinality(1..Len(s)) = Len(s)
  BY <1>1, FS_Interval
<1>3. s \in [1..Len(s) -> ToSet(s)]
  BY <1>1, ToSetIs
<1>4. s \in Bijection(1..Len(s), ToSet(s))
  BY <1>1, <1>3, ToSetIs
     DEF Bijection, Injection, Surjection, IsInjective, Distinct
<1> QED
  BY <1>2, <1>4, FS_Bijection DEF ExistsBijection

-----------------------------------------------------------------------------
(* The page a step reads.                                                  *)

LEMMA PageIs ==
  ASSUME SearchTypeOK
  PROVE  /\ Items \in Seq(Asset)
         /\ ToSet(Items) \subseteq ToSet(result)
         /\ Distinct(result) => Distinct(Items)
         /\ HasNext => (page - 1) * PageSize + Len(Items) = page * PageSize
         /\ ~ HasNext => (page - 1) * PageSize + Len(Items) >= Len(result)
<1> DEFINE lo == (page - 1) * PageSize
           hi == page * PageSize
           n == IF hi < Len(result) THEN hi ELSE Len(result)
<1>1. result \in Seq(Asset) /\ Len(result) \in Nat
  BY DEF SearchTypeOK
<1>2. page \in Nat /\ page >= 1 /\ PageSize \in Nat /\ PageSize >= 1
  BY ImmichSearchAssumption DEF SearchTypeOK
<1>3. lo \in Nat /\ hi \in Nat /\ hi = lo + PageSize
  <2>1. page - 1 \in Nat
    BY <1>2
  <2>2. \A p, q \in Nat : p * q \in Nat /\ (p + 1) * q = p * q + q
    BY SMT
  <2>3. page = (page - 1) + 1
    BY <1>2
  <2> QED
    BY <1>2, <2>1, <2>2, <2>3
<1>4. Items = SubSeq(result, lo + 1, n) /\ (HasNext <=> hi < Len(result))
  BY DEF Items, HasNext
<1> HIDE DEF lo, hi
<1>5. n \in 0..Len(result)
  BY <1>1, <1>3
<1>6. CASE lo >= n
  <2>1. Items = <<>>
    BY <1>1, <1>3, <1>4, <1>5, <1>6, SubSeqEmpty
  <2>2. ~ HasNext /\ lo >= Len(result)
    BY <1>1, <1>2, <1>3, <1>4, <1>6
  <2>3. ToSet(Items) = {} /\ Distinct(Items) /\ Items \in Seq(Asset)
    BY <2>1 DEF ToSet, Distinct
  <2>4. Len(Items) = 0
    BY <2>1
  <2> QED
    BY <1>1, <1>3, <2>2, <2>3, <2>4 DEF lo, hi
<1>7. CASE lo < n
  <2>1. /\ Items \in Seq(Asset) /\ Len(Items) = n - lo
        /\ \A j \in 1..(n - lo) : Items[j] = result[lo + j]
    <3>1. lo + 1 \in 1..(Len(result) + 1) /\ lo + 1 =< n + 1
      BY <1>1, <1>3, <1>5, <1>7
    <3>2. /\ SubSeq(result, lo + 1, n) \in Seq(Asset)
          /\ Len(SubSeq(result, lo + 1, n)) = n - (lo + 1) + 1
          /\ \A j \in 1..(n - (lo + 1) + 1) :
               SubSeq(result, lo + 1, n)[j] = result[lo + 1 + j - 1]
      BY <1>1, <1>5, <3>1, SubSeqIs
    <3> n \in Int /\ lo \in Int
      BY <1>1, <1>3, <1>5
    <3> HIDE DEF n
    <3>3. n - (lo + 1) + 1 = n - lo
      OBVIOUS
    <3>4. \A j \in 1..(n - lo) : SubSeq(result, lo + 1, n)[j] = result[lo + j]
      <4> SUFFICES ASSUME NEW j \in 1..(n - lo)
                   PROVE  SubSeq(result, lo + 1, n)[j] = result[lo + j]
        OBVIOUS
      <4>1. lo + 1 + j - 1 = lo + j
        OBVIOUS
      <4> QED
        BY <3>2, <3>3, <4>1
    <3> QED
      BY <1>4, <3>2, <3>3, <3>4
  <2>2. \A j \in 1..Len(Items) : lo + j \in 1..Len(result) /\ Items[j] = result[lo + j]
    BY <1>1, <1>3, <1>5, <2>1
  <2>3. ToSet(Items) \subseteq ToSet(result)
    <3> SUFFICES ASSUME NEW x \in ToSet(Items)
                 PROVE  x \in ToSet(result)
      OBVIOUS
    <3>1. PICK j \in 1..Len(Items) : x = Items[j]
      BY <2>1, ToSetIs
    <3> QED
      BY <1>1, <2>2, <3>1, ToSetIs
  <2>4. ASSUME Distinct(result)
        PROVE  Distinct(Items)
    <3>1. \A j, k \in 1..Len(result) : result[j] = result[k] => j = k
      BY <1>1, <2>4 DEF Distinct
    <3>2. \A j, k \in 1..Len(Items) : Items[j] = Items[k] => lo + j = lo + k
      BY <2>2, <3>1
    <3>3. \A j, k \in Int : lo + j = lo + k => j = k
      BY <1>3
    <3> QED
      BY <2>1, <3>2, <3>3 DEF Distinct
  <2>5. HasNext => lo + Len(Items) = hi
    BY <1>1, <1>3, <1>4, <1>5, <2>1
  <2>6. ~ HasNext => lo + Len(Items) >= Len(result)
    BY <1>1, <1>3, <1>4, <1>5, <2>1
  <2> QED
    BY <2>1, <2>3, <2>4, <2>5, <2>6 DEF lo, hi
<1> QED
  BY <1>1, <1>3, <1>5, <1>6, <1>7

LEMMA PageCount ==
  ASSUME SearchTypeOK
  PROVE  ((page + 1) - 1) * PageSize = page * PageSize
  BY ImmichSearchAssumption DEF SearchTypeOK

-----------------------------------------------------------------------------
(* SearchInv is inductive.                                                 *)

LEMMA InitSearchInv == SearchInit => SearchInv
<1> SUFFICES ASSUME SearchInit PROVE SearchInv
  OBVIOUS
<1>0. PICK A \in SUBSET Asset : \E s \in SetToSeqs(A) : Begin(s)
  BY DEF SearchInit
<1>1. PICK s \in SetToSeqs(A) : Begin(s)
  BY <1>0
<1>2. Cardinality(A) \in Nat
  BY ImmichSearchAssumption, FS_Subset, FS_CardinalityType
<1>3. s \in Seq(Asset) /\ Distinct(s)
  <2>1. /\ s \in [1..Cardinality(A) -> A]
        /\ \A i, j \in 1..Cardinality(A) : i # j => s[i] # s[j]
    BY DEF SetToSeqs
  <2>2. s \in Seq(A) /\ Len(s) = Cardinality(A)
    BY <1>2, <2>1
  <2> QED
    BY <2>1, <2>2 DEF Distinct
<1>4. ToSet(s) \subseteq Asset
  BY <1>3, ToSetIs
<1>5. /\ result = s /\ departed = {} /\ stayed = ToSet(s) /\ moves = 0
      /\ pass = "first" /\ page = 1 /\ first = <<>> /\ second = <<>>
  BY <1>1 DEF Begin
<1>6. SearchTypeOK
  BY <1>3, <1>4, <1>5, ImmichSearchAssumption DEF SearchTypeOK
<1>7. Distinct(first) /\ ToSet(first) = {}
  BY <1>5 DEF Distinct, ToSet
<1>8. Len(first) = (page - 1) * PageSize
  BY <1>5, ImmichSearchAssumption
<1> QED
  BY <1>3, <1>5, <1>6, <1>7, <1>8 DEF SearchInv

\* A change of the result leaves the invariant true if what is still there stays
\* without repetition and what left is remembered.
LEMMA ChangeKeeps ==
  ASSUME SearchInv, UNCHANGED search, moves' \in 0..MaxMoves,
         result' \in Seq(Asset), Distinct(result'),
         departed \subseteq departed', departed' \subseteq Asset,
         stayed' \subseteq stayed, stayed' \subseteq ToSet(result'),
         ToSet(result') \cap departed' = {},
         ToSet(result) \subseteq ToSet(result') \cup departed'
  PROVE  SearchInv'
<1>1. /\ pass' = pass /\ page' = page /\ first' = first /\ second' = second
  BY DEF search
<1>2. SearchTypeOK'
  BY <1>1 DEF SearchInv, SearchTypeOK
<1>3. Distinct(first)' /\ Distinct(result)'
  BY <1>1 DEF SearchInv, Distinct
<1>4. ToSet(first') = ToSet(first) /\ ToSet(second') = ToSet(second)
  BY <1>1
<1>5. (pass = "first" =>
         /\ Len(first) = (page - 1) * PageSize
         /\ ToSet(first) \subseteq ToSet(result) \cup departed
         /\ second = <<>>)'
  BY <1>1, <1>4 DEF SearchInv
<1>6. (pass = "second" =>
         \/ stayed \subseteq ToSet(first)
         \/ \E x \in ToSet(first) : x \in departed /\ x \notin ToSet(second))'
  BY <1>1, <1>4 DEF SearchInv
<1>7. (pass = "complete" => stayed \subseteq ToSet(first))'
  BY <1>1, <1>4 DEF SearchInv
<1> QED
  BY <1>2, <1>3, <1>5, <1>6, <1>7 DEF SearchInv

LEMMA EnterKeeps ==
  ASSUME SearchInv, NEW a \in Asset, NEW i \in 1..(Len(result) + 1), Enter(a, i)
  PROVE  SearchInv'
<1>1. /\ result \in Seq(Asset) /\ Distinct(result) /\ a \notin ToSet(result)
      /\ a \notin departed /\ departed \subseteq Asset
      /\ ToSet(result) \cap departed = {} /\ stayed \subseteq ToSet(result)
  BY DEF SearchInv, SearchTypeOK, Enter
<1>2. /\ result' \in Seq(Asset) /\ Distinct(result')
      /\ ToSet(result') = ToSet(result) \cup {a}
  BY <1>1, InsertAtIs, InsertAtKeepsDistinct DEF Enter
<1>3. moves' \in 0..MaxMoves
  BY ImmichSearchAssumption DEF SearchInv, SearchTypeOK, Enter
<1> QED
  BY <1>1, <1>2, <1>3, ChangeKeeps DEF Enter

LEMMA LeaveKeeps ==
  ASSUME SearchInv, NEW i \in DOMAIN result, Leave(i)
  PROVE  SearchInv'
<1>1. /\ result \in Seq(Asset) /\ Distinct(result) /\ departed \subseteq Asset
      /\ ToSet(result) \cap departed = {} /\ stayed \subseteq ToSet(result)
  BY DEF SearchInv, SearchTypeOK
<1>2. i \in 1..Len(result) /\ result[i] \in Asset
  BY <1>1
<1>3. /\ result' \in Seq(Asset) /\ Distinct(result')
      /\ ToSet(result') = ToSet(result) \ {result[i]}
  BY <1>1, <1>2, RemoveAtIs, RemoveAtKeepsDistinct DEF Leave
<1>4. moves' \in 0..MaxMoves
  BY ImmichSearchAssumption DEF SearchInv, SearchTypeOK, Leave
<1>5. departed' = departed \cup {result[i]} /\ stayed' = stayed \ {result[i]}
  BY DEF Leave
<1> QED
  BY <1>1, <1>2, <1>3, <1>4, <1>5, ChangeKeeps DEF Leave

LEMMA MoveKeeps ==
  ASSUME SearchInv, NEW i \in DOMAIN result, NEW j \in DOMAIN result, Move(i, j)
  PROVE  SearchInv'
<1> DEFINE rest == RemoveAt(result, i)
<1>1. /\ result \in Seq(Asset) /\ Distinct(result) /\ departed \subseteq Asset
      /\ ToSet(result) \cap departed = {} /\ stayed \subseteq ToSet(result)
  BY DEF SearchInv, SearchTypeOK
<1>2. /\ i \in 1..Len(result) /\ j \in 1..Len(result) /\ result[i] \in Asset
      /\ result[i] \in ToSet(result) /\ Len(result) \in Nat
  BY <1>1, ToSetIs
<1>3. /\ rest \in Seq(Asset) /\ Len(rest) = Len(result) - 1 /\ Distinct(rest)
      /\ ToSet(rest) = ToSet(result) \ {result[i]}
  BY <1>1, <1>2, RemoveAtIs, RemoveAtKeepsDistinct
<1> HIDE DEF rest
<1>4. j \in 1..(Len(rest) + 1)
  BY <1>2, <1>3
<1>5. /\ InsertAt(rest, j, result[i]) \in Seq(Asset)
      /\ Distinct(InsertAt(rest, j, result[i]))
      /\ ToSet(InsertAt(rest, j, result[i])) = ToSet(rest) \cup {result[i]}
  BY <1>2, <1>3, <1>4, InsertAtIs, InsertAtKeepsDistinct
<1>6. result' \in Seq(Asset) /\ Distinct(result') /\ ToSet(result') = ToSet(result)
  BY <1>2, <1>3, <1>5 DEF Move, rest
<1>7. moves' \in 0..MaxMoves
  BY ImmichSearchAssumption DEF SearchInv, SearchTypeOK, Move
<1> QED
  BY <1>1, <1>6, <1>7, ChangeKeeps DEF Move

\* A pass that stops early disturbs nothing.
LEMMA DriftKeeps ==
  ASSUME SearchInv, pass' = "drift", UNCHANGED <<answer, page, first, second>>
  PROVE  SearchInv'
  BY DEF SearchInv, SearchTypeOK, Distinct, ToSet, answer

LEMMA ReadFirstKeeps ==
  ASSUME SearchInv, ReadFirst
  PROVE  SearchInv'
<1>1. /\ SearchTypeOK /\ Distinct(result) /\ Distinct(first) /\ pass = "first"
      /\ result \in Seq(Asset) /\ first \in Seq(Asset) /\ second = <<>>
      /\ stayed \subseteq ToSet(result) /\ departed \subseteq Asset
      /\ ToSet(result) \cap departed = {}
      /\ Len(first) = (page - 1) * PageSize
      /\ ToSet(first) \subseteq ToSet(result) \cup departed
  BY DEF SearchInv, SearchTypeOK, ReadFirst
<1>2. CASE Drift(first)
  BY <1>2, DriftKeeps DEF Drift
<1>3. CASE /\ ~ Repeated(first)
           /\ first' = first \o Items
           /\ page' = IF HasNext THEN page + 1 ELSE 1
           /\ pass' = IF HasNext THEN "first" ELSE "second"
           /\ UNCHANGED <<answer, second>>
  <2>1. /\ Items \in Seq(Asset) /\ ToSet(Items) \subseteq ToSet(result)
        /\ Distinct(Items) /\ ToSet(Items) \cap ToSet(first) = {}
    BY <1>1, <1>3, PageIs DEF Repeated
  <2>2. /\ first' \in Seq(Asset) /\ Distinct(first')
        /\ ToSet(first') = ToSet(first) \cup ToSet(Items)
        /\ Len(first') = Len(first) + Len(Items)
    BY <1>1, <1>3, <2>1, ConcatIs, ConcatKeepsDistinct
  <2>3. UNCHANGED <<result, departed, stayed, moves, second>>
    BY <1>3 DEF answer
  <2>4. SearchTypeOK'
    BY <1>1, <1>3, <2>2, <2>3 DEF SearchTypeOK
  <2>5. Distinct(result') /\ stayed' \subseteq ToSet(result')
    BY <1>1, <2>3 DEF Distinct
  <2>6. ToSet(result') \cap departed' = {}
    BY <1>1, <2>3
  <2>7. ToSet(first') \subseteq ToSet(result) \cup departed
    BY <1>1, <2>1, <2>2
  <2>8. CASE HasNext
    <3>1. pass' = "first" /\ page' = page + 1
      BY <1>3, <2>8
    <3>2. Len(first') = (page' - 1) * PageSize
      BY <1>1, <2>2, <2>8, <3>1, PageIs, PageCount
    <3> QED
      BY <1>1, <2>2, <2>3, <2>4, <2>5, <2>6, <2>7, <3>1, <3>2 DEF SearchInv
  <2>9. CASE ~ HasNext
    <3>1. pass' = "second"
      BY <1>3, <2>9
    <3>2. CASE ToSet(first') \cap departed = {}
      <4>1. ToSet(first') \in SUBSET ToSet(result)
        BY <2>7, <3>2
      <4>2. /\ IsFiniteSet(ToSet(result))
            /\ Cardinality(ToSet(result)) = Len(result)
            /\ Cardinality(ToSet(first')) = Len(first')
        BY <1>1, <2>2, DistinctCount
      <4>3. Len(first') >= Len(result)
        BY <1>1, <2>2, <2>9, PageIs
      <4>4. Len(first') \in Nat /\ Len(result) \in Nat
        BY <1>1, <2>2
      <4>5. Cardinality(ToSet(first')) =< Cardinality(ToSet(result))
        BY <4>1, <4>2, FS_Subset
      <4>6. Cardinality(ToSet(result)) = Cardinality(ToSet(first'))
        BY <4>2, <4>3, <4>4, <4>5
      <4>7. ToSet(result) = ToSet(first')
        BY <4>1, <4>2, <4>6, FS_Subset
      <4> QED
        BY <1>1, <2>2, <2>3, <2>4, <2>5, <2>6, <3>1, <4>7 DEF SearchInv
    <3>3. CASE ToSet(first') \cap departed # {}
      <4>1. PICK x \in ToSet(first') : x \in departed'
        BY <2>3, <3>3
      <4>2. x \notin ToSet(second')
        BY <1>1, <2>3 DEF ToSet
      <4> QED
        BY <2>2, <2>3, <2>4, <2>5, <2>6, <3>1, <4>1, <4>2 DEF SearchInv
    <3> QED
      BY <3>2, <3>3
  <2> QED
    BY <2>8, <2>9
<1> QED
  BY <1>2, <1>3 DEF ReadFirst

LEMMA ReadSecondKeeps ==
  ASSUME SearchInv, ReadSecond
  PROVE  SearchInv'
<1>1. /\ SearchTypeOK /\ Distinct(result) /\ Distinct(first) /\ pass = "second"
      /\ second \in Seq(Asset)
      /\ stayed \subseteq ToSet(result) /\ ToSet(result) \cap departed = {}
      /\ \/ stayed \subseteq ToSet(first)
         \/ \E x \in ToSet(first) : x \in departed /\ x \notin ToSet(second)
  BY DEF SearchInv, SearchTypeOK, ReadSecond
<1>2. CASE Drift(second)
  BY <1>2, DriftKeeps DEF Drift
<1>3. CASE /\ ~ Repeated(second)
           /\ second' = second \o Items
           /\ page' = IF HasNext THEN page + 1 ELSE 1
           /\ pass' = IF HasNext THEN "second"
                      ELSE IF Same(first, second') THEN "complete" ELSE "drift"
           /\ UNCHANGED <<answer, first>>
  <2>1. Items \in Seq(Asset) /\ ToSet(Items) \subseteq ToSet(result)
    BY <1>1, PageIs
  <2>2. /\ second' \in Seq(Asset)
        /\ ToSet(second') = ToSet(second) \cup ToSet(Items)
    BY <1>1, <1>3, <2>1, ConcatIs, ConcatKeepsDistinct
  <2>3. UNCHANGED <<result, departed, stayed, moves, first>>
    BY <1>3 DEF answer
  <2>4. SearchTypeOK'
    BY <1>1, <1>3, <2>2, <2>3 DEF SearchTypeOK
  <2>5. /\ Distinct(result') /\ Distinct(first') /\ stayed' \subseteq ToSet(result')
        /\ ToSet(result') \cap departed' = {}
    BY <1>1, <2>3 DEF Distinct
  <2>6. \/ stayed' \subseteq ToSet(first')
        \/ \E x \in ToSet(first') : x \in departed' /\ x \notin ToSet(second')
    BY <1>1, <2>1, <2>2, <2>3
  <2>7. pass' = "complete" => stayed' \subseteq ToSet(first')
    <3>1. pass' = "complete" => first' = second'
      BY <1>3, <2>3 DEF Same
    <3> QED
      BY <2>6, <3>1
  <2>8. pass' # "first"
    BY <1>3
  <2> QED
    BY <2>4, <2>5, <2>6, <2>7, <2>8 DEF SearchInv
<1> QED
  BY <1>2, <1>3 DEF ReadSecond

LEMMA AgainKeeps ==
  ASSUME SearchInv, Again
  PROVE  SearchInv'
<1>1. /\ result' = result /\ result \in Seq(Asset) /\ Distinct(result)
      /\ departed' = {} /\ stayed' = ToSet(result) /\ moves' = 0
      /\ pass' = "first" /\ page' = 1 /\ first' = <<>> /\ second' = <<>>
  BY DEF SearchInv, SearchTypeOK, Again
<1>2. stayed' \subseteq Asset
  BY <1>1, ToSetIs
<1>3. SearchTypeOK'
  BY <1>1, <1>2, ImmichSearchAssumption DEF SearchTypeOK
<1>4. Distinct(first') /\ ToSet(first') = {}
  BY <1>1 DEF Distinct, ToSet
<1>5. Len(first') = (page' - 1) * PageSize
  BY <1>1, ImmichSearchAssumption
<1>6. Distinct(result') /\ ToSet(result') = ToSet(result)
  BY <1>1
<1> QED
  BY <1>1, <1>3, <1>4, <1>5, <1>6 DEF SearchInv

\* The inductive invariant of the search, which includes its types: the first
\* pass lists as many assets as its pages hold, and one that left is not in the
\* second (ImmichAdapter._search_metadata, _iter_metadata_assets).
THEOREM SearchInvHolds == SearchSpec => []SearchInv
<1>1. SearchInv /\ [SearchNext]_searchVars => SearchInv'
  <2> SUFFICES ASSUME SearchInv, [SearchNext]_searchVars PROVE SearchInv'
    OBVIOUS
  <2>1. CASE UNCHANGED searchVars
    BY <2>1 DEF SearchInv, SearchTypeOK, Distinct, ToSet, searchVars
  <2> QED
    BY <2>1, EnterKeeps, LeaveKeeps, MoveKeeps, ReadFirstKeeps, ReadSecondKeeps,
       AgainKeeps DEF SearchNext
<1> QED
  BY <1>1, InitSearchInv, PTL DEF SearchSpec

\* For every page size and any number of assets and changes, a search that
\* completes has listed every asset that stayed, each once
\* (ImmichAdapter._search_metadata).
THEOREM SearchMissesNothing == SearchSpec => []SearchIsSound
<1>1. SearchInv => SearchIsSound
  BY DEF SearchInv, SearchIsSound, CompleteSearchMissesNothing
<1> QED
  BY <1>1, SearchInvHolds, PTL
=============================================================================
