-------------------------- MODULE Operations_proofs --------------------------
(***************************************************************************)
(* Proofs that lock, child processes and ledger rows agree, and that a     *)
(* validated enrichment has read its inputs, for any number of runners,    *)
(* pipelines, runs and faults, when the handlers of the runner are set by  *)
(* the time a signal comes and its control group dies with it.             *)
(***************************************************************************)
EXTENDS Operations, SequenceLemmas, FiniteSetTheorems, SequenceTheorems, WellFoundedInduction, TLAPS

-----------------------------------------------------------------------------
(* The inductive invariant: what a runner holds at each of its stages.     *)

UnderLock == {"recover", "begin", "spawn", "unguarded", "wait", "reap", "finish"}
WithRow == {"spawn", "unguarded", "wait", "reap", "finish"}
WithChild == {"unguarded", "wait", "reap"}

Rows == [key : Pipelines, status : Statuses, started : Nat,
         finished : Nat \cup {Unset}, error : Errors \cup {Unset}]
Snapshots == [Providers -> 0..MaxChanges]
States == [at : Stages, key : Pipelines \cup {Unset}, row : Nat, result : Children]

\* One runner is under the lock, and with it the only child.
RunnerHoldsLock ==
    \A r \in Runners :
        /\ lock = r <=> runner[r].at \in UnderLock
        /\ child[r] # "none" => runner[r].at \in WithChild
        /\ runner[r].at # "idle" => runner[r].key \in Pipelines

\* A runner has a row from Begin on, and until its end the row is running.
RunnerHasRow ==
    \A r \in Runners :
        IF runner[r].at \in WithRow
        THEN runner[r].row \in DOMAIN ledger /\ ledger[runner[r].row].status = "running"
        ELSE runner[r].row = 0

RunningIsLatest ==
    \A i, j \in DOMAIN ledger :
        ledger[i].status = "running" /\ ledger[j].key = ledger[i].key => j <= i

HistoryMatches == Len(seen) = Len(ledger) /\ Len(owner) = Len(ledger)

StatusIsRecord ==
    status = [at |-> status.at, latest |-> status.latest, world |-> status.world,
              validated |-> status.validated, last |-> status.last]

OpInv ==
    /\ TypeOK /\ RunnerHoldsLock /\ RunnerHasRow /\ RunningIsLatest
    /\ HistoryMatches /\ StatusIsRecord /\ LostRowNeverBlocks

-----------------------------------------------------------------------------
(* The ledger's operations.                                                *)

LEMMA BeginRunType ==
  ASSUME NEW table \in Seq(Rows), NEW key \in Pipelines, NEW t \in Nat, Unset \notin Nat
  PROVE  /\ BeginRun(table, key, t) \in Seq(Rows)
         /\ Len(BeginRun(table, key, t)) = Len(table) + 1
         /\ \A i \in 1..Len(table) : BeginRun(table, key, t)[i] = table[i]
         /\ LET row == BeginRun(table, key, t)[Len(table) + 1]
            IN  row.key = key /\ row.status = "running" /\ row.finished = Unset /\ row.error = Unset
<1> DEFINE row == [key |-> key, status |-> "running", started |-> t, finished |-> Unset,
                   error |-> Unset]
<1>1. row \in Rows
  BY DEF Rows, Statuses
<1>2. BeginRun(table, key, t) = Append(table, row)
  BY DEF BeginRun
<1>3. row.key = key /\ row.status = "running" /\ row.finished = Unset /\ row.error = Unset
  OBVIOUS
<1> HIDE DEF row
<1> QED
  BY <1>1, <1>2, <1>3

LEMMA FinishRunType ==
  ASSUME NEW table \in Seq(Rows), NEW i \in DOMAIN table, NEW t \in Nat,
         NEW new, new \in {CompleteRun(table, i, t), FailRun(table, i, t)}, Unset \notin Nat,
         Unset \notin Errors
  PROVE  /\ new \in Seq(Rows) /\ Len(new) = Len(table)
         /\ \A j \in DOMAIN table : new[j].key = table[j].key
         /\ \A j \in DOMAIN table : j # i => new[j] = table[j]
         /\ new[i].status # "running" /\ new[i].error # "interrupted_previous_run"
         /\ LifecycleCheck(new[i])
<1>1. table[i] \in Rows
  OBVIOUS
<1>2. PICK row : /\ new = [table EXCEPT ![i] = row]
                 /\ row \in Rows /\ row.key = table[i].key
                 /\ row.status # "running" /\ row.error # "interrupted_previous_run"
                 /\ LifecycleCheck(row)
  <2>1. CASE new = CompleteRun(table, i, t)
    <3> DEFINE row == Finished(table[i], "completed", Unset, t)
    <3>1. row \in Rows /\ row.key = table[i].key /\ row.status = "completed"
          /\ row.error = Unset /\ row.finished = t
      BY <1>1 DEF Finished, Rows, Statuses
    <3>2. new = [table EXCEPT ![i] = row]
      BY <2>1 DEF CompleteRun
    <3> HIDE DEF row
    <3>3. Unset # "interrupted_previous_run" /\ t # Unset
      BY DEF Errors
    <3> QED
      BY <3>1, <3>2, <3>3 DEF LifecycleCheck
  <2>2. CASE new = FailRun(table, i, t)
    <3> DEFINE row == Finished(table[i], "failed", "execution_failed", t)
    <3>1. row \in Rows /\ row.key = table[i].key /\ row.status = "failed"
          /\ row.error = "execution_failed" /\ row.finished = t
      BY <1>1 DEF Finished, Rows, Statuses, Errors
    <3>2. new = [table EXCEPT ![i] = row]
      BY <2>2 DEF FailRun
    <3> HIDE DEF row
    <3>3. Unset # "execution_failed" /\ t # Unset
      BY DEF Errors
    <3> QED
      BY <3>1, <3>2, <3>3 DEF LifecycleCheck
  <2> QED
    BY <2>1, <2>2
<1>3. new \in Seq(Rows) /\ Len(new) = Len(table)
  BY <1>2, ExceptSeq
<1>4. \A j \in DOMAIN table : new[j] = IF j = i THEN row ELSE table[j]
  BY <1>2
<1> QED
  BY <1>2, <1>3, <1>4

LEMMA FailInterruptedType ==
  ASSUME NEW table \in Seq(Rows), NEW key, NEW t \in Nat, Unset \notin Nat, Unset \notin Errors
  PROVE  LET new == FailInterruptedRun(table, key, t)
         IN  /\ new \in Seq(Rows) /\ Len(new) = Len(table) /\ DOMAIN new = DOMAIN table
             /\ \A j \in DOMAIN table :
                  /\ new[j].key = table[j].key
                  /\ new[j].status = "running" => new[j] = table[j] /\ table[j].key # key
                  /\ new[j] # table[j] => table[j].status = "running"
                  /\ LifecycleCheck(table[j]) => LifecycleCheck(new[j])
<1> DEFINE new == FailInterruptedRun(table, key, t)
           Failed(j) == Finished(table[j], "failed", "interrupted_previous_run", t)
<1>1. DOMAIN new = 1..Len(table) /\ DOMAIN table = 1..Len(table) /\ Len(table) \in Nat
  BY DEF FailInterruptedRun
<1>2. ASSUME NEW j \in DOMAIN table
      PROVE  /\ table[j] \in Rows /\ Failed(j) \in Rows /\ Failed(j).key = table[j].key
             /\ Failed(j).status = "failed" /\ Failed(j).finished = t
             /\ Failed(j).error = "interrupted_previous_run"
  <2> DEFINE row == table[j]
             new_row == Finished(row, "failed", "interrupted_previous_run", t)
  <2>1. row \in Rows
    OBVIOUS
  <2> HIDE DEF row
  <2>2. /\ new_row \in Rows /\ new_row.key = row.key /\ new_row.status = "failed"
        /\ new_row.finished = t /\ new_row.error = "interrupted_previous_run"
    BY <2>1 DEF Finished, Rows, Statuses, Errors
  <2> QED
    BY <2>1, <2>2 DEF row
<1>3. ASSUME NEW j \in DOMAIN table
      PROVE  new[j] = IF table[j].key = key /\ table[j].status = "running"
                      THEN Failed(j) ELSE table[j]
  BY DEF FailInterruptedRun, Running
<1> HIDE DEF new, Failed
<1>4. new \in [1..Len(table) -> Rows]
  <2>1. \A j \in 1..Len(table) : new[j] \in Rows
    BY <1>1, <1>2, <1>3
  <2>2. new = [j \in DOMAIN new |-> new[j]]
    BY DEF new, FailInterruptedRun
  <2> QED
    BY <1>1, <2>1, <2>2
<1>5. new \in Seq(Rows) /\ Len(new) = Len(table)
  BY <1>1, <1>4, SeqDef, LenProperties
<1>6. "interrupted_previous_run" # Unset /\ t # Unset
  BY DEF Errors
<1>7. ASSUME NEW j \in DOMAIN table
      PROVE  /\ new[j].key = table[j].key
             /\ new[j].status = "running" => new[j] = table[j] /\ table[j].key # key
             /\ new[j] # table[j] => table[j].status = "running"
             /\ LifecycleCheck(table[j]) => LifecycleCheck(new[j])
  BY <1>2, <1>3, <1>6 DEF LifecycleCheck
<1> QED
  BY <1>1, <1>5, <1>7 DEF new

-----------------------------------------------------------------------------
(* The steps.                                                              *)

LEMMA InitHolds ==
  ASSUME Init
  PROVE  OpInv
<1> USE OperationsAssumption DEF Init
<1>1. TypeOK
  BY DEF TypeOK, Idle, Stages, Children, NoStatus
<1>2. RunnerHoldsLock /\ RunnerHasRow /\ LostRowNeverBlocks
  BY DEF RunnerHoldsLock, RunnerHasRow, LostRowNeverBlocks, At, Idle, UnderLock, WithRow
<1>3. RunningIsLatest /\ HistoryMatches /\ StatusIsRecord
  BY DEF RunningIsLatest, HistoryMatches, StatusIsRecord, NoStatus
<1> QED
  BY <1>1, <1>2, <1>3 DEF OpInv

(* A step of one runner or its child that leaves the ledger alone: what the *)
(* runner holds afterwards follows from where it is.                       *)
LEMMA RunnerMoves ==
  ASSUME OpInv, NEW r \in Runners, NEW s \in States, NEW c \in Children,
         runner' = [runner EXCEPT ![r] = s], child' = [child EXCEPT ![r] = c],
         ledger' = ledger, owner' = owner, status' = status,
         now' \in Nat, faults' \in 0..MaxFaults,
         lock' \in Runners \cup {NoRunner},
         world' \in [Providers -> 0..MaxChanges],
         seen' \in Seq([Providers -> 0..MaxChanges]), Len(seen') = Len(seen),
         \/ lock' = lock /\ (s.at \in UnderLock <=> runner[r].at \in UnderLock)
         \/ lock = NoRunner /\ lock' = r /\ s.at \in UnderLock
         \/ s.at \notin UnderLock /\ lock' = IF lock = r THEN NoRunner ELSE lock,
         c # "none" => s.at \in WithChild,
         s.at # "idle" => s.key \in Pipelines,
         IF s.at \in WithRow
         THEN s.row = runner[r].row /\ runner[r].at \in WithRow
         ELSE s.row = 0,
         s.at # "begin"
  PROVE  OpInv'
<1> USE OperationsAssumption
<1>1. TypeOK'
  BY DEF OpInv, TypeOK, States
<1>2. /\ runner'[r] = s /\ child'[r] = c
      /\ \A q \in Runners : q # r => runner'[q] = runner[q] /\ child'[q] = child[q]
  BY DEF OpInv, TypeOK
<1>3. RunnerHoldsLock'
  <2> SUFFICES ASSUME NEW q \in Runners
               PROVE  /\ lock' = q <=> runner'[q].at \in UnderLock
                      /\ child'[q] # "none" => runner'[q].at \in WithChild
                      /\ runner'[q].at # "idle" => runner'[q].key \in Pipelines
    BY DEF RunnerHoldsLock
  <2>1. /\ lock = q <=> runner[q].at \in UnderLock
        /\ lock = r <=> runner[r].at \in UnderLock
        /\ child[q] # "none" => runner[q].at \in WithChild
        /\ runner[q].at # "idle" => runner[q].key \in Pipelines
    BY DEF OpInv, RunnerHoldsLock
  <2>2. CASE q = r
    BY <2>1, <2>2, <1>2
  <2>3. CASE q # r
    BY <2>1, <2>3, <1>2
  <2> QED
    BY <2>2, <2>3
<1>4. RunnerHasRow'
  BY <1>2 DEF OpInv, RunnerHasRow
<1>5. LostRowNeverBlocks'
  BY <1>2 DEF OpInv, LostRowNeverBlocks, At
<1>6. RunningIsLatest' /\ HistoryMatches' /\ StatusIsRecord'
  BY DEF OpInv, RunningIsLatest, HistoryMatches, StatusIsRecord
<1> QED
  BY <1>1, <1>3, <1>4, <1>5, <1>6 DEF OpInv

(* The same for the record of one runner with another stage and result.    *)
LEMMA RunnerAt ==
  ASSUME OpInv, NEW r \in Runners
  PROVE  /\ runner[r] \in States /\ child[r] \in Children
         /\ child = [child EXCEPT ![r] = child[r]]
         /\ runner = [runner EXCEPT ![r] = runner[r]]
         /\ lock = r <=> runner[r].at \in UnderLock
         /\ child[r] # "none" => runner[r].at \in WithChild
         /\ runner[r].at # "idle" => runner[r].key \in Pipelines
         /\ runner[r].at \notin WithRow => runner[r].row = 0
         /\ Idle \in States /\ Idle.at = "idle" /\ Idle.row = 0
         /\ now \in Nat /\ faults \in 0..MaxFaults /\ lock \in Runners \cup {NoRunner}
         /\ world \in [Providers -> 0..MaxChanges]
         /\ seen \in Seq([Providers -> 0..MaxChanges])
<1>1. runner \in [Runners -> States] /\ child \in [Runners -> Children]
  BY DEF OpInv, TypeOK, States
<1>2. Idle \in States /\ Idle.at = "idle" /\ Idle.row = 0
  BY DEF Idle, States, Stages, Children
<1>3. runner[r].at \notin WithRow => runner[r].row = 0
  BY DEF OpInv, RunnerHasRow
<1> QED
  BY <1>1, <1>2, <1>3 DEF OpInv, TypeOK, RunnerHoldsLock

LEMMA StartStep ==
  ASSUME OpInv, NEW r \in Runners, NEW key \in Pipelines, Start(r, key)
  PROVE  OpInv'
<1> DEFINE s == [Idle EXCEPT !.at = "waiting", !.key = key]
<1>1. s \in States /\ s.at = "waiting" /\ s.key = key /\ s.row = 0
  BY DEF Idle, States, Stages, Children
<1>2. runner' = [runner EXCEPT ![r] = s]
  BY DEF Start
<1> HIDE DEF s
<1>3. runner[r].at = "idle" /\ child[r] = "none"
  BY DEF Start, At
<1>4. /\ child' = child /\ ledger' = ledger /\ owner' = owner /\ status' = status
      /\ now' = now /\ faults' = faults /\ lock' = lock /\ world' = world /\ seen' = seen
  BY DEF Start
<1>5. /\ s.at \notin UnderLock /\ s.at \notin WithRow /\ s.at \notin {"idle", "begin"}
      /\ runner[r].at \notin UnderLock
  BY <1>1, <1>3 DEF UnderLock, WithRow
<1>6. /\ child' = [child EXCEPT ![r] = "none"] /\ "none" \in Children
      /\ now' \in Nat /\ faults' \in 0..MaxFaults /\ lock' \in Runners \cup {NoRunner}
      /\ world' \in [Providers -> 0..MaxChanges]
      /\ seen' \in Seq([Providers -> 0..MaxChanges]) /\ Len(seen') = Len(seen)
  BY <1>3, <1>4, RunnerAt DEF Children
<1> QED
  BY <1>1, <1>2, <1>4, <1>5, <1>6, RunnerMoves

LEMMA ExitStep ==
  ASSUME OpInv, NEW r \in Runners, Exit(r), ledger' = ledger, owner' = owner, status' = status,
         now' = now, faults' \in 0..MaxFaults, world' = world, seen' = seen,
         child' = [child EXCEPT ![r] = "none"]
  PROVE  OpInv'
<1>1. runner' = [runner EXCEPT ![r] = Idle] /\ lock' = IF lock = r THEN NoRunner ELSE lock
  BY DEF Exit
<1>2. "none" \in Children /\ "idle" \notin UnderLock /\ "idle" \notin WithRow
  BY DEF Children, UnderLock, WithRow
<1>3. lock' \in Runners \cup {NoRunner}
  BY <1>1, RunnerAt
<1> QED
  BY <1>1, <1>2, <1>3, RunnerAt, RunnerMoves

(* A step of the runner under its lock, to another stage under the lock.   *)
LEMMA StageStep ==
  ASSUME OpInv, NEW r \in Runners, NEW stage \in Stages, NEW result \in Children,
         NEW c \in Children,
         runner' = [runner EXCEPT ![r] = [runner[r] EXCEPT !.at = stage, !.result = result]],
         child' = [child EXCEPT ![r] = c],
         ledger' = ledger, owner' = owner, status' = status, now' = now, world' = world,
         faults' \in 0..MaxFaults, seen' \in Seq([Providers -> 0..MaxChanges]),
         Len(seen') = Len(seen),
         \/ runner[r].at \in WithRow /\ stage \in WithRow /\ lock' = lock
         \/ runner[r].at = "waiting" /\ stage = "recover" /\ lock = NoRunner /\ lock' = r,
         c # "none" => stage \in WithChild
  PROVE  OpInv'
<1> DEFINE s == [runner[r] EXCEPT !.at = stage, !.result = result]
<1>1. runner[r] \in States
  BY RunnerAt
<1>2. s \in States /\ s.at = stage /\ s.key = runner[r].key /\ s.row = runner[r].row
  BY <1>1 DEF States
<1>3. runner' = [runner EXCEPT ![r] = s]
  OBVIOUS
<1> HIDE DEF s
<1>4. /\ runner[r].at # "idle" => runner[r].key \in Pipelines
      /\ runner[r].at \notin WithRow => runner[r].row = 0
      /\ lock' \in Runners \cup {NoRunner} /\ world' \in [Providers -> 0..MaxChanges]
      /\ now' \in Nat
  BY RunnerAt
<1>5. CASE runner[r].at \in WithRow /\ stage \in WithRow /\ lock' = lock
  <2>1. stage \in UnderLock /\ runner[r].at \in UnderLock /\ stage # "begin"
        /\ runner[r].at # "idle"
    BY <1>5 DEF WithRow, UnderLock
  <2> QED
    BY <1>2, <1>3, <1>4, <1>5, <2>1, RunnerMoves
<1>6. CASE runner[r].at = "waiting" /\ stage = "recover" /\ lock = NoRunner /\ lock' = r
  <2>1. stage \in UnderLock /\ stage \notin WithRow /\ runner[r].at \notin WithRow
    BY <1>6 DEF WithRow, UnderLock
  <2> QED
    BY <1>2, <1>3, <1>4, <1>6, <2>1, RunnerMoves
<1> QED
  BY <1>5, <1>6

LEMMA LockSteps ==
  ASSUME OpInv, NEW r \in Runners, AcquireLock(r) \/ LockTimeout(r)
  PROVE  OpInv'
<1>1. CASE AcquireLock(r)
  <2>1. /\ runner[r].at = "waiting" /\ lock = NoRunner /\ lock' = r
        /\ child' = child /\ ledger' = ledger /\ owner' = owner /\ status' = status
        /\ now' = now /\ faults' = faults /\ world' = world /\ seen' = seen
    BY <1>1 DEF AcquireLock, At
  <2>2. runner[r] \in States
    BY RunnerAt
  <2>3. runner' = [runner EXCEPT ![r] = [runner[r] EXCEPT !.at = "recover",
                                                          !.result = runner[r].result]]
    BY <1>1, <2>2 DEF AcquireLock, States
  <2>4. "recover" \in Stages /\ runner[r].result \in Children /\ child[r] = "none"
    BY <2>1, <2>2, RunnerAt DEF Stages, States, WithChild
  <2> QED
    BY <2>1, <2>3, <2>4, RunnerAt, StageStep
<1>2. CASE LockTimeout(r)
  <2>1. /\ runner[r].at = "waiting" /\ Exit(r)
        /\ child' = child /\ ledger' = ledger /\ owner' = owner /\ status' = status
        /\ now' = now /\ faults' = faults /\ world' = world /\ seen' = seen
    BY <1>2 DEF LockTimeout, At
  <2>2. child[r] = "none"
    BY <2>1, RunnerAt DEF WithChild
  <2> QED
    BY <2>1, <2>2, RunnerAt, ExitStep
<1> QED
  BY <1>1, <1>2

LEMMA SpawnStep ==
  ASSUME OpInv, NEW r \in Runners, Spawn(r)
  PROVE  OpInv'
<1>1. /\ runner[r].at = "spawn" /\ lock' = lock
      /\ ledger' = ledger /\ owner' = owner /\ status' = status
      /\ now' = now /\ faults' = faults /\ world' = world
      /\ child' = [child EXCEPT ![r] = "running"]
      /\ seen' = [seen EXCEPT ![runner[r].row] = world]
  BY DEF Spawn, At
<1>2. runner[r] \in States
  BY RunnerAt
<1>3. runner' = [runner EXCEPT ![r] = [runner[r] EXCEPT !.at = "unguarded",
                                                        !.result = runner[r].result]]
  BY <1>2 DEF Spawn, States
<1>4. runner[r].row \in DOMAIN ledger
  BY <1>1 DEF OpInv, RunnerHasRow, WithRow
<1>5. ledger \in Seq(Rows) /\ Len(seen) = Len(ledger)
  BY DEF OpInv, TypeOK, Rows, HistoryMatches
<1>6. runner[r].row \in 1..Len(seen)
  BY <1>4, <1>5
<1>7. seen' \in Seq([Providers -> 0..MaxChanges]) /\ Len(seen') = Len(seen)
  BY <1>1, <1>6, RunnerAt, ExceptSeq
<1>8. /\ runner[r].at \in WithRow /\ "unguarded" \in WithRow /\ "unguarded" \in WithChild
      /\ "unguarded" \in Stages /\ "running" \in Children /\ runner[r].result \in Children
  BY <1>1, <1>2 DEF Stages, Children, States, WithChild, WithRow
<1> QED
  BY <1>1, <1>3, <1>7, <1>8, RunnerAt, StageStep

LEMMA WaitSteps ==
  ASSUME OpInv, NEW r \in Runners, ~Uncovered,
         SetHandlers(r) \/ ChildWaited(r) \/ Interrupt(r) \/ Reaped(r)
  PROVE  OpInv'
<1> USE DEF Stages, Children, WithRow, WithChild
<1>1. runner[r] \in States
  BY RunnerAt
<1>2. CASE SetHandlers(r)
  <2>1. /\ runner[r].at = "unguarded" /\ lock' = lock /\ child' = child
        /\ ledger' = ledger /\ owner' = owner /\ status' = status
        /\ now' = now /\ faults' = faults /\ world' = world /\ seen' = seen
    BY <1>2 DEF SetHandlers, At
  <2>2. runner' = [runner EXCEPT ![r] = [runner[r] EXCEPT !.at = "wait",
                                                          !.result = runner[r].result]]
    BY <1>1, <1>2 DEF SetHandlers, States
  <2>3. runner[r].result \in Children
    BY <1>1 DEF States
  <2> QED
    BY <2>1, <2>2, <2>3, RunnerAt, StageStep
<1>3. CASE ChildWaited(r)
  <2>1. /\ runner[r].at = "wait" /\ lock' = lock /\ child' = [child EXCEPT ![r] = "none"]
        /\ ledger' = ledger /\ owner' = owner /\ status' = status
        /\ now' = now /\ faults' = faults /\ world' = world /\ seen' = seen
    BY <1>3 DEF ChildWaited, At
  <2>2. runner' = [runner EXCEPT ![r] = [runner[r] EXCEPT !.at = "finish",
                                                          !.result = child[r]]]
    BY <1>1, <1>3 DEF ChildWaited, States
  <2>3. child[r] \in Children
    BY RunnerAt
  <2> QED
    BY <2>1, <2>2, <2>3, RunnerAt, StageStep
<1>4. CASE Interrupt(r)
  <2>1. /\ runner[r].at = "wait" /\ lock' = lock /\ child' = child
        /\ ledger' = ledger /\ owner' = owner /\ status' = status
        /\ now' = now /\ world' = world /\ seen' = seen
        /\ faults < MaxFaults /\ faults' = faults + 1
    BY <1>4 DEF Interrupt, At
  <2>2. faults' \in 0..MaxFaults
    BY <2>1, RunnerAt, OperationsAssumption
  <2>3. runner' = [runner EXCEPT ![r] = [runner[r] EXCEPT !.at = "reap", !.result = "failed"]]
    BY <1>1, <1>4, <2>1 DEF Interrupt, At, States
  <2> QED
    BY <2>1, <2>2, <2>3, RunnerAt, StageStep
<1>5. CASE Reaped(r)
  <2>1. /\ runner[r].at = "reap" /\ lock' = lock /\ child' = [child EXCEPT ![r] = "none"]
        /\ ledger' = ledger /\ owner' = owner /\ status' = status
        /\ now' = now /\ faults' = faults /\ world' = world /\ seen' = seen
    BY <1>5 DEF Reaped, At
  <2>2. runner' = [runner EXCEPT ![r] = [runner[r] EXCEPT !.at = "finish",
                                                          !.result = runner[r].result]]
    BY <1>1, <1>5 DEF Reaped, States
  <2>3. runner[r].result \in Children
    BY <1>1 DEF States
  <2> QED
    BY <2>1, <2>2, <2>3, RunnerAt, StageStep
<1> QED
  BY <1>2, <1>3, <1>4, <1>5

LEMMA DeathSteps ==
  ASSUME OpInv, NEW r \in Runners, ~Detached, LedgerRaises(r) \/ Kill(r)
  PROVE  OpInv'
<1>1. faults < MaxFaults /\ faults' = faults + 1
  BY DEF LedgerRaises, Kill
<1>2. faults' \in 0..MaxFaults
  BY <1>1, RunnerAt, OperationsAssumption
<1>3. CASE LedgerRaises(r)
  <2>1. child[r] = "none"
    BY <1>3, RunnerAt DEF LedgerRaises, WithChild
  <2> QED
    BY <1>2, <1>3, <2>1, RunnerAt, ExitStep DEF LedgerRaises
<1>4. CASE Kill(r)
  <2>1. child' = [child EXCEPT ![r] = "none"]
    BY <1>4 DEF Kill
  <2> QED
    BY <1>2, <1>4, <2>1, ExitStep DEF Kill
<1> QED
  BY <1>3, <1>4

LEMMA ChildSteps ==
  ASSUME OpInv, NEW r \in Runners, ChildWrites(r) \/ ChildExits(r)
  PROVE  OpInv'
<1>1. /\ child[r] = "running" /\ runner' = runner /\ lock' = lock
      /\ ledger' = ledger /\ owner' = owner /\ status' = status
      /\ now' = now /\ faults' = faults /\ seen' = seen
  BY DEF ChildWrites, ChildExits
<1>2. runner[r].at \in WithChild
  BY <1>1, RunnerAt
<1>3. PICK c \in Children : child' = [child EXCEPT ![r] = c]
  <2>1. CASE ChildWrites(r)
    BY <2>1, RunnerAt DEF ChildWrites
  <2>2. CASE ChildExits(r)
    BY <2>2 DEF ChildExits, Children
  <2> QED
    BY <2>1, <2>2
<1>4. world' \in [Providers -> 0..MaxChanges]
  <2>1. CASE ChildWrites(r)
    <3>1. /\ KeyOf(r) \in Providers /\ world[KeyOf(r)] < MaxChanges
          /\ world' = [world EXCEPT ![KeyOf(r)] = world[KeyOf(r)] + 1]
      BY <2>1 DEF ChildWrites
    <3>2. world[KeyOf(r)] + 1 \in 0..MaxChanges
      BY <3>1, RunnerAt, OperationsAssumption
    <3> QED
      BY <3>1, <3>2, RunnerAt
  <2>2. CASE ChildExits(r)
    BY <2>2, RunnerAt DEF ChildExits
  <2> QED
    BY <2>1, <2>2
<1>5. /\ runner[r].at \in WithRow /\ runner[r].at \in UnderLock /\ runner[r].at # "begin"
  BY <1>2 DEF WithChild, WithRow, UnderLock
<1>6. runner' = [runner EXCEPT ![r] = runner[r]]
  BY <1>1, RunnerAt
<1> QED
  BY <1>1, <1>2, <1>3, <1>4, <1>5, <1>6, RunnerAt, RunnerMoves

(* Under the lock nobody but its holder has a row or a child.              *)
LEMMA OthersHaveNothing ==
  ASSUME OpInv, NEW r \in Runners, runner[r].at \in UnderLock
  PROVE  \A q \in Runners : q # r =>
            /\ runner[q].at \notin UnderLock /\ runner[q].at \notin WithRow
            /\ runner[q].row = 0 /\ child[q] = "none" /\ runner[q].at # "begin"
<1>1. lock = r
  BY DEF OpInv, RunnerHoldsLock
<1> QED
  BY <1>1 DEF OpInv, RunnerHoldsLock, RunnerHasRow, UnderLock, WithRow, WithChild

(* A step of the lock's holder that writes the ledger.                     *)
LEMMA LedgerStep ==
  ASSUME OpInv, NEW r \in Runners, NEW s \in States,
         runner[r].at \in UnderLock, child[r] = "none",
         runner' = [runner EXCEPT ![r] = s], child' = child, status' = status,
         lock' = (IF s.at \in UnderLock THEN r ELSE NoRunner),
         now' \in Nat, faults' = faults, world' = world,
         ledger' \in Seq(Rows), \A i \in DOMAIN ledger' : LifecycleCheck(ledger'[i]),
         seen' \in Seq(Snapshots), owner' \in Seq(Runners),
         RunningIsLatest', HistoryMatches',
         s.at # "idle" => s.key \in Pipelines,
         s.at = "begin" => CanBegin(ledger', s.key),
         IF s.at \in WithRow
         THEN s.row \in DOMAIN ledger' /\ ledger'[s.row].status = "running"
         ELSE s.row = 0
  PROVE  OpInv'
<1> USE OperationsAssumption
<1>1. /\ runner'[r] = s
      /\ \A q \in Runners : q # r => runner'[q] = runner[q]
  BY DEF OpInv, TypeOK
<1>2. TypeOK'
  BY DEF OpInv, TypeOK, States, Rows, Snapshots
<1>3. \A q \in Runners : child[q] = "none"
  BY OthersHaveNothing
<1>4. RunnerHoldsLock'
  <2>1. \A q \in Runners : q # r =>
            runner[q].at \notin UnderLock /\ (runner[q].at # "idle" => runner[q].key \in Pipelines)
    BY OthersHaveNothing DEF OpInv, RunnerHoldsLock
  <2> QED
    BY <1>1, <1>3, <2>1 DEF RunnerHoldsLock
<1>5. RunnerHasRow'
  BY <1>1, OthersHaveNothing DEF RunnerHasRow
<1>6. LostRowNeverBlocks'
  BY <1>1, OthersHaveNothing DEF LostRowNeverBlocks, At
<1>7. StatusIsRecord'
  BY DEF OpInv, StatusIsRecord
<1> QED
  BY <1>2, <1>4, <1>5, <1>6, <1>7 DEF OpInv

LEMMA UnsetIs == Unset \notin Nat /\ Unset \notin Errors
  BY OperationsAssumption

LEMMA FailInterruptedStep ==
  ASSUME OpInv, NEW r \in Runners, FailInterrupted(r)
  PROVE  /\ OpInv' /\ lock = r
         /\ \A q \in Runners : runner[q].row = 0 /\ child[q] = "none"
<1>1. /\ runner[r].at = "recover" /\ now' = now + 1 /\ lock' = lock /\ child' = child
      /\ world' = world /\ seen' = seen /\ owner' = owner /\ faults' = faults
      /\ status' = status
      /\ ledger' = FailInterruptedRun(ledger, runner[r].key, now')
  BY DEF FailInterrupted, At
<1> DEFINE s == [runner[r] EXCEPT !.at = "begin"]
<1>0. runner[r].at \in UnderLock /\ runner[r].at \notin WithRow /\ runner[r].at \notin WithChild
      /\ runner[r].at # "idle"
  BY <1>1 DEF WithRow, WithChild, UnderLock
<1>2. runner[r] \in States /\ runner[r].row = 0 /\ child[r] = "none" /\ lock = r
      /\ runner[r].key \in Pipelines /\ now' \in Nat /\ runner[r].at \in UnderLock
  BY <1>0, <1>1, RunnerAt
<1>3. s \in States /\ s.at = "begin" /\ s.key = runner[r].key /\ s.row = 0
  BY <1>2 DEF States, Stages
<1>4. runner' = [runner EXCEPT ![r] = s]
  BY DEF FailInterrupted
<1> HIDE DEF s
<1>5. ledger \in Seq(Rows) /\ seen \in Seq(Snapshots) /\ owner \in Seq(Runners)
      /\ Len(seen) = Len(ledger) /\ Len(owner) = Len(ledger)
      /\ \A i \in DOMAIN ledger : LifecycleCheck(ledger[i])
  BY DEF OpInv, TypeOK, Rows, Snapshots, HistoryMatches
<1>6. /\ ledger' \in Seq(Rows) /\ Len(ledger') = Len(ledger) /\ DOMAIN ledger' = DOMAIN ledger
      /\ \A j \in DOMAIN ledger :
           /\ ledger'[j].key = ledger[j].key
           /\ ledger'[j].status = "running" => ledger'[j] = ledger[j] /\ ledger[j].key # s.key
           /\ LifecycleCheck(ledger[j]) => LifecycleCheck(ledger'[j])
  BY <1>1, <1>2, <1>3, <1>5, UnsetIs, FailInterruptedType
<1>7. CanBegin(ledger', s.key)
  BY <1>6 DEF CanBegin, Running
<1>8. RunningIsLatest' /\ HistoryMatches'
  BY <1>1, <1>5, <1>6 DEF OpInv, RunningIsLatest, HistoryMatches
<1>9. OpInv'
  BY <1>1, <1>2, <1>3, <1>4, <1>5, <1>6, <1>7, <1>8, LedgerStep DEF UnderLock, WithRow
<1> QED
  BY <1>2, <1>9, OthersHaveNothing

LEMMA BeginStep ==
  ASSUME OpInv, NEW r \in Runners, Begin(r)
  PROVE  OpInv' /\ \A i \in DOMAIN ledger : ledger'[i] = ledger[i]
<1>1. /\ runner[r].at = "begin" /\ now' = now + 1 /\ lock' = lock /\ child' = child
      /\ world' = world /\ faults' = faults /\ status' = status
      /\ CanBegin(ledger, runner[r].key)
      /\ ledger' = BeginRun(ledger, runner[r].key, now')
      /\ seen' = Append(seen, world) /\ owner' = Append(owner, r)
  BY DEF Begin, At
<1> DEFINE s == [runner[r] EXCEPT !.at = "spawn", !.row = Len(ledger')]
<1>0. runner[r].at \in UnderLock /\ runner[r].at \notin WithChild /\ runner[r].at # "idle"
  BY <1>1 DEF WithChild, UnderLock
<1>2. runner[r] \in States /\ child[r] = "none" /\ lock = r
      /\ runner[r].key \in Pipelines /\ now' \in Nat /\ runner[r].at \in UnderLock
      /\ world \in Snapshots
  BY <1>0, <1>1, RunnerAt DEF Snapshots
<1>3. ledger \in Seq(Rows) /\ seen \in Seq(Snapshots) /\ owner \in Seq(Runners)
      /\ Len(seen) = Len(ledger) /\ Len(owner) = Len(ledger)
      /\ \A i \in DOMAIN ledger : LifecycleCheck(ledger[i])
  BY DEF OpInv, TypeOK, Rows, Snapshots, HistoryMatches
<1> DEFINE n == Len(ledger) + 1
<1>4. /\ ledger' \in Seq(Rows) /\ Len(ledger') = n
      /\ \A i \in 1..Len(ledger) : ledger'[i] = ledger[i]
      /\ ledger'[n].key = runner[r].key /\ ledger'[n].status = "running"
      /\ ledger'[n].finished = Unset /\ ledger'[n].error = Unset
  BY <1>1, <1>2, <1>3, BeginRunType, UnsetIs
<1>5. DOMAIN ledger = 1..Len(ledger) /\ DOMAIN ledger' = 1..n /\ Len(ledger) \in Nat
  BY <1>3, <1>4
<1>6. s \in States /\ s.at = "spawn" /\ s.key = runner[r].key /\ s.row = n
  <2> DEFINE row == runner[r]
  <2>1. row \in States /\ Len(ledger') = n /\ n \in Nat
    BY <1>2, <1>4, <1>5
  <2> HIDE DEF row, n
  <2> QED
    BY <2>1 DEF States, Stages, row
<1>7. runner' = [runner EXCEPT ![r] = s]
  BY <1>2 DEF Begin, States
<1> HIDE DEF s
<1>8. seen' \in Seq(Snapshots) /\ Len(seen') = n /\ owner' \in Seq(Runners) /\ Len(owner') = n
  BY <1>1, <1>2, <1>3, AppendProperties
<1>9. \A i \in DOMAIN ledger' : LifecycleCheck(ledger'[i])
  BY <1>3, <1>4, <1>5 DEF LifecycleCheck
<1>10. RunningIsLatest'
  <2> SUFFICES ASSUME NEW i \in DOMAIN ledger', NEW j \in DOMAIN ledger',
                      ledger'[i].status = "running", ledger'[j].key = ledger'[i].key
               PROVE  j <= i
    BY DEF RunningIsLatest
  <2>1. CASE i = n
    BY <1>5, <2>1
  <2>2. CASE i # n /\ j = n
    <3>1. i \in DOMAIN ledger /\ ledger[i].status = "running" /\ ledger[i].key = runner[r].key
      BY <1>4, <1>5, <2>2
    <3> QED
      BY <1>1, <3>1 DEF CanBegin, Running
  <2>3. CASE i # n /\ j # n
    <3>1. i \in DOMAIN ledger /\ j \in DOMAIN ledger
      BY <1>5, <2>3
    <3> QED
      BY <1>4, <1>5, <3>1 DEF OpInv, RunningIsLatest
  <2> QED
    BY <2>1, <2>2, <2>3
<1>11. HistoryMatches'
  BY <1>4, <1>8 DEF HistoryMatches
<1>12. n \in DOMAIN ledger'
  BY <1>5
<1> HIDE DEF n
<1>13. OpInv'
  BY <1>1, <1>2, <1>4, <1>6, <1>7, <1>8, <1>9, <1>10, <1>11, <1>12, LedgerStep
     DEF UnderLock, WithRow
<1> QED
  BY <1>4, <1>5, <1>13

LEMMA FinishStep ==
  ASSUME OpInv, NEW r \in Runners, Finish(r)
  PROVE  /\ OpInv' /\ DOMAIN ledger' = DOMAIN ledger
         /\ \A i \in DOMAIN ledger : ledger'[i] # ledger[i] =>
              ledger[i].status = "running" /\ ledger'[i].error # "interrupted_previous_run"
<1> DEFINE i == runner[r].row
<1>1. /\ runner[r].at = "finish" /\ now' = now + 1 /\ Exit(r) /\ child' = child
      /\ world' = world /\ seen' = seen /\ owner' = owner /\ faults' = faults
      /\ status' = status
  BY DEF Finish, At
<1>2. i \in DOMAIN ledger /\ ledger[i].status = "running"
  BY <1>1 DEF OpInv, RunnerHasRow, WithRow
<1>3. ledger' \in {CompleteRun(ledger, i, now'), FailRun(ledger, i, now')}
  BY <1>2 DEF Finish
<1>0. runner[r].at \in UnderLock /\ runner[r].at \notin WithChild
  BY <1>1 DEF WithChild, UnderLock
<1>4. child[r] = "none" /\ lock = r /\ now' \in Nat /\ runner[r].at \in UnderLock
      /\ Idle \in States /\ Idle.at = "idle" /\ Idle.row = 0
  BY <1>0, <1>1, RunnerAt
<1>5. ledger \in Seq(Rows) /\ seen \in Seq(Snapshots) /\ owner \in Seq(Runners)
      /\ Len(seen) = Len(ledger) /\ Len(owner) = Len(ledger)
      /\ \A j \in DOMAIN ledger : LifecycleCheck(ledger[j])
  BY DEF OpInv, TypeOK, Rows, Snapshots, HistoryMatches
<1> HIDE DEF i
<1>6. /\ ledger' \in Seq(Rows) /\ Len(ledger') = Len(ledger)
      /\ \A j \in DOMAIN ledger : ledger'[j].key = ledger[j].key
      /\ \A j \in DOMAIN ledger : j # i => ledger'[j] = ledger[j]
      /\ ledger'[i].status # "running" /\ ledger'[i].error # "interrupted_previous_run"
      /\ LifecycleCheck(ledger'[i])
  <2> DEFINE t == now'
             new == ledger'
  <2>1. /\ new \in {CompleteRun(ledger, i, t), FailRun(ledger, i, t)} /\ t \in Nat
        /\ ledger \in Seq(Rows) /\ i \in DOMAIN ledger
    BY <1>2, <1>3, <1>4, <1>5
  <2> HIDE DEF t, new
  <2>2. /\ new \in Seq(Rows) /\ Len(new) = Len(ledger)
        /\ \A j \in DOMAIN ledger : new[j].key = ledger[j].key
        /\ \A j \in DOMAIN ledger : j # i => new[j] = ledger[j]
        /\ new[i].status # "running" /\ new[i].error # "interrupted_previous_run"
        /\ LifecycleCheck(new[i])
    BY <2>1, UnsetIs, FinishRunType
  <2> QED
    BY <2>2 DEF new
<1>7. DOMAIN ledger' = DOMAIN ledger
  BY <1>5, <1>6
<1>8. runner' = [runner EXCEPT ![r] = Idle] /\ lock' = NoRunner
  BY <1>1, <1>4 DEF Exit
<1>9. RunningIsLatest' /\ HistoryMatches'
  BY <1>1, <1>5, <1>6, <1>7 DEF OpInv, RunningIsLatest, HistoryMatches
<1>10. \A j \in DOMAIN ledger' : LifecycleCheck(ledger'[j])
  BY <1>5, <1>6, <1>7
<1>11. OpInv'
  BY <1>1, <1>4, <1>5, <1>6, <1>8, <1>9, <1>10, LedgerStep DEF UnderLock, WithRow
<1> QED
  BY <1>2, <1>6, <1>7, <1>11

LEMMA StatusSteps ==
  ASSUME OpInv, ReadLatestRuns \/ ReadLastSuccesses \/ Answer
  PROVE  OpInv'
<1>1. /\ ledger' = ledger /\ lock' = lock /\ now' = now /\ runner' = runner /\ child' = child
      /\ world' = world /\ seen' = seen /\ owner' = owner /\ faults' = faults
  BY DEF ReadLatestRuns, ReadLastSuccesses, Answer
<1>2. /\ StatusIsRecord' /\ status'.at \in {"idle", "half", "done"}
      /\ status'.validated \subseteq Enrichments
  <2>1. CASE ReadLatestRuns
    BY <2>1 DEF ReadLatestRuns, NoStatus, StatusIsRecord
  <2>2. CASE ReadLastSuccesses
    <3> DEFINE validated == {p \in Enrichments :
                               Validated(status.latest, LastSuccesses(ledger), p)}
               last == [p \in validated |-> LastSuccess(p)]
    <3>1. validated \subseteq Enrichments
      OBVIOUS
    <3>2. status' = [status EXCEPT !.at = "done", !.validated = validated, !.last = last]
      BY <2>2 DEF ReadLastSuccesses
    <3> HIDE DEF validated, last
    <3> QED
      BY <3>1, <3>2 DEF OpInv, StatusIsRecord
  <2>3. CASE Answer
    BY <2>3 DEF Answer, NoStatus, StatusIsRecord
  <2> QED
    BY <2>1, <2>2, <2>3
<1>3. TypeOK'
  BY <1>1, <1>2 DEF OpInv, TypeOK
<1>4. RunnerHoldsLock' /\ RunnerHasRow' /\ RunningIsLatest' /\ HistoryMatches'
      /\ LostRowNeverBlocks'
  BY <1>1 DEF OpInv, RunnerHoldsLock, RunnerHasRow, RunningIsLatest, HistoryMatches,
              LostRowNeverBlocks, At
<1> QED
  BY <1>2, <1>3, <1>4 DEF OpInv

LEMMA StutterStep ==
  ASSUME OpInv, UNCHANGED vars
  PROVE  OpInv'
<1>1. TypeOK'
  BY DEF vars, OpInv, TypeOK
<1> QED
  BY <1>1 DEF vars, OpInv, RunnerHoldsLock, RunnerHasRow, RunningIsLatest, HistoryMatches,
              LostRowNeverBlocks, At, StatusIsRecord

LEMMA StepHolds ==
  ASSUME OpInv, [Next]_vars, ~Detached, ~Uncovered
  PROVE  OpInv'
<1>1. ASSUME NEW r \in Runners, NEW key \in Pipelines, Start(r, key)
      PROVE  OpInv'
  BY <1>1, StartStep
<1>2. ASSUME NEW r \in Runners,
             \/ AcquireLock(r) \/ LockTimeout(r) \/ FailInterrupted(r) \/ Begin(r)
             \/ Spawn(r) \/ SetHandlers(r) \/ ChildWaited(r) \/ Interrupt(r) \/ Reaped(r)
             \/ Finish(r) \/ LedgerRaises(r) \/ Kill(r) \/ ChildWrites(r) \/ ChildExits(r)
      PROVE  OpInv'
  <2>1. CASE AcquireLock(r) \/ LockTimeout(r)
    BY <2>1, LockSteps
  <2>2. CASE FailInterrupted(r) \/ Begin(r) \/ Finish(r)
    BY <2>2, FailInterruptedStep, BeginStep, FinishStep
  <2>3. CASE Spawn(r)
    BY <2>3, SpawnStep
  <2>4. CASE SetHandlers(r) \/ ChildWaited(r) \/ Interrupt(r) \/ Reaped(r)
    BY <2>4, WaitSteps
  <2>5. CASE LedgerRaises(r) \/ Kill(r)
    BY <2>5, DeathSteps
  <2>6. CASE ChildWrites(r) \/ ChildExits(r)
    BY <2>6, ChildSteps
  <2> QED
    BY <1>2, <2>1, <2>2, <2>3, <2>4, <2>5, <2>6
<1>3. CASE ReadLatestRuns \/ ReadLastSuccesses \/ Answer
  BY <1>3, StatusSteps
<1>4. CASE UNCHANGED vars
  BY <1>4, StutterStep
<1> QED
  BY <1>1, <1>2, <1>3, <1>4 DEF Next

LEMMA OpInvIsInvariant ==
  ASSUME ~Detached, ~Uncovered
  PROVE  Spec => []OpInv
<1>1. Init => OpInv
  BY InitHolds
<1>2. OpInv /\ [Next]_vars => OpInv'
  BY StepHolds
<1> QED
  BY <1>1, <1>2, PTL DEF Spec

-----------------------------------------------------------------------------
(* A child works only under the lock of its runner, a running row is that  *)
(* of the run under the lock or a lost one, the latest of its pipeline,    *)
(* and a lost one never stops the next run (operational.py).               *)
THEOREM LockAndLedgerAlwaysAgree ==
  ASSUME ~Detached, ~Uncovered
  PROVE  Spec => []LockAndLedgerAgree
<1>1. OpInv => LockAndLedgerAgree
  <2> SUFFICES ASSUME OpInv PROVE LockAndLedgerAgree
    OBVIOUS
  <2>1. LockCoversChild
    BY DEF LockCoversChild, OpInv, RunnerHoldsLock, WithChild, UnderLock
  <2>2. RunningRowIsLiveOrLost
    <3> SUFFICES ASSUME NEW i \in DOMAIN ledger
                 PROVE  /\ ledger[i].status = "running" =>
                             \A j \in DOMAIN ledger : ledger[j].key = ledger[i].key => j <= i
                        /\ \A r \in Runners :
                             (runner[r].row = i => ledger[i].status = "running" /\ lock = r)
      BY DEF RunningRowIsLiveOrLost
    <3>1. i # 0
      BY DEF OpInv, TypeOK
    <3>2. ASSUME NEW r \in Runners, runner[r].row = i
          PROVE  ledger[i].status = "running" /\ lock = r
      <4>1. runner[r].at \in WithRow /\ ledger[i].status = "running"
        BY <3>1, <3>2 DEF OpInv, RunnerHasRow
      <4>2. runner[r].at \in UnderLock
        BY <4>1 DEF WithRow, UnderLock
      <4> QED
        BY <4>1, <4>2 DEF OpInv, RunnerHoldsLock
    <3> QED
      BY <3>2 DEF OpInv, RunningIsLatest
  <2> QED
    BY <2>1, <2>2 DEF LockAndLedgerAgree, OpInv
<1> QED
  BY <1>1, OpInvIsInvariant, PTL

(* A row is called interrupted only when its runner and every child are    *)
(* gone, and no row that has ended is written again.                       *)
THEOREM OnlyLostRunsAreCalledInterrupted ==
  ASSUME ~Detached, ~Uncovered
  PROVE  Spec => OnlyLostRunsAreInterrupted
<1> DEFINE A == \A i \in DOMAIN ledger :
                  ledger'[i] # ledger[i] =>
                     /\ ledger[i].status = "running"
                     /\ ledger'[i].error = "interrupted_previous_run" =>
                          /\ \A r \in Runners : runner[r].row # i
                          /\ \A r \in Runners : child[r] = "none"
<1>1. OpInv /\ [Next]_vars => [A]_vars
  <2> SUFFICES ASSUME OpInv, Next PROVE A
    BY DEF vars
  <2>1. ledger \in Seq(Rows)
    BY DEF OpInv, TypeOK, Rows
  <2>2. ASSUME NEW r \in Runners, FailInterrupted(r)
        PROVE  A
    <3>1. \A q \in Runners : runner[q].row = 0 /\ child[q] = "none"
      BY <2>2, FailInterruptedStep
    <3>2. runner[r].key \in Pipelines /\ now' \in Nat
          /\ ledger' = FailInterruptedRun(ledger, runner[r].key, now')
      BY <2>2, RunnerAt DEF FailInterrupted, At
    <3>3. \A j \in DOMAIN ledger : ledger'[j] # ledger[j] => ledger[j].status = "running"
      BY <2>1, <3>2, UnsetIs, FailInterruptedType
    <3>4. \A i \in DOMAIN ledger : i # 0
      BY <2>1
    <3> QED
      BY <3>1, <3>3, <3>4
  <2>3. ASSUME NEW r \in Runners, Begin(r)
        PROVE  A
    BY <2>3, BeginStep
  <2>4. ASSUME NEW r \in Runners, Finish(r)
        PROVE  A
    BY <2>4, FinishStep
  <2>5. ASSUME ledger' = ledger
        PROVE  A
    BY <2>5
  <2> HIDE DEF A
  <2>6. \/ ledger' = ledger
        \/ \E r \in Runners : FailInterrupted(r) \/ Begin(r) \/ Finish(r)
    BY DEF Next, Start, AcquireLock, LockTimeout, Spawn, SetHandlers, ChildWaited, Interrupt,
           Reaped, LedgerRaises, Kill, ChildWrites, ChildExits, ReadLatestRuns,
           ReadLastSuccesses, Answer
  <2> QED
    BY <2>2, <2>3, <2>4, <2>5, <2>6
<1>2. Spec => [][A]_vars
  BY <1>1, OpInvIsInvariant, PTL DEF Spec
<1> QED
  BY <1>2 DEF OnlyLostRunsAreInterrupted

-----------------------------------------------------------------------------
(* What the derived status rests on: the order of the instants in the      *)
(* ledger, and what the run of a row had seen.                             *)

\* A run begins after every earlier run has ended, or was given up.
InstantsOrdered ==
    /\ \A i \in DOMAIN ledger :
         /\ ledger[i].started <= now
         /\ ledger[i].status # "running" =>
              ledger[i].started <= ledger[i].finished /\ ledger[i].finished <= now
    /\ \A i, j \in DOMAIN ledger : i < j =>
         /\ ledger[i].started < ledger[j].started
         /\ ledger[i].status = "completed" => ledger[i].finished < ledger[j].started

\* The row of a live runner is the last, and of its pipeline.
RunnerHasLastRow ==
    \A r \in Runners : runner[r].at \in WithRow =>
        runner[r].row = Len(ledger) /\ ledger[Len(ledger)].key = runner[r].key

\* A pipeline that has no row after row i has changed nothing since it.
LastRunSawAll ==
    \A i \in DOMAIN ledger : \A k \in Providers :
        (\A j \in DOMAIN ledger : ledger[j].key = k => j < i) => seen[i][k] = world[k]

Live(i) == \E r \in Runners : runner[r].row = i

Watermark(row) == IF row.status = "running" THEN row.started ELSE row.finished

\* Row i may turn out to validate the pipeline that it is a run of.
MayValidate(i, k) ==
    \/ Live(i)
    \/ /\ ledger[i].status = "completed"
       /\ k \in DOMAIN status.latest => ledger[i].finished >= Watermark(status.latest[k])

\* Between the two queries of get_status.
FirstReadIsCovered ==
    status.at = "half" =>
        /\ status.world \in Snapshots
        /\ \A k \in Providers : status.world[k] <= world[k]
        /\ \A k \in DOMAIN status.latest :
             Watermark(status.latest[k]) \in Nat /\ Watermark(status.latest[k]) <= now
        /\ \A i \in DOMAIN ledger : \A k \in Providers :
             ledger[i].key # k /\ MayValidate(i, k) => seen[i][k] >= status.world[k]

\* After them.
AnswerIsCovered ==
    status.at = "done" =>
        \A p \in status.validated :
            /\ status.last[p] \in DOMAIN ledger
            /\ ledger[status.last[p]].status = "completed"
            /\ \A d \in Dependencies[p] : \A k \in Groups[d] :
                 seen[status.last[p]][k] >= status.world[k]

CoverInv ==
    /\ InstantsOrdered /\ RunnerHasLastRow /\ LastRunSawAll
    /\ FirstReadIsCovered /\ AnswerIsCovered

LEMMA MaxIsMember ==
  ASSUME NEW n \in Nat, NEW S \in SUBSET (0..n), S # {}
  PROVE  Max(S) \in S /\ \A y \in S : y <= Max(S)
<1>1. PICK m \in S : \A y \in S : y <= m
  BY GreatestExists
<1>2. \A y \in S : m >= y
  BY <1>1
<1> QED
  BY <1>1, <1>2 DEF Max

LEMMA LedgerIs ==
  ASSUME OpInv
  PROVE  /\ ledger \in Seq(Rows) /\ seen \in Seq(Snapshots) /\ world \in Snapshots
         /\ Len(ledger) \in Nat /\ DOMAIN ledger = 1..Len(ledger)
         /\ Len(seen) = Len(ledger) /\ DOMAIN seen = DOMAIN ledger
         /\ now \in Nat
         /\ \A i \in DOMAIN ledger :
              /\ ledger[i] \in Rows /\ LifecycleCheck(ledger[i])
              /\ ledger[i].key \in Pipelines /\ ledger[i].started \in Nat
              /\ ledger[i].status # "running" => ledger[i].finished \in Nat
              /\ seen[i] \in Snapshots
         /\ \A r \in Runners : runner[r] \in States /\ runner[r].row \in Nat
<1>1. ledger \in Seq(Rows) /\ seen \in Seq(Snapshots) /\ world \in Snapshots
      /\ Len(seen) = Len(ledger) /\ now \in Nat
      /\ \A i \in DOMAIN ledger : LifecycleCheck(ledger[i])
  BY DEF OpInv, TypeOK, Rows, Snapshots, HistoryMatches
<1>2. \A i \in DOMAIN ledger : ledger[i] \in Rows /\ seen[i] \in Snapshots
  BY <1>1
<1>3. ASSUME NEW row \in Rows, LifecycleCheck(row)
      PROVE  /\ row.key \in Pipelines /\ row.started \in Nat
             /\ row.status # "running" => row.finished \in Nat
  BY <1>3 DEF Rows, LifecycleCheck
<1>4. \A r \in Runners : runner[r] \in States /\ runner[r].row \in Nat
  BY DEF OpInv, TypeOK, States
<1> QED
  BY <1>1, <1>2, <1>3, <1>4

(* A step that leaves the ledger, the world and the status alone, and gives *)
(* no runner a row.                                                        *)
LEMMA QuietStep ==
  ASSUME OpInv, CoverInv, ledger' = ledger, world' = world, seen' = seen, status' = status,
         now' = now,
         \A r \in Runners :
            /\ runner'[r].row \in {0, runner[r].row}
            /\ runner'[r].at \in WithRow =>
                 /\ runner[r].at \in WithRow
                 /\ runner'[r].row = runner[r].row /\ runner'[r].key = runner[r].key
  PROVE  CoverInv'
<1>1. InstantsOrdered' /\ LastRunSawAll' /\ AnswerIsCovered'
  BY DEF CoverInv, InstantsOrdered, LastRunSawAll, AnswerIsCovered
<1>2. RunnerHasLastRow'
  BY DEF CoverInv, RunnerHasLastRow
<1>3. \A i \in DOMAIN ledger : Live(i)' => Live(i)
  BY LedgerIs DEF Live
<1>4. \A i \in DOMAIN ledger, k \in Providers : MayValidate(i, k)' => MayValidate(i, k)
  BY <1>3 DEF MayValidate, Watermark
<1>5. FirstReadIsCovered'
  BY <1>4 DEF CoverInv, FirstReadIsCovered, Watermark
<1> QED
  BY <1>1, <1>2, <1>5 DEF CoverInv

LEMMA QuietSteps ==
  ASSUME OpInv, CoverInv, NEW r \in Runners,
         \/ \E key \in Pipelines : Start(r, key)
         \/ AcquireLock(r) \/ LockTimeout(r) \/ SetHandlers(r) \/ ChildWaited(r)
         \/ Interrupt(r) \/ Reaped(r) \/ LedgerRaises(r) \/ Kill(r) \/ ChildExits(r)
  PROVE  CoverInv'
<1>1. /\ ledger' = ledger /\ world' = world /\ seen' = seen /\ status' = status /\ now' = now
  BY DEF Start, AcquireLock, LockTimeout, SetHandlers, ChildWaited, Interrupt, Reaped,
         LedgerRaises, Kill, ChildExits
<1>2. runner \in [Runners -> States] /\ (runner[r].at \notin WithRow => runner[r].row = 0)
  BY RunnerAt DEF OpInv, TypeOK, States
<1> DEFINE Moved(s) == /\ runner' = [runner EXCEPT ![r] = s]
                       /\ s.row \in {0, runner[r].row}
                       /\ s.at \in WithRow =>
                            /\ runner[r].at \in WithRow
                            /\ s.row = runner[r].row /\ s.key = runner[r].key
<1>3. PICK s : Moved(s)
  <2> DEFINE q == runner[r]
  <2>0. q \in States
    BY <1>2
  <2>1. CASE \E key \in Pipelines : Start(r, key)
    <3>1. PICK key \in Pipelines : runner' = [runner EXCEPT ![r] =
                                       [Idle EXCEPT !.at = "waiting", !.key = key]]
      BY <2>1 DEF Start
    <3> DEFINE s == [Idle EXCEPT !.at = "waiting", !.key = key]
    <3>2. s.row = 0 /\ s.at = "waiting"
      BY DEF Idle
    <3> QED
      BY <3>1, <3>2 DEF WithRow
  <2>2. CASE Exit(r)
    <3>1. runner' = [runner EXCEPT ![r] = Idle] /\ Idle.row = 0 /\ Idle.at = "idle"
      BY <2>2 DEF Exit, Idle
    <3> QED
      BY <3>1 DEF WithRow
  <2>3. CASE ChildExits(r)
    <3>1. runner' = [runner EXCEPT ![r] = runner[r]]
      BY <1>2, <2>3 DEF ChildExits
    <3> QED
      BY <3>1
  <2>4. ASSUME NEW stage, runner' = [runner EXCEPT ![r].at = stage],
               stage \in WithRow => runner[r].at \in WithRow
        PROVE  \E s : Moved(s)
    <3> DEFINE s == [q EXCEPT !.at = stage]
    <3>1. s.at = stage /\ s.row = q.row /\ s.key = q.key
      BY <2>0 DEF States
    <3>2. runner' = [runner EXCEPT ![r] = s]
      BY <2>4
    <3> QED
      BY <2>4, <3>1, <3>2
  <2>5. ASSUME NEW stage, NEW result,
               runner' = [runner EXCEPT ![r].at = stage, ![r].result = result],
               stage \in WithRow => runner[r].at \in WithRow
        PROVE  \E s : Moved(s)
    <3> DEFINE s == [q EXCEPT !.at = stage, !.result = result]
    <3>1. s.at = stage /\ s.row = q.row /\ s.key = q.key
      BY <2>0 DEF States
    <3>2. runner' = [runner EXCEPT ![r] = s]
      BY <1>2, <2>5
    <3> QED
      BY <2>5, <3>1, <3>2
  <2> HIDE DEF Moved
  <2>6. CASE AcquireLock(r) \/ SetHandlers(r) \/ Reaped(r)
    BY <2>4, <2>6 DEF AcquireLock, SetHandlers, Reaped, At, WithRow
  <2>7. CASE ChildWaited(r)
    BY <2>5, <2>7 DEF ChildWaited, At, WithRow
  <2>8. CASE Interrupt(r)
    <3>1. CASE At(r, "unguarded")
      BY <2>2, <2>8, <3>1 DEF Interrupt
    <3>2. CASE ~At(r, "unguarded")
      <4> DEFINE stage == IF runner[r].at = "wait" THEN "reap" ELSE "finish"
      <4>1. /\ runner' = [runner EXCEPT ![r].at = stage, ![r].result = "failed"]
            /\ runner[r].at \in {"wait", "reap"}
        BY <2>8, <3>2 DEF Interrupt, At
      <4> HIDE DEF stage
      <4> QED
        BY <2>5, <4>1 DEF WithRow
    <3> QED
      BY <3>1, <3>2
  <2>9. CASE LockTimeout(r) \/ LedgerRaises(r) \/ Kill(r)
    BY <2>2, <2>9 DEF LockTimeout, LedgerRaises, Kill
  <2> QED
    BY <2>1, <2>3, <2>6, <2>7, <2>8, <2>9
<1>4. /\ runner'[r] = s
      /\ \A q \in Runners : q # r => runner'[q] = runner[q]
  BY <1>2, <1>3
<1>5. \A q \in Runners :
            /\ runner'[q].row \in {0, runner[q].row}
            /\ runner'[q].at \in WithRow =>
                 /\ runner[q].at \in WithRow
                 /\ runner'[q].row = runner[q].row /\ runner'[q].key = runner[q].key
  BY <1>3, <1>4
<1> QED
  BY <1>1, <1>5, QuietStep

LEMMA SpawnCovers ==
  ASSUME OpInv, CoverInv, NEW r \in Runners, Spawn(r)
  PROVE  CoverInv'
<1> DEFINE n == Len(ledger)
           s == [runner[r] EXCEPT !.at = "unguarded"]
<1>1. /\ runner[r].at = "spawn" /\ ledger' = ledger /\ world' = world /\ status' = status
      /\ now' = now /\ runner' = [runner EXCEPT ![r] = s]
      /\ seen' = [seen EXCEPT ![runner[r].row] = world]
  BY DEF Spawn, At
<1>2. runner[r].at \in WithRow
  BY <1>1 DEF WithRow
<1>3. /\ runner[r].row = n /\ ledger[n].key = runner[r].key
      /\ n \in DOMAIN ledger /\ ledger[n].status = "running"
  BY <1>2 DEF OpInv, RunnerHasRow, CoverInv, RunnerHasLastRow
<1>4. runner \in [Runners -> States] /\ runner[r] \in States
  BY RunnerAt DEF OpInv, TypeOK, States
<1>5. s.row = n /\ s.key = runner[r].key /\ s.at = "unguarded"
  BY <1>3, <1>4 DEF States
<1> HIDE DEF s
<1>6. /\ runner'[r] = s
      /\ \A q \in Runners : q # r => runner'[q] = runner[q]
  BY <1>1, <1>4
<1>7. \A i \in DOMAIN ledger : seen'[i] = IF i = n THEN world ELSE seen[i]
  BY <1>1, <1>3, LedgerIs
<1>8. \A q \in Runners : runner'[q].row = runner[q].row
  BY <1>3, <1>5, <1>6
<1>9. RunnerHasLastRow'
  BY <1>1, <1>3, <1>5, <1>6 DEF CoverInv, RunnerHasLastRow
<1>10. InstantsOrdered' /\ LastRunSawAll'
  BY <1>1, <1>7 DEF CoverInv, InstantsOrdered, LastRunSawAll
<1>11. FirstReadIsCovered'
  <2>1. \A i \in DOMAIN ledger, k \in Providers : MayValidate(i, k)' => MayValidate(i, k)
    BY <1>1, <1>8 DEF MayValidate, Watermark, Live
  <2>2. status.at = "half" => \A k \in Providers : world[k] >= status.world[k]
    BY LedgerIs DEF CoverInv, FirstReadIsCovered, Snapshots
  <2> QED
    BY <1>1, <1>7, <2>1, <2>2 DEF CoverInv, FirstReadIsCovered, Watermark
<1>12. AnswerIsCovered'
  BY <1>1, <1>3, <1>7 DEF CoverInv, AnswerIsCovered
<1> QED
  BY <1>9, <1>10, <1>11, <1>12 DEF CoverInv

LEMMA ChildWritesCovers ==
  ASSUME OpInv, CoverInv, NEW r \in Runners, ChildWrites(r)
  PROVE  CoverInv'
<1> DEFINE n == Len(ledger)
           key == runner[r].key
<1>1. /\ child[r] = "running" /\ ledger' = ledger /\ seen' = seen /\ status' = status
      /\ now' = now /\ runner' = runner /\ key \in Providers
      /\ world' = [world EXCEPT ![key] = world[key] + 1]
  BY DEF ChildWrites, KeyOf
<1>2. runner[r].at \in WithRow
  BY <1>1, RunnerAt DEF WithChild, WithRow
<1>3. n \in DOMAIN ledger /\ ledger[n].key = key
  BY <1>2 DEF OpInv, RunnerHasRow, CoverInv, RunnerHasLastRow
<1>4. \A k \in Providers : world'[k] >= world[k] /\ (k # key => world'[k] = world[k])
  BY <1>1, LedgerIs DEF Snapshots
<1>5. InstantsOrdered' /\ RunnerHasLastRow' /\ AnswerIsCovered'
  BY <1>1 DEF CoverInv, InstantsOrdered, RunnerHasLastRow, AnswerIsCovered
<1>6. LastRunSawAll'
  <2> SUFFICES ASSUME NEW i \in DOMAIN ledger, NEW k \in Providers,
                      \A j \in DOMAIN ledger : ledger[j].key = k => j < i
               PROVE  seen[i][k] = world'[k]
    BY <1>1 DEF LastRunSawAll
  <2>1. k # key
    BY <1>3, LedgerIs
  <2> QED
    BY <1>4, <2>1 DEF CoverInv, LastRunSawAll
<1>7. FirstReadIsCovered'
  <2>1. \A i \in DOMAIN ledger, k \in Providers : MayValidate(i, k)' => MayValidate(i, k)
    BY <1>1 DEF MayValidate, Watermark, Live
  <2>2. status.at = "half" => \A k \in Providers : world'[k] >= status.world[k]
    <3>1. world' \in Snapshots
      BY <1>1, ChildSteps DEF OpInv, TypeOK, Snapshots
    <3> QED
      BY <1>4, <3>1, LedgerIs DEF CoverInv, FirstReadIsCovered, Snapshots
  <2> QED
    BY <1>1, <2>1, <2>2 DEF CoverInv, FirstReadIsCovered, Watermark
<1> QED
  BY <1>5, <1>6, <1>7 DEF CoverInv

(* When no completed row is written, a row that has ended keeps its instants. *)
LEMMA FailInterruptedRows ==
  ASSUME NEW table \in Seq(Rows), NEW key, NEW t \in Nat
  PROVE  LET new == FailInterruptedRun(table, key, t)
         IN  \A j \in DOMAIN table :
               /\ new[j].started = table[j].started
               /\ new[j].status = "completed" => new[j] = table[j]
               /\ table[j].status = "completed" => new[j] = table[j]
               /\ new[j] # table[j] => new[j].finished = t
<1> SUFFICES ASSUME NEW j \in DOMAIN table
             PROVE  LET new == FailInterruptedRun(table, key, t)
                    IN  /\ new[j].started = table[j].started
                        /\ new[j].status = "completed" => new[j] = table[j]
                        /\ table[j].status = "completed" => new[j] = table[j]
                        /\ new[j] # table[j] => new[j].finished = t
  OBVIOUS
<1> DEFINE row == table[j]
           failed == Finished(row, "failed", "interrupted_previous_run", t)
<1>1. row \in Rows
  OBVIOUS
<1> HIDE DEF row
<1>2. failed.status = "failed" /\ failed.started = row.started /\ failed.finished = t
  BY <1>1 DEF Finished, Rows
<1>3. FailInterruptedRun(table, key, t)[j] =
        IF row.key = key /\ row.status = "running" THEN failed ELSE row
  BY DEF FailInterruptedRun, Running, row
<1> QED
  BY <1>2, <1>3 DEF row

LEMMA FailInterruptedCovers ==
  ASSUME OpInv, CoverInv, NEW r \in Runners, FailInterrupted(r)
  PROVE  CoverInv'
<1>1. /\ runner[r].at = "recover" /\ world' = world /\ seen' = seen /\ status' = status
      /\ now' = now + 1 /\ ledger' = FailInterruptedRun(ledger, runner[r].key, now')
      /\ runner' = [runner EXCEPT ![r].at = "begin"]
  BY DEF FailInterrupted, At
<1> DEFINE s == [runner[r] EXCEPT !.at = "begin"]
<1>2. runner \in [Runners -> States] /\ runner[r] \in States /\ runner[r].at \in UnderLock
  BY <1>1, RunnerAt DEF OpInv, TypeOK, States, UnderLock
<1>3. s.at = "begin" /\ s.row = runner[r].row
  BY <1>2 DEF States
<1>4. runner' = [runner EXCEPT ![r] = s]
  BY <1>1
<1> HIDE DEF s
<1>5. /\ runner'[r] = s
      /\ \A q \in Runners : q # r => runner'[q] = runner[q] /\ runner[q].at \notin WithRow
  BY <1>2, <1>4, OthersHaveNothing
<1>6. \A q \in Runners : runner'[q].row = 0
  BY <1>3, <1>5, FailInterruptedStep
<1>7. now \in Nat /\ now' \in Nat /\ now' = now + 1
  BY <1>1, LedgerIs
<1>8. /\ DOMAIN ledger' = DOMAIN ledger /\ ledger' \in Seq(Rows)
      /\ \A j \in DOMAIN ledger :
           /\ ledger'[j].key = ledger[j].key
           /\ ledger'[j].status = "running" => ledger'[j] = ledger[j]
           /\ ledger'[j].started = ledger[j].started
           /\ ledger'[j].status = "completed" => ledger'[j] = ledger[j]
           /\ ledger[j].status = "completed" => ledger'[j] = ledger[j]
           /\ ledger'[j] # ledger[j] => ledger'[j].finished = now'
  BY <1>1, <1>7, LedgerIs, UnsetIs, FailInterruptedType, FailInterruptedRows
<1>9. InstantsOrdered'
  <2>1. ASSUME NEW i \in DOMAIN ledger
        PROVE  /\ ledger'[i].started <= now'
               /\ ledger'[i].status # "running" =>
                    ledger'[i].started <= ledger'[i].finished /\ ledger'[i].finished <= now'
    <3>1. /\ ledger[i].started \in Nat /\ ledger[i].started <= now
          /\ ledger[i].status # "running" =>
               ledger[i].finished \in Nat /\ ledger[i].started <= ledger[i].finished
               /\ ledger[i].finished <= now
      BY LedgerIs DEF CoverInv, InstantsOrdered
    <3> QED
      BY <1>7, <1>8, <3>1
  <2> QED
    BY <1>8, <2>1 DEF CoverInv, InstantsOrdered
<1>10. RunnerHasLastRow'
  BY <1>3, <1>5 DEF RunnerHasLastRow, WithRow
<1>11. LastRunSawAll'
  BY <1>1, <1>8 DEF CoverInv, LastRunSawAll
<1>12. FirstReadIsCovered'
  <2>1. ASSUME NEW i \in DOMAIN ledger, NEW k \in Providers, MayValidate(i, k)'
        PROVE  MayValidate(i, k)
    <3>1. ~Live(i)'
      BY <1>6, LedgerIs DEF Live
    <3> QED
      BY <1>1, <1>8, <2>1, <3>1 DEF MayValidate, Watermark
  <2>2. \A w \in Nat : w <= now => w <= now'
    BY <1>7
  <2> QED
    BY <1>1, <1>8, <2>1, <2>2 DEF CoverInv, FirstReadIsCovered, Watermark
<1>13. AnswerIsCovered'
  BY <1>1, <1>8 DEF CoverInv, AnswerIsCovered
<1> QED
  BY <1>9, <1>10, <1>11, <1>12, <1>13 DEF CoverInv

LEMMA BeginCovers ==
  ASSUME OpInv, CoverInv, NEW r \in Runners, Begin(r)
  PROVE  CoverInv'
<1> DEFINE n == Len(ledger) + 1
           s == [runner[r] EXCEPT !.at = "spawn", !.row = Len(ledger')]
           row == [key |-> runner[r].key, status |-> "running", started |-> now',
                   finished |-> Unset, error |-> Unset]
<1>1. /\ runner[r].at = "begin" /\ world' = world /\ status' = status
      /\ now' = now + 1 /\ ledger' = Append(ledger, row) /\ seen' = Append(seen, world)
  BY DEF Begin, At, BeginRun
<1>2. runner \in [Runners -> States] /\ runner[r] \in States /\ runner[r].at \in UnderLock
  BY <1>1, RunnerAt DEF OpInv, TypeOK, States, UnderLock
<1>3. runner' = [runner EXCEPT ![r] = s]
  BY <1>2 DEF Begin, States
<1>4. s.at = "spawn" /\ s.row = Len(ledger') /\ s.key = runner[r].key
  BY <1>2 DEF States
<1>5. row.key = runner[r].key /\ row.status = "running" /\ row.started = now'
  OBVIOUS
<1> HIDE DEF s, row
<1>6. /\ Len(ledger') = n /\ DOMAIN ledger' = 1..n /\ n \in Nat
      /\ ledger'[n] = row /\ \A i \in DOMAIN ledger : ledger'[i] = ledger[i]
      /\ seen'[n] = world /\ \A i \in DOMAIN ledger : seen'[i] = seen[i]
      /\ \A i \in DOMAIN ledger' : i = n \/ i \in DOMAIN ledger
      /\ \A i \in DOMAIN ledger : i < n /\ i \in DOMAIN ledger'
  BY <1>1, LedgerIs
<1>7. /\ runner'[r] = s
      /\ \A q \in Runners : q # r => runner'[q] = runner[q] /\ runner[q].at \notin WithRow
                                     /\ runner[q].row = 0
  BY <1>2, <1>3, OthersHaveNothing
<1>8. now \in Nat /\ now' \in Nat /\ now' = now + 1
  BY <1>1, LedgerIs
<1>9. \A i \in DOMAIN ledger :
         /\ ledger[i].started \in Nat /\ ledger[i].started < now'
         /\ ledger[i].status # "running" =>
              ledger[i].finished \in Nat /\ ledger[i].finished < now'
  BY <1>8, LedgerIs DEF CoverInv, InstantsOrdered
<1> HIDE DEF n
<1>10. InstantsOrdered'
  <2>1. ASSUME NEW i \in DOMAIN ledger'
        PROVE  /\ ledger'[i].started <= now'
               /\ ledger'[i].status # "running" =>
                    ledger'[i].started <= ledger'[i].finished /\ ledger'[i].finished <= now'
    <3>1. CASE i = n
      BY <1>5, <1>6, <1>8, <3>1
    <3>2. CASE i \in DOMAIN ledger
      BY <1>6, <1>8, <1>9, <3>2 DEF CoverInv, InstantsOrdered
    <3> QED
      BY <1>6, <3>1, <3>2
  <2>2. ASSUME NEW i \in DOMAIN ledger', NEW j \in DOMAIN ledger', i < j
        PROVE  /\ ledger'[i].started < ledger'[j].started
               /\ ledger'[i].status = "completed" => ledger'[i].finished < ledger'[j].started
    <3>1. i \in DOMAIN ledger
      BY <1>6, <2>2
    <3>2. CASE j = n
      BY <1>5, <1>6, <1>9, <3>1, <3>2
    <3>3. CASE j \in DOMAIN ledger
      BY <1>6, <2>2, <3>1, <3>3 DEF CoverInv, InstantsOrdered
    <3> QED
      BY <1>6, <3>2, <3>3
  <2> QED
    BY <2>1, <2>2 DEF InstantsOrdered
<1>11. RunnerHasLastRow'
  BY <1>4, <1>5, <1>6, <1>7 DEF RunnerHasLastRow
<1>12. LastRunSawAll'
  <2> SUFFICES ASSUME NEW i \in DOMAIN ledger', NEW k \in Providers,
                      \A j \in DOMAIN ledger' : ledger'[j].key = k => j < i
               PROVE  seen'[i][k] = world[k]
    BY <1>1 DEF LastRunSawAll
  <2>1. CASE i = n
    BY <1>6, <2>1
  <2>2. CASE i \in DOMAIN ledger
    <3>1. \A j \in DOMAIN ledger : ledger[j].key = k => j < i
      BY <1>6
    <3> QED
      BY <1>6, <2>2, <3>1 DEF CoverInv, LastRunSawAll
  <2> QED
    BY <1>6, <2>1, <2>2
<1>13. FirstReadIsCovered'
  <2> SUFFICES ASSUME status.at = "half"
               PROVE  FirstReadIsCovered'
    BY <1>1 DEF FirstReadIsCovered
  <2>1. ASSUME NEW i \in DOMAIN ledger, NEW k \in Providers, MayValidate(i, k)'
        PROVE  MayValidate(i, k)
    <3>1. Live(i)' => Live(i)
      BY <1>4, <1>6, <1>7 DEF Live
    <3> QED
      BY <1>1, <1>6, <2>1, <3>1 DEF MayValidate, Watermark
  <2>2. \A w \in Nat : w <= now => w <= now'
    BY <1>8
  <2>3. \A k \in Providers : world[k] >= status.world[k]
    BY LedgerIs DEF CoverInv, FirstReadIsCovered, Snapshots
  <2>4. ASSUME NEW i \in DOMAIN ledger', NEW k \in Providers,
               ledger'[i].key # k, MayValidate(i, k)'
        PROVE  seen'[i][k] >= status.world[k]
    <3>1. CASE i = n
      BY <1>6, <2>3, <3>1
    <3>2. CASE i \in DOMAIN ledger
      BY <1>6, <2>1, <2>4, <3>2 DEF CoverInv, FirstReadIsCovered
    <3> QED
      BY <1>6, <3>1, <3>2
  <2> QED
    BY <1>1, <2>2, <2>4 DEF CoverInv, FirstReadIsCovered, Watermark
<1>14. AnswerIsCovered'
  BY <1>1, <1>6 DEF CoverInv, AnswerIsCovered
<1> QED
  BY <1>10, <1>11, <1>12, <1>13, <1>14 DEF CoverInv

LEMMA FinishRows ==
  ASSUME NEW table \in Seq(Rows), NEW i \in DOMAIN table, NEW t \in Nat,
         NEW new, new \in {CompleteRun(table, i, t), FailRun(table, i, t)}
  PROVE  new[i].started = table[i].started /\ new[i].finished = t
<1> DEFINE row == table[i]
<1>1. row \in Rows
  OBVIOUS
<1> HIDE DEF row
<1>2. \A status_, error_ : /\ Finished(row, status_, error_, t).started = row.started
                           /\ Finished(row, status_, error_, t).finished = t
  BY <1>1 DEF Finished, Rows
<1>3. \/ new[i] = Finished(row, "completed", Unset, t)
      \/ new[i] = Finished(row, "failed", "execution_failed", t)
  BY DEF CompleteRun, FailRun, row
<1> QED
  BY <1>2, <1>3 DEF row

LEMMA FinishCovers ==
  ASSUME OpInv, CoverInv, NEW r \in Runners, Finish(r)
  PROVE  CoverInv'
<1> DEFINE n == Len(ledger)
<1>1. /\ runner[r].at = "finish" /\ now' = now + 1 /\ Exit(r) /\ world' = world
      /\ seen' = seen /\ status' = status
  BY DEF Finish, At
<1>2. runner[r].at \in WithRow /\ runner[r].at \in UnderLock
  BY <1>1 DEF WithRow, UnderLock
<1>3. /\ runner[r].row = n /\ n \in DOMAIN ledger /\ ledger[n].status = "running"
  BY <1>2 DEF OpInv, RunnerHasRow, CoverInv, RunnerHasLastRow
<1>4. ledger' \in {CompleteRun(ledger, n, now'), FailRun(ledger, n, now')}
  BY <1>3 DEF Finish
<1>5. now \in Nat /\ now' \in Nat /\ now' = now + 1 /\ n \in Nat /\ \A i \in DOMAIN ledger : i <= n
  BY <1>1, LedgerIs
<1>6. /\ DOMAIN ledger' = DOMAIN ledger
      /\ \A j \in DOMAIN ledger : ledger'[j].key = ledger[j].key
      /\ \A j \in DOMAIN ledger : j # n => ledger'[j] = ledger[j]
      /\ ledger'[n].started = ledger[n].started /\ ledger'[n].finished = now'
  <2> DEFINE t == now'
             new == ledger'
             old == ledger
  <2>1. /\ new \in {CompleteRun(old, n, t), FailRun(old, n, t)} /\ t \in Nat
        /\ old \in Seq(Rows) /\ n \in DOMAIN old
    BY <1>3, <1>4, <1>5, LedgerIs
  <2> HIDE DEF t, new, old, n
  <2>2. /\ new \in Seq(Rows) /\ Len(new) = Len(old)
        /\ \A j \in DOMAIN old : new[j].key = old[j].key
        /\ \A j \in DOMAIN old : j # n => new[j] = old[j]
        /\ new[n].started = old[n].started /\ new[n].finished = t
    BY <2>1, UnsetIs, FinishRunType, FinishRows
  <2>3. DOMAIN new = DOMAIN old
    BY <2>1, <2>2
  <2> QED
    BY <2>2, <2>3 DEF new, old, t
<1>7. \A q \in Runners : runner'[q].row = 0 /\ runner'[q].at \notin WithRow
  <2>1. runner' = [runner EXCEPT ![r] = Idle] /\ Idle.row = 0 /\ Idle.at \notin WithRow
    BY <1>1 DEF Exit, Idle, WithRow
  <2>2. runner \in [Runners -> States]
    BY DEF OpInv, TypeOK, States
  <2> QED
    BY <1>2, <2>1, <2>2, OthersHaveNothing
<1> HIDE DEF n
<1>8. InstantsOrdered'
  <2>1. ASSUME NEW i \in DOMAIN ledger
        PROVE  /\ ledger'[i].started <= now'
               /\ ledger'[i].status # "running" =>
                    ledger'[i].started <= ledger'[i].finished /\ ledger'[i].finished <= now'
    <3>1. /\ ledger[i].started \in Nat /\ ledger[i].started <= now
          /\ ledger[i].status # "running" =>
               ledger[i].finished \in Nat /\ ledger[i].started <= ledger[i].finished
               /\ ledger[i].finished <= now
      BY LedgerIs DEF CoverInv, InstantsOrdered
    <3> QED
      BY <1>5, <1>6, <3>1
  <2>2. ASSUME NEW i \in DOMAIN ledger, NEW j \in DOMAIN ledger, i < j
        PROVE  /\ ledger'[i].started < ledger'[j].started
               /\ ledger'[i].status = "completed" => ledger'[i].finished < ledger'[j].started
    <3>1. i # n
      BY <1>5, <2>2, LedgerIs
    <3>2. ledger'[i] = ledger[i] /\ ledger'[j].started = ledger[j].started
      BY <1>6, <3>1
    <3> QED
      BY <2>2, <3>2 DEF CoverInv, InstantsOrdered
  <2> QED
    BY <1>6, <2>1, <2>2 DEF InstantsOrdered
<1>9. RunnerHasLastRow'
  BY <1>7 DEF RunnerHasLastRow
<1>10. LastRunSawAll'
  BY <1>1, <1>6 DEF CoverInv, LastRunSawAll
<1>11. FirstReadIsCovered'
  <2>1. ASSUME NEW i \in DOMAIN ledger, NEW k \in Providers, MayValidate(i, k)'
        PROVE  MayValidate(i, k)
    <3>1. ~Live(i)'
      BY <1>7, LedgerIs DEF Live
    <3>2. CASE i = n
      BY <1>3, <3>2 DEF MayValidate, Live
    <3>3. CASE i # n
      BY <1>1, <1>6, <2>1, <3>1, <3>3 DEF MayValidate, Watermark
    <3> QED
      BY <3>2, <3>3
  <2>2. \A w \in Nat : w <= now => w <= now'
    BY <1>5
  <2> QED
    BY <1>1, <1>6, <2>1, <2>2 DEF CoverInv, FirstReadIsCovered, Watermark
<1>12. AnswerIsCovered'
  <2>1. \A i \in DOMAIN ledger : ledger[i].status = "completed" => i # n
    BY <1>3
  <2> QED
    BY <1>1, <1>6, <2>1 DEF CoverInv, AnswerIsCovered
<1> QED
  BY <1>8, <1>9, <1>10, <1>11, <1>12 DEF CoverInv

\* The row that a status reports of a pipeline is the last one it has.
LEMMA LatestRunIs ==
  ASSUME OpInv, CoverInv, NEW k \in DOMAIN LatestRuns(ledger)
  PROVE  \E i \in RowsOf(ledger, k) :
            /\ LatestRuns(ledger)[k] = ledger[i]
            /\ \A j \in RowsOf(ledger, k) : j <= i
<1> DEFINE R == RowsOf(ledger, k)
           Best(i) == \A j \in R : ledger[j].started <= ledger[i].started
<1>1. PICK i0 \in DOMAIN ledger : ledger[i0].key = k
  BY DEF LatestRuns
<1>2. R \in SUBSET (0..Len(ledger)) /\ R # {}
  BY <1>1, LedgerIs DEF RowsOf
<1>3. Max(R) \in R /\ \A y \in R : y <= Max(R)
  <2> HIDE DEF R
  <2> QED
    BY <1>2, LedgerIs, MaxIsMember
<1> DEFINE m == Max(R)
           best == CHOOSE i \in R : Best(i)
<1>4. R \subseteq DOMAIN ledger /\ \A j \in R : j \in Nat
  BY LedgerIs DEF RowsOf
<1>5. LatestRuns(ledger)[k] = ledger[best]
  BY DEF LatestRuns
<1> HIDE DEF R, m
<1>6. \A i, j \in R : i < j => ledger[i].started < ledger[j].started
  BY <1>4 DEF CoverInv, InstantsOrdered
<1>7. \A j \in R : ledger[j].started \in Nat
  BY <1>4, LedgerIs
<1>8. Best(m)
  <2> SUFFICES ASSUME NEW j \in R PROVE ledger[j].started <= ledger[m].started
    OBVIOUS
  <2>1. m \in R /\ j <= m
    BY <1>3 DEF m
  <2>2. CASE j = m
    BY <1>7, <2>2
  <2>3. CASE j < m
    BY <1>6, <1>7, <2>1, <2>3
  <2> QED
    BY <1>4, <2>1, <2>2, <2>3
<1>9. best \in R /\ Best(best)
  BY <1>3, <1>8 DEF m
<1> HIDE DEF best
<1>10. ASSUME NEW j \in R PROVE j <= best
  <2> SUFFICES ASSUME best < j PROVE FALSE
    BY <1>4, <1>9
  <2>1. ledger[best].started < ledger[j].started /\ ledger[j].started <= ledger[best].started
    BY <1>6, <1>9
  <2> QED
    BY <1>7, <1>9, <2>1
<1> QED
  BY <1>5, <1>9, <1>10 DEF R

LEMMA FirstReadCovers ==
  ASSUME OpInv, CoverInv, ReadLatestRuns
  PROVE  CoverInv'
<1> DEFINE latest == LatestRuns(ledger)
<1>1. /\ ledger' = ledger /\ now' = now /\ runner' = runner /\ world' = world /\ seen' = seen
      /\ status'.at = "half" /\ status'.latest = latest /\ status'.world = world
  BY DEF ReadLatestRuns, NoStatus
<1>2. InstantsOrdered' /\ RunnerHasLastRow' /\ LastRunSawAll' /\ AnswerIsCovered'
  BY <1>1 DEF CoverInv, InstantsOrdered, RunnerHasLastRow, LastRunSawAll, AnswerIsCovered
<1>3. world \in Snapshots
  BY LedgerIs
<1>4. \A k \in Providers : world[k] <= world[k]
  BY <1>3 DEF Snapshots
<1>5. ASSUME NEW i \in DOMAIN ledger, NEW k, k \in DOMAIN latest
      PROVE  Watermark(latest[k]) \in Nat /\ Watermark(latest[k]) <= now
  <2>1. PICK j \in RowsOf(ledger, k) : latest[k] = ledger[j]
    BY <1>5, LatestRunIs
  <2> QED
    BY <2>1, LedgerIs DEF RowsOf, Watermark, CoverInv, InstantsOrdered
<1>6. ASSUME NEW i \in DOMAIN ledger, NEW k \in Providers, ledger[i].key # k,
             MayValidate(i, k)'
      PROVE  \A j \in DOMAIN ledger : ledger[j].key = k => j < i
  <2> SUFFICES ASSUME NEW j \in DOMAIN ledger, ledger[j].key = k, ~(j < i)
               PROVE  FALSE
    OBVIOUS
  <2>0. i \in Nat /\ j \in Nat /\ i <= Len(ledger) /\ j <= Len(ledger) /\ i < j
    BY <1>6, LedgerIs
  <2>1. ~Live(i)
    <3> SUFFICES ASSUME NEW r \in Runners, runner[r].row = i PROVE FALSE
      BY DEF Live
    <3>1. i # 0
      BY LedgerIs
    <3>2. runner[r].at \in WithRow
      BY <3>1 DEF OpInv, RunnerHasRow
    <3> QED
      BY <2>0, <3>2, LedgerIs DEF CoverInv, RunnerHasLastRow
  <2>2. k \in DOMAIN latest
    BY DEF LatestRuns
  <2>3. ledger[i].status = "completed" /\ ledger[i].finished >= Watermark(latest[k])
    BY <1>1, <1>6, <2>1, <2>2 DEF MayValidate, Live, Watermark
  <2>4. PICK l \in RowsOf(ledger, k) : latest[k] = ledger[l] /\ \A x \in RowsOf(ledger, k) : x <= l
    BY <2>2, LatestRunIs
  <2>5. l \in DOMAIN ledger /\ i < l
    BY <2>0, <2>4, LedgerIs DEF RowsOf
  <2>6. ledger[i].finished < ledger[l].started
    BY <2>3, <2>5 DEF CoverInv, InstantsOrdered
  <2>7. ledger[l].started <= Watermark(ledger[l])
    BY <2>5, LedgerIs DEF Watermark, CoverInv, InstantsOrdered
  <2>8. ledger[i].finished \in Nat /\ ledger[l].started \in Nat /\ Watermark(ledger[l]) \in Nat
    BY <2>3, <2>5, LedgerIs DEF Watermark
  <2> QED
    BY <2>3, <2>4, <2>6, <2>7, <2>8
<1> HIDE DEF latest
<1>7. ASSUME NEW i \in DOMAIN ledger, NEW k \in Providers, ledger[i].key # k,
             MayValidate(i, k)'
      PROVE  seen[i][k] >= world[k]
  BY <1>3, <1>6, <1>7 DEF CoverInv, LastRunSawAll, Snapshots
<1>8. ASSUME NEW k \in DOMAIN latest
      PROVE  Watermark(latest[k]) \in Nat /\ Watermark(latest[k]) <= now
  BY <1>5, <1>8 DEF latest, LatestRuns
<1>9. FirstReadIsCovered'
  BY <1>1, <1>3, <1>4, <1>7, <1>8 DEF FirstReadIsCovered, Watermark
<1> QED
  BY <1>2, <1>9 DEF CoverInv

LEMMA LastSuccessIs ==
  ASSUME OpInv, CoverInv, NEW p \in DOMAIN LastSuccesses(ledger)
  PROVE  /\ LastSuccess(p) \in DOMAIN ledger
         /\ ledger[LastSuccess(p)].key = p /\ ledger[LastSuccess(p)].status = "completed"
         /\ LastSuccesses(ledger)[p] \in Nat
         /\ ledger[LastSuccess(p)].finished >= LastSuccesses(ledger)[p]
<1> DEFINE S == Successes(ledger, p)
           F == {ledger[i].finished : i \in S}
           Best(i) == \A j \in S : ledger[j].finished <= ledger[i].finished
           best == CHOOSE i \in S : Best(i)
<1>1. S # {} /\ LastSuccesses(ledger)[p] = Max(F) /\ LastSuccess(p) = best
  BY DEF LastSuccesses, LastSuccess
<1>2. \A i \in S : /\ i \in DOMAIN ledger /\ ledger[i].key = p /\ ledger[i].status = "completed"
                   /\ ledger[i].finished \in Nat /\ ledger[i].finished <= now
  BY LedgerIs DEF Successes, RowsOf, CoverInv, InstantsOrdered
<1> HIDE DEF S
<1>3. F \in SUBSET (0..now) /\ F # {}
  <2>1. \A i \in S : ledger[i].finished \in 0..now
    BY <1>2, LedgerIs
  <2>2. F # {}
    BY <1>1
  <2> QED
    BY <2>1, <2>2
<1>4. Max(F) \in F /\ \A y \in F : y <= Max(F)
  <2> HIDE DEF F
  <2> QED
    BY <1>3, LedgerIs, MaxIsMember
<1>5. PICK m \in S : ledger[m].finished = Max(F)
  BY <1>4
<1>6. Best(m)
  BY <1>4, <1>5
<1>7. best \in S /\ Best(best)
  BY <1>6
<1> HIDE DEF best, F
<1> QED
  BY <1>1, <1>2, <1>5, <1>7

LEMMA SecondReadCovers ==
  ASSUME OpInv, CoverInv, ReadLastSuccesses
  PROVE  CoverInv'
<1> DEFINE successes == LastSuccesses(ledger)
           validated == {p \in Enrichments : Validated(status.latest, successes, p)}
           last == [p \in validated |-> LastSuccess(p)]
<1>1. /\ ledger' = ledger /\ now' = now /\ runner' = runner /\ world' = world /\ seen' = seen
      /\ status.at = "half"
      /\ status' = [status EXCEPT !.at = "done", !.validated = validated, !.last = last]
  BY DEF ReadLastSuccesses
<1>2. InstantsOrdered' /\ RunnerHasLastRow' /\ LastRunSawAll'
  BY <1>1 DEF CoverInv, InstantsOrdered, RunnerHasLastRow, LastRunSawAll
<1>3. ASSUME NEW p \in validated
      PROVE  /\ last[p] \in DOMAIN ledger
             /\ ledger[last[p]].status = "completed"
             /\ \A d \in Dependencies[p] : \A k \in Groups[d] : seen[last[p]][k] >= status.world[k]
  <2> DEFINE i == last[p]
  <2>1. /\ p \in DOMAIN successes /\ p \in Enrichments /\ i = LastSuccess(p)
        /\ \A d \in Dependencies[p] :
             /\ Watermarks(status.latest, d) # {}
             /\ successes[p] >= Max(Watermarks(status.latest, d))
    BY DEF Validated
  <2>2. /\ i \in DOMAIN ledger /\ ledger[i].key = p /\ ledger[i].status = "completed"
        /\ successes[p] \in Nat /\ ledger[i].finished >= successes[p]
        /\ ledger[i].finished \in Nat
    BY <2>1, LastSuccessIs, LedgerIs
  <2> HIDE DEF i, successes, validated, last
  <2>3. ASSUME NEW d \in Dependencies[p], NEW k \in Groups[d]
        PROVE  seen[i][k] >= status.world[k]
    <3>1. p \in Pipelines /\ d \in Pipelines /\ k \in Pipelines /\ Dependencies[k] = {}
      BY <2>1, OperationsAssumption DEF Enrichments
    <3>2. k \in Providers /\ ledger[i].key # k
      BY <2>1, <2>2, <3>1 DEF Providers, Enrichments
    <3> DEFINE W == Watermarks(status.latest, d)
    <3>3. W = {Watermark(status.latest[x]) : x \in Groups[d] \cap DOMAIN status.latest}
      BY DEF Watermarks, Watermark
    <3>4. \A x \in DOMAIN status.latest : Watermark(status.latest[x]) \in 0..now
      BY <1>1, LedgerIs DEF CoverInv, FirstReadIsCovered
    <3>5. W \in SUBSET (0..now) /\ W # {} /\ successes[p] >= Max(W)
      BY <2>1, <3>3, <3>4
    <3> HIDE DEF W
    <3>6. Max(W) \in W /\ \A y \in W : y <= Max(W)
      BY <3>5, LedgerIs, MaxIsMember
    <3>7. ASSUME k \in DOMAIN status.latest
          PROVE  ledger[i].finished >= Watermark(status.latest[k])
      <4>1. Watermark(status.latest[k]) \in W
        BY <3>3, <3>7
      <4> DEFINE w == Watermark(status.latest[k])
                 m == Max(W)
      <4>2. m \in 0..now /\ w \in 0..now /\ w <= m /\ successes[p] >= m
        BY <3>5, <3>6, <4>1
      <4> HIDE DEF w, m
      <4>3. w <= m /\ w \in Nat /\ m \in Nat /\ successes[p] >= m
        BY <4>2, LedgerIs
      <4> QED
        BY <2>2, <4>3 DEF w
    <3>8. MayValidate(i, k)
      BY <2>2, <3>7 DEF MayValidate
    <3> QED
      BY <1>1, <2>2, <3>2, <3>8 DEF CoverInv, FirstReadIsCovered
  <2> QED
    BY <2>2, <2>3 DEF i
<1> HIDE DEF validated, last
<1>4. /\ status'.at = "done" /\ status'.validated = validated /\ status'.last = last
      /\ status'.world = status.world
  BY <1>1 DEF OpInv, StatusIsRecord
<1>5. FirstReadIsCovered' /\ AnswerIsCovered'
  BY <1>1, <1>3, <1>4 DEF FirstReadIsCovered, AnswerIsCovered
<1> QED
  BY <1>2, <1>5 DEF CoverInv

LEMMA AnswerCovers ==
  ASSUME OpInv, CoverInv, Answer
  PROVE  CoverInv'
<1>1. /\ ledger' = ledger /\ now' = now /\ runner' = runner /\ world' = world /\ seen' = seen
      /\ status'.at = "idle"
  BY DEF Answer, NoStatus
<1>2. InstantsOrdered' /\ RunnerHasLastRow' /\ LastRunSawAll'
  BY <1>1 DEF CoverInv, InstantsOrdered, RunnerHasLastRow, LastRunSawAll
<1>3. FirstReadIsCovered' /\ AnswerIsCovered'
  BY <1>1 DEF FirstReadIsCovered, AnswerIsCovered
<1> QED
  BY <1>2, <1>3 DEF CoverInv

LEMMA InitCovers ==
  ASSUME Init
  PROVE  CoverInv
<1>1. /\ DOMAIN ledger = {} /\ status.at = "idle"
      /\ \A r \in Runners : runner[r].at = "idle"
  BY DEF Init, NoStatus, Idle
<1> QED
  BY <1>1 DEF CoverInv, InstantsOrdered, RunnerHasLastRow, LastRunSawAll, FirstReadIsCovered,
              AnswerIsCovered, WithRow

LEMMA StepCovers ==
  ASSUME OpInv, CoverInv, [Next]_vars
  PROVE  CoverInv'
<1>1. ASSUME NEW r \in Runners,
             \/ \E key \in Pipelines : Start(r, key)
             \/ AcquireLock(r) \/ LockTimeout(r) \/ FailInterrupted(r) \/ Begin(r)
             \/ Spawn(r) \/ SetHandlers(r) \/ ChildWaited(r) \/ Interrupt(r) \/ Reaped(r)
             \/ Finish(r) \/ LedgerRaises(r) \/ Kill(r) \/ ChildWrites(r) \/ ChildExits(r)
      PROVE  CoverInv'
  <2>1. CASE FailInterrupted(r)
    BY <2>1, FailInterruptedCovers
  <2>2. CASE Begin(r)
    BY <2>2, BeginCovers
  <2>3. CASE Spawn(r)
    BY <2>3, SpawnCovers
  <2>4. CASE Finish(r)
    BY <2>4, FinishCovers
  <2>5. CASE ChildWrites(r)
    BY <2>5, ChildWritesCovers
  <2> QED
    BY <1>1, <2>1, <2>2, <2>3, <2>4, <2>5, QuietSteps
<1>2. CASE ReadLatestRuns \/ ReadLastSuccesses \/ Answer
  BY <1>2, FirstReadCovers, SecondReadCovers, AnswerCovers
<1>3. CASE UNCHANGED vars
  <2>1. \A r \in Runners : runner[r].row \in {0, runner[r].row}
    OBVIOUS
  <2> QED
    BY <1>3, <2>1, QuietStep DEF vars
<1> QED
  BY <1>1, <1>2, <1>3 DEF Next

(* An enrichment that get_status calls validated had, in its last          *)
(* successful run, read every change of its dependencies that was made     *)
(* when the status was asked for, however runs began, ended, failed or     *)
(* died between the two queries (data_status/service.py).                  *)
THEOREM ValidationCoversItsInputs ==
  ASSUME ~Detached, ~Uncovered
  PROVE  Spec => []ValidatedCoversInputs
<1>1. Init => CoverInv
  BY InitCovers
<1>2. OpInv /\ CoverInv /\ [Next]_vars => CoverInv'
  BY StepCovers
<1>3. CoverInv => ValidatedCoversInputs
  BY DEF CoverInv, AnswerIsCovered, ValidatedCoversInputs
<1> QED
  BY <1>1, <1>2, <1>3, OpInvIsInvariant, PTL DEF Spec
=============================================================================
