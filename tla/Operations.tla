----------------------------- MODULE Operations -----------------------------
(* The formal runner (operational.py) and the data status that is derived     *)
(* from its ledger (data_status/service.py). A runner takes the host's flock, *)
(* fails the row a dead runner left, inserts its own, runs the pipeline as a  *)
(* child process and writes the end of the row before it lets the lock go.    *)
(* What a child does to the world model is counted: world[p] is how often     *)
(* children of p changed it, seen[i] what the child of row i found when it    *)
(* began. Both are history, as is owner[i], the runner that inserted row i.   *)
EXTENDS PipelineLedger

CONSTANTS
    Runners, NoRunner,
    Dependencies,      \* pipeline -> the pipelines whose effects it reads
    Groups,            \* pipeline -> its PROVIDER_MUTATION_GROUPS entry
    MaxRuns,           \* rows of the ledger
    MaxChanges,        \* changes of the world by one pipeline's children
    MaxFaults,         \* signals, kills and database failures
    Detached,          \* a killed runner leaves its child (no control group)
    Uncovered          \* signals before the handlers are set, and repeated ones

ASSUME OperationsAssumption ==
    /\ NoRunner \notin Runners
    /\ Unset \notin Nat /\ Unset \notin Errors
    /\ MaxRuns \in Nat /\ MaxChanges \in Nat /\ MaxFaults \in Nat
    /\ Detached \in BOOLEAN /\ Uncovered \in BOOLEAN
    /\ Dependencies \in [Pipelines -> SUBSET Pipelines]
    /\ Groups \in [Pipelines -> SUBSET Pipelines]
    /\ \A p \in Pipelines : p \in Groups[p] /\ p \notin Dependencies[p]
    \* Only providers' pipelines are in the group of a dependency.
    /\ \A p \in Pipelines : \A d \in Dependencies[p] : \A k \in Groups[d] : Dependencies[k] = {}

VARIABLES
    ledger, lock, now,
    runner,      \* runner -> where it is, its pipeline, its row, its child's result
    child,       \* runner -> its child process
    world, seen, owner, faults,
    status       \* one call of get_status

vars == <<ledger, lock, now, runner, child, world, seen, owner, faults, status>>

Enrichments == {p \in Pipelines : Dependencies[p] # {}}
Providers == Pipelines \ Enrichments

Stages == {"idle", "waiting", "recover", "begin", "spawn", "unguarded", "wait",
           "reap", "finish"}
Children == {"none", "running", "ok", "failed"}

Idle == [at |-> "idle", key |-> Unset, row |-> 0, result |-> "none"]

\* get_status between calls: nothing was read.
NoStatus == [at |-> "idle", latest |-> <<>>, world |-> <<>>, validated |-> {},
             last |-> <<>>]

Init ==
    /\ ledger = <<>> /\ lock = NoRunner /\ now = 0
    /\ runner = [r \in Runners |-> Idle]
    /\ child = [r \in Runners |-> "none"]
    /\ world = [p \in Providers |-> 0]
    /\ seen = <<>> /\ owner = <<>>
    /\ faults = 0
    /\ status = NoStatus

-----------------------------------------------------------------------------
(* The runner.                                                                *)

At(r, stage) == runner[r].at = stage

\* Leaving the with block of acquire_formal_lock, or the death of the process.
Exit(r) ==
    /\ runner' = [runner EXCEPT ![r] = Idle]
    /\ lock' = IF lock = r THEN NoRunner ELSE lock

\* Rows that may still be inserted by runners on their way.
Pending == {r \in Runners : runner[r].at \in {"waiting", "recover", "begin"}}

Start(r, key) ==
    /\ At(r, "idle") /\ child[r] = "none"
    /\ Len(ledger) + Cardinality(Pending) < MaxRuns
    /\ runner' = [runner EXCEPT ![r] = [Idle EXCEPT !.at = "waiting", !.key = key]]
    /\ UNCHANGED <<ledger, lock, now, child, world, seen, owner, faults, status>>

AcquireLock(r) ==
    /\ At(r, "waiting") /\ lock = NoRunner
    /\ lock' = r
    /\ runner' = [runner EXCEPT ![r].at = "recover"]
    /\ UNCHANGED <<ledger, now, child, world, seen, owner, faults, status>>

\* Mutant: after the deadline the runner goes on without the lock.
LockTimeoutIgnored(r) ==
    /\ At(r, "waiting") /\ lock # NoRunner
    /\ runner' = [runner EXCEPT ![r].at = "recover"]
    /\ UNCHANGED <<ledger, lock, now, child, world, seen, owner, faults, status>>

LockTimeout(r) ==
    /\ At(r, "waiting") /\ lock # NoRunner
    /\ Exit(r)
    /\ UNCHANGED <<ledger, now, child, world, seen, owner, faults, status>>

FailInterrupted(r) ==
    /\ At(r, "recover")
    /\ now' = now + 1
    /\ ledger' = FailInterruptedRun(ledger, runner[r].key, now')
    /\ runner' = [runner EXCEPT ![r].at = "begin"]
    /\ UNCHANGED <<lock, child, world, seen, owner, faults, status>>

Begin(r) ==
    /\ At(r, "begin") /\ CanBegin(ledger, runner[r].key)
    /\ now' = now + 1
    /\ ledger' = BeginRun(ledger, runner[r].key, now')
    /\ seen' = Append(seen, world)
    /\ owner' = Append(owner, r)
    /\ runner' = [runner EXCEPT ![r].at = "spawn", ![r].row = Len(ledger')]
    /\ UNCHANGED <<lock, child, world, faults, status>>

Spawn(r) ==
    /\ At(r, "spawn")
    /\ child' = [child EXCEPT ![r] = "running"]
    /\ seen' = [seen EXCEPT ![runner[r].row] = world]
    /\ runner' = [runner EXCEPT ![r].at = "unguarded"]
    /\ UNCHANGED <<ledger, lock, now, world, owner, faults, status>>

SetHandlers(r) ==
    /\ At(r, "unguarded")
    /\ runner' = [runner EXCEPT ![r].at = "wait"]
    /\ UNCHANGED <<ledger, lock, now, child, world, seen, owner, faults, status>>

\* process.wait() returns.
ChildWaited(r) ==
    /\ At(r, "wait") /\ child[r] \in {"ok", "failed"}
    /\ runner' = [runner EXCEPT ![r].at = "finish", ![r].result = child[r]]
    /\ child' = [child EXCEPT ![r] = "none"]
    /\ UNCHANGED <<ledger, lock, now, world, seen, owner, faults, status>>

\* Mutant: the signal ends the wait and nobody reaps the child.
InterruptWithoutReaping(r) ==
    /\ At(r, "wait")
    /\ faults < MaxFaults
    /\ faults' = faults + 1
    /\ runner' = [runner EXCEPT ![r].at = "finish", ![r].result = "failed"]
    /\ UNCHANGED <<ledger, lock, now, child, world, seen, owner, status>>

\* A catchable signal. While it waits the runner passes it on and reaps; before
\* its handlers are set the process dies of it, and while it reaps the handler
\* raises out of the reaping.
Interrupt(r) ==
    /\ runner[r].at \in (IF Uncovered THEN {"unguarded", "wait", "reap"} ELSE {"wait"})
    /\ faults < MaxFaults
    /\ faults' = faults + 1
    /\ IF At(r, "unguarded")
       THEN Exit(r)
       ELSE /\ runner' = [runner EXCEPT ![r].at = IF @ = "wait" THEN "reap" ELSE "finish",
                                        ![r].result = "failed"]
            /\ lock' = lock
    /\ UNCHANGED <<ledger, now, child, world, seen, owner, status>>

\* _terminate_and_reap returns: the process group is gone, by SIGKILL if need be.
Reaped(r) ==
    /\ At(r, "reap")
    /\ child' = [child EXCEPT ![r] = "none"]
    /\ runner' = [runner EXCEPT ![r].at = "finish"]
    /\ UNCHANGED <<ledger, lock, now, world, seen, owner, faults, status>>

\* The update matches running rows only; for another it raises.
Finish(r) ==
    /\ At(r, "finish")
    /\ now' = now + 1
    /\ ledger' = IF ledger[runner[r].row].status # "running" THEN ledger
                 ELSE IF runner[r].result = "ok" THEN CompleteRun(ledger, runner[r].row, now')
                 ELSE FailRun(ledger, runner[r].row, now')
    /\ Exit(r)
    /\ UNCHANGED <<child, world, seen, owner, faults, status>>

\* A ledger call raises, its transaction rolled back: the runner ends.
LedgerRaises(r) ==
    /\ runner[r].at \in {"recover", "begin", "finish"}
    /\ faults < MaxFaults
    /\ faults' = faults + 1
    /\ Exit(r)
    /\ UNCHANGED <<ledger, now, child, world, seen, owner, status>>

\* SIGKILL. systemd kills what is left in the control group of its unit.
Kill(r) ==
    /\ ~At(r, "idle")
    /\ faults < MaxFaults
    /\ faults' = faults + 1
    /\ Exit(r)
    /\ child' = [child EXCEPT ![r] = IF Detached THEN @ ELSE "none"]
    /\ UNCHANGED <<ledger, now, world, seen, owner, status>>

-----------------------------------------------------------------------------
(* The child: pdi.main or pdi.enrichment. Pipeline keys are kept in its       *)
(* runner, or, once that is gone, nowhere: an orphan works on all the same.   *)

KeyOf(r) == runner[r].key

ChildWrites(r) ==
    /\ child[r] = "running"
    /\ KeyOf(r) \in Providers /\ world[KeyOf(r)] < MaxChanges
    /\ world' = [world EXCEPT ![KeyOf(r)] = @ + 1]
    /\ UNCHANGED <<ledger, lock, now, runner, child, seen, owner, faults, status>>

ChildExits(r) ==
    /\ child[r] = "running"
    /\ \E result \in {"ok", "failed"} :
         child' = [child EXCEPT ![r] = IF At(r, "idle") \/ At(r, "finish") THEN "none" ELSE result]
    /\ UNCHANGED <<ledger, lock, now, runner, world, seen, owner, faults, status>>

-----------------------------------------------------------------------------
(* get_status: two queries in two transactions.                               *)

\* Mutant: only the dependency itself is looked at, not its mutation group.
WatermarkOfDependency(latest, dependency) ==
    {IF latest[k].status = "running" THEN latest[k].started ELSE latest[k].finished :
        k \in {dependency} \cap DOMAIN latest}

Watermarks(latest, dependency) ==
    {IF latest[k].status = "running" THEN latest[k].started ELSE latest[k].finished :
        k \in Groups[dependency] \cap DOMAIN latest}

Established(successes, dependency) == Groups[dependency] \cap DOMAIN successes # {}

\* validated_after_dependencies of one enrichment.
Validated(latest, successes, p) ==
    /\ p \in DOMAIN successes
    /\ \A d \in Dependencies[p] :
         /\ Established(successes, d)
         /\ Watermarks(latest, d) # {}
         /\ successes[p] >= Max(Watermarks(latest, d))

ReadLatestRuns ==
    /\ status.at = "idle"
    /\ status' = [NoStatus EXCEPT !.at = "half", !.latest = LatestRuns(ledger),
                                  !.world = world]
    /\ UNCHANGED <<ledger, lock, now, runner, child, world, seen, owner, faults>>

\* The run of a pipeline that succeeded last.
LastSuccess(p) ==
    CHOOSE i \in Successes(ledger, p) :
        \A j \in Successes(ledger, p) : ledger[j].finished <= ledger[i].finished

ReadLastSuccesses ==
    /\ status.at = "half"
    /\ LET validated == {p \in Enrichments : Validated(status.latest, LastSuccesses(ledger), p)}
       IN status' = [status EXCEPT !.at = "done", !.validated = validated,
                                   !.last = [p \in validated |-> LastSuccess(p)]]
    /\ UNCHANGED <<ledger, lock, now, runner, child, world, seen, owner, faults>>

Answer ==
    /\ status.at = "done"
    /\ status' = NoStatus
    /\ UNCHANGED <<ledger, lock, now, runner, child, world, seen, owner, faults>>

-----------------------------------------------------------------------------
Next ==
    \/ \E r \in Runners, key \in Pipelines : Start(r, key)
    \/ \E r \in Runners :
         \/ AcquireLock(r) \/ LockTimeout(r) \/ FailInterrupted(r) \/ Begin(r)
         \/ Spawn(r) \/ SetHandlers(r) \/ ChildWaited(r) \/ Interrupt(r) \/ Reaped(r)
         \/ Finish(r) \/ LedgerRaises(r) \/ Kill(r) \/ ChildWrites(r) \/ ChildExits(r)
    \/ ReadLatestRuns \/ ReadLastSuccesses \/ Answer

Spec == Init /\ [][Next]_vars

-----------------------------------------------------------------------------
(* Properties.                                                                *)

TypeOK ==
    /\ ledger \in Seq([key : Pipelines, status : Statuses, started : Nat,
                       finished : Nat \cup {Unset}, error : Errors \cup {Unset}])
    /\ \A i \in DOMAIN ledger : LifecycleCheck(ledger[i])
    /\ lock \in Runners \cup {NoRunner} /\ now \in Nat
    /\ runner \in [Runners -> [at : Stages, key : Pipelines \cup {Unset}, row : Nat,
                               result : Children]]
    /\ child \in [Runners -> Children]
    /\ world \in [Providers -> 0..MaxChanges] /\ faults \in 0..MaxFaults
    /\ seen \in Seq([Providers -> 0..MaxChanges]) /\ owner \in Seq(Runners)
    /\ status.at \in {"idle", "half", "done"} /\ status.validated \subseteq Enrichments

\* A pipeline's process runs only while its runner holds the lock, so no two
\* pipelines ever work on the world model at once (_terminate_and_reap,
\* acquire_formal_lock).
LockCoversChild ==
    \A r \in Runners : child[r] = "running" => lock = r

\* A row that says running belongs to the run that holds the lock, or its
\* runner has given it up: no live run is ever taken for an interrupted one, and
\* the unique index is met by nobody (_execute_with_ledger).
RunningRowIsLiveOrLost ==
    \A i \in DOMAIN ledger :
        /\ ledger[i].status = "running"
             => \A j \in DOMAIN ledger : ledger[j].key = ledger[i].key => j <= i
        /\ \A r \in Runners :
             (runner[r].row = i => ledger[i].status = "running" /\ lock = r)

\* An enrichment reported as validated has read every change that its
\* dependencies had made when the status was asked for, whatever ran, failed or
\* died in between the two queries of get_status (service.py:92).
ValidatedCoversInputs ==
    status.at = "done" =>
        \A p \in status.validated : \A d \in Dependencies[p] : \A k \in Groups[d] :
            seen[status.last[p]][k] >= status.world[k]

\* A row that a dead runner left running never stands in the way of the next run
\* of its pipeline (fail_interrupted_run before begin_run, the unique index).
LostRowNeverBlocks ==
    \A r \in Runners : At(r, "begin") => CanBegin(ledger, runner[r].key)

\* Lock, processes and rows agree.
LockAndLedgerAgree == TypeOK /\ LockCoversChild /\ RunningRowIsLiveOrLost /\ LostRowNeverBlocks

\* A run is called interrupted only when its runner is gone: the child that
\* worked for it works no more, and the row is final from then on.
OnlyLostRunsAreInterrupted ==
    [][\A i \in DOMAIN ledger :
         ledger'[i] # ledger[i] =>
            /\ ledger[i].status = "running"
            /\ ledger'[i].error = "interrupted_previous_run" =>
                 /\ \A r \in Runners : runner[r].row # i
                 /\ \A r \in Runners : child[r] = "none"]_vars
=============================================================================
