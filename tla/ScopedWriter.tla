---------------------------- MODULE ScopedWriter ----------------------------
(* The writer services of the multi-user deployment (production_ops/writer.py *)
(* and scoped_operational.py): a unit runs the pipelines of its chain one     *)
(* after the other, each under the formal lock, for every enabled Scope of    *)
(* the pipeline's Provider. A systemd unit is named by its instance.          *)
EXTENDS PipelineLedger

CONSTANTS
    WriterUnits,   \* the writer units, in the order of contracts.PIPELINES
    Chain,         \* instance -> the pipelines it runs, in order
    ProviderOf,    \* pipeline -> the Provider whose Scopes it visits
    ProviderOfScope,   \* Scope -> its Provider
    LooksAgain,    \* the pipelines that open a Scope through the runtime factory
    MaxRuns,       \* rows of the ledger
    Nobody         \* holder of a free lock

VARIABLES
    sync,          \* holder of the formal lock: a unit, "operator" or Nobody
    enabled,       \* the enabled Scopes of the Personal DB (with their accounts)
    ledger,        \* no property asks when: every instant is Instant
    writer         \* instance -> its process, if any

writerVars == <<sync, enabled, ledger, writer>>

Instant == 0

Units == {WriterUnits[i] : i \in DOMAIN WriterUnits}
Stages == {"inactive", "waiting", "targets", "execute", "finish"}

\* result is what systemctl shows of the last activation.
Inactive(result) ==
    [at |-> "inactive", step |-> 0, rows |-> <<>>, left |-> {}, failed |-> FALSE,
     result |-> result]

WriterInit ==
    /\ sync = Nobody /\ enabled = {} /\ ledger = <<>>
    /\ writer = [w \in Units |-> Inactive("none")]

Key(w) == Chain[w][writer[w].step]
OpenRow(w) == writer[w].rows[Len(writer[w].rows)]
Busy(w) == writer[w].at # "inactive"

Activated ==
    [Inactive("none") EXCEPT !.at = "waiting", !.step = 1]

\* The unit's processes are gone, however they ended; a held lock goes with them.
Ends(w, result) ==
    /\ writer' = [writer EXCEPT ![w] = Inactive(result)]
    /\ sync' = IF sync = w THEN Nobody ELSE sync

WaitTimeout(w) ==
    /\ writer[w].at = "waiting" /\ sync # Nobody
    /\ Ends(w, "failed")
    /\ UNCHANGED <<enabled, ledger>>

\* The lock is taken, a lost row failed and the row of this run inserted.
BeginPipeline(w) ==
    /\ writer[w].at = "waiting" /\ sync = Nobody /\ Len(ledger) < MaxRuns
    /\ LET recovered == FailInterruptedRun(ledger, Key(w), Instant)
       IN /\ CanBegin(recovered, Key(w))
          /\ ledger' = BeginRun(recovered, Key(w), Instant)
    /\ sync' = w
    /\ writer' = [writer EXCEPT ![w].at = "targets", ![w].failed = FALSE,
                                ![w].rows = Append(@, Len(ledger'))]
    /\ UNCHANGED enabled

\* _targets: no enabled Scope of the Provider is a failure of the run.
ReadTargets(w) ==
    /\ writer[w].at = "targets"
    /\ LET targets == {s \in enabled : ProviderOfScope[s] = ProviderOf[Key(w)]}
       IN writer' = [writer EXCEPT ![w].at = IF targets = {} THEN "finish" ELSE "execute",
                                   ![w].left = targets, ![w].failed = targets = {}]
    /\ UNCHANGED <<sync, enabled, ledger>>

\* One Scope: a failure is kept and the next Scope is visited all the same. For the
\* synchronizations of a Provider the runtime factory refuses a Scope that is not
\* enabled any more; those of persons and relations do not look again.
ExecuteScope(w) ==
    /\ writer[w].at = "execute"
    /\ \E s \in writer[w].left, ok \in BOOLEAN :
         /\ Key(w) \in LooksAgain => s \in enabled \/ ~ok
         /\ writer' = [writer EXCEPT ![w].left = @ \ {s}, ![w].failed = @ \/ ~ok,
                            ![w].at = IF writer[w].left = {s} THEN "finish" ELSE @]
    /\ UNCHANGED <<sync, enabled, ledger>>

\* The row is closed and the lock given back; the chain goes on after a success.
FinishPipeline(w) ==
    /\ writer[w].at = "finish"
    /\ ledger' = IF writer[w].failed THEN FailRun(ledger, OpenRow(w), Instant)
                                     ELSE CompleteRun(ledger, OpenRow(w), Instant)
    /\ IF ~writer[w].failed /\ writer[w].step < Len(Chain[w])
       THEN /\ writer' = [writer EXCEPT ![w].at = "waiting", ![w].step = @ + 1]
            /\ sync' = Nobody
       ELSE Ends(w, IF writer[w].failed THEN "failed" ELSE "success")
    /\ UNCHANGED enabled

WriterStep(w) ==
    \/ WaitTimeout(w) \/ BeginPipeline(w) \/ ReadTargets(w) \/ ExecuteScope(w)
    \/ FinishPipeline(w)
=============================================================================
