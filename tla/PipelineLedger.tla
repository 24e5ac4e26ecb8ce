--------------------------- MODULE PipelineLedger ---------------------------
(* The table pipeline_runs (data_status/repository.py): one row per run of a  *)
(* pipeline, written in short transactions of their own. A ledger is the      *)
(* sequence of its rows; a row is named by its position. Timestamps are       *)
(* instants of the host's clock; Unset is a column that is NULL.              *)
EXTENDS Naturals, Sequences, FiniteSetsExt

CONSTANTS Pipelines, Unset

Statuses == {"running", "completed", "failed"}
Errors == {"execution_failed", "interrupted_previous_run"}

Running(ledger, key) ==
    {i \in DOMAIN ledger : ledger[i].key = key /\ ledger[i].status = "running"}

\* The constraint ck_pipeline_runs_lifecycle.
LifecycleCheck(row) ==
    /\ row.status = "running" <=> row.finished = Unset
    /\ row.status = "failed" <=> row.error # Unset

\* The partial unique index uq_pipeline_runs_running_key.
CanBegin(ledger, key) == Running(ledger, key) = {}

BeginRun(ledger, key, now) ==
    Append(ledger, [key |-> key, status |-> "running", started |-> now,
                    finished |-> Unset, error |-> Unset])

\* _finish: complete_run leaves no error, fail_run says execution_failed.
Finished(row, status, error, now) ==
    [row EXCEPT !.status = status, !.finished = now, !.error = error]

CompleteRun(ledger, i, now) ==
    [ledger EXCEPT ![i] = Finished(@, "completed", Unset, now)]

FailRun(ledger, i, now) ==
    [ledger EXCEPT ![i] = Finished(@, "failed", "execution_failed", now)]

FailInterruptedRun(ledger, key, now) ==
    [i \in DOMAIN ledger |->
        IF i \in Running(ledger, key)
        THEN Finished(ledger[i], "failed", "interrupted_previous_run", now)
        ELSE ledger[i]]

RowsOf(ledger, key) == {i \in DOMAIN ledger : ledger[i].key = key}

\* get_latest_runs: per key the row that started last.
LatestRuns(ledger) ==
    [key \in {ledger[i].key : i \in DOMAIN ledger} |->
        ledger[CHOOSE i \in RowsOf(ledger, key) :
                 \A j \in RowsOf(ledger, key) : ledger[j].started <= ledger[i].started]]

Successes(ledger, key) ==
    {i \in RowsOf(ledger, key) : ledger[i].status = "completed"}

\* get_last_successes: per key when its last successful run finished.
LastSuccesses(ledger) ==
    [key \in {k \in Pipelines : Successes(ledger, k) # {}} |->
        Max({ledger[i].finished : i \in Successes(ledger, key)})]
=============================================================================
