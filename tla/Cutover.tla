------------------------------ MODULE Cutover ------------------------------
(* The operator's cutover to scoped writers (production_ops/cutover.py): a    *)
(* journalled sequence of installation, enablement and qualification that     *)
(* ends in PASS, and the abort that pauses ingestion after any failure, crash *)
(* or on demand. The control lock admits one operator process at a time; it   *)
(* is the only one modelled. Faults are failing commands and checks, signals  *)
(* and deaths of the operator process; units can be started by hand.          *)
EXTENDS ScopedWriter

CONSTANTS
    Qualification,     \* the units qualified one by one before the schedules
    Schedules,         \* the units that have a timer, in their order
    MaxFaults, MaxStarts

ASSUME CutoverAssumption ==
    /\ MaxFaults \in Nat /\ MaxStarts \in Nat /\ MaxRuns \in Nat
    /\ Chain \in [Units -> Seq(Pipelines)] /\ \A w \in Units : Len(Chain[w]) > 0
    /\ {WriterUnits, Qualification, Schedules} \subseteq Seq(Units) \ {<<>>}
    /\ \A i \in DOMAIN Qualification : Len(Chain[Qualification[i]]) = 1
    /\ Nobody \notin Units /\ "operator" \notin Units \cup {Nobody}

VARIABLES
    op,            \* the operator process
    journal,       \* state.json: its phase and how many units are qualified
    installed,     \* configuration, units and the current-release symlink
    timers,        \* unit -> its timer
    report,        \* what the last invocation printed
    faults, starts

opVars == <<op, journal, installed, timers, report, faults>>
vars == <<writerVars, opVars, starts>>

Scheduled == {Schedules[i] : i \in DOMAIN Schedules}
Phases == {"absent", "empty", "PREPARED", "ACTIVATING", "PASS",
           "ABORTING", "ABORT_INCOMPLETE", "ABORTED"}

\* i counts units, rows is the ledger of the evidence taken last, original tells
\* whether plan and database are those the journal was written for.
NoOperator == [at |-> "idle", i |-> 0, rows |-> 0, problems |-> {}, original |-> TRUE]

Init ==
    /\ WriterInit
    /\ op = NoOperator
    /\ journal = [phase |-> "absent", qualified |-> 0]
    /\ installed = "no"
    /\ timers = [w \in Scheduled |-> "absent"]
    /\ report = "none" /\ faults = 0 /\ starts = 0

Now(step) == op.at = step
Goto(step) == op' = [op EXCEPT !.at = step]
Release == sync' = IF sync = "operator" THEN Nobody ELSE sync
Reported(text) == op' = NoOperator /\ report' = text

\* What Database.evidence refuses: a wrong enablement and a running row.
Evidence(on) ==
    /\ enabled = IF on THEN DOMAIN ProviderOfScope ELSE {}
    /\ \A i \in DOMAIN ledger : ledger[i].status # "running"

SchedulesAre(state) == \A w \in Scheduled : timers[w] = state

-----------------------------------------------------------------------------
(* apply                                                                      *)

Apply ==
    /\ Now("idle")
    /\ op' = [NoOperator EXCEPT !.at = "preflight"]
    /\ report' = "none"
    /\ UNCHANGED <<writerVars, journal, installed, timers, faults, starts>>

Preflight ==
    /\ Now("preflight")
    /\ IF sync = Nobody /\ journal.phase = "absent" /\ installed = "no" /\ Evidence(FALSE)
       THEN /\ sync' = "operator"
            /\ op' = [op EXCEPT !.at = "mkdir", !.rows = Len(ledger)]
            /\ report' = report
       ELSE Reported("FAIL") /\ UNCHANGED sync
    /\ UNCHANGED <<enabled, ledger, writer, journal, installed, timers, faults, starts>>

\* save makes the state directory before it writes the journal into it.
MakeStateDirectory ==
    /\ Now("mkdir")
    /\ journal' = [journal EXCEPT !.phase = "empty"]
    /\ Goto("prepare")
    /\ UNCHANGED <<writerVars, installed, timers, report, faults, starts>>

SavePrepared ==
    /\ Now("prepare")
    /\ journal' = [journal EXCEPT !.phase = "PREPARED"]
    /\ Goto("install")
    /\ UNCHANGED <<writerVars, installed, timers, report, faults, starts>>

Install ==
    /\ Now("install")
    /\ IF installed = "no"
       THEN installed' = "partly" /\ UNCHANGED <<op, timers>>
       ELSE /\ installed' = "yes"
            /\ timers' = [w \in Scheduled |-> "disabled"]
            /\ Goto("enable")
    /\ UNCHANGED <<writerVars, journal, report, faults, starts>>

Enable ==
    /\ Now("enable") /\ SchedulesAre("disabled")
    /\ enabled' = DOMAIN ProviderOfScope
    /\ Goto("baseline")
    /\ UNCHANGED <<sync, ledger, writer, journal, installed, timers, report, faults, starts>>

CompareBaseline ==
    /\ Now("baseline") /\ Evidence(TRUE)
    /\ op' = [op EXCEPT !.at = "qualify", !.i = 1, !.rows = Len(ledger)]
    /\ Release
    /\ UNCHANGED <<enabled, ledger, writer, journal, installed, timers, report, faults, starts>>

\* systemctl start of a oneshot unit: it joins an activation under way.
StartQualified ==
    /\ Now("qualify")
    /\ LET w == Qualification[op.i]
       IN writer' = IF Busy(w) THEN writer ELSE [writer EXCEPT ![w] = Activated]
    /\ Goto("wait")
    /\ UNCHANGED <<sync, enabled, ledger, journal, installed, timers, report, faults, starts>>

Qualified ==
    /\ Now("wait") /\ writer[Qualification[op.i]].result = "success"
    /\ Goto("recheck")
    /\ UNCHANGED <<writerVars, journal, installed, timers, report, faults, starts>>

\* Since the evidence before: exactly the completed run of the unit.
AddedRows == {ledger[i] : i \in (op.rows + 1)..Len(ledger)}
ExactlyCompleted(key) ==
    /\ Len(ledger) = op.rows + 1
    /\ \A row \in AddedRows : row.key = key /\ row.status = "completed"

Recheck ==
    /\ Now("recheck") /\ sync = Nobody
    /\ SchedulesAre("disabled") /\ Evidence(TRUE)
    /\ ExactlyCompleted(Chain[Qualification[op.i]][1])
    /\ journal' = [journal EXCEPT !.qualified = op.i]
    /\ op' = [op EXCEPT !.at = IF op.i = Len(Qualification) THEN "final" ELSE "qualify",
                        !.i = @ + 1, !.rows = Len(ledger)]
    /\ UNCHANGED <<writerVars, installed, timers, report, faults, starts>>

FinalCheck ==
    /\ Now("final") /\ sync = Nobody
    /\ SchedulesAre("disabled") /\ Evidence(TRUE)
    /\ sync' = "operator"
    /\ journal' = [journal EXCEPT !.phase = "ACTIVATING"]
    /\ op' = [op EXCEPT !.at = "schedules", !.i = 1]
    /\ UNCHANGED <<enabled, ledger, writer, installed, timers, report, faults, starts>>

EnableSchedule ==
    /\ Now("schedules")
    /\ timers' = [timers EXCEPT ![Schedules[op.i]] = "enabled"]
    /\ op' = [op EXCEPT !.at = IF op.i = Len(Schedules) THEN "pass" ELSE @, !.i = @ + 1]
    /\ UNCHANGED <<writerVars, journal, installed, report, faults, starts>>

SavePass ==
    /\ Now("pass") /\ SchedulesAre("enabled")
    /\ journal' = [journal EXCEPT !.phase = "PASS"]
    /\ Goto("done")
    /\ UNCHANGED <<writerVars, installed, timers, report, faults, starts>>

Return ==
    /\ Now("done")
    /\ Reported("PASS") /\ Release
    /\ UNCHANGED <<enabled, ledger, writer, journal, installed, timers, faults, starts>>

\* verify writes nothing: under both locks it looks at the journal and the host.
Verify ==
    /\ Now("idle") /\ sync = Nobody
    /\ op' = op
    /\ report' = IF /\ journal = [phase |-> "PASS", qualified |-> Len(Qualification)]
                    /\ SchedulesAre("enabled") /\ Evidence(TRUE)
                 THEN "PASS" ELSE "FAIL"
    /\ UNCHANGED <<writerVars, journal, installed, timers, faults, starts>>

-----------------------------------------------------------------------------
(* abort: every cleanup is attempted, whatever failed before it.              *)

Problem(problems) == [op EXCEPT !.problems = @ \cup problems]

\* The command. Without a readable journal it refuses.
Abort(original) ==
    /\ Now("idle") /\ journal.phase \notin {"absent", "empty"}
    /\ op' = [NoOperator EXCEPT !.at = "aborting", !.original = original]
    /\ report' = "none"
    /\ UNCHANGED <<writerVars, journal, installed, timers, faults, starts>>

\* Mutant: the lock is asked for before the units are stopped.
SaveAbortingThenLock ==
    /\ Now("aborting")
    /\ journal' = [journal EXCEPT !.phase = "ABORTING"]
    /\ op' = [op EXCEPT !.at = "lock", !.i = 0]
    /\ UNCHANGED <<writerVars, installed, timers, report, faults, starts>>

SaveAborting ==
    /\ Now("aborting")
    /\ journal' = [journal EXCEPT !.phase = "ABORTING"]
    /\ op' = [op EXCEPT !.at = "stop timers", !.i = 1]
    /\ UNCHANGED <<writerVars, installed, timers, report, faults, starts>>

AfterTimer == IF op.i = Len(Schedules) THEN [op EXCEPT !.at = "stop units", !.i = 1]
                                       ELSE [op EXCEPT !.i = @ + 1]
AfterUnit == IF op.i = Len(WriterUnits) THEN [op EXCEPT !.at = "lock", !.i = 0]
                                      ELSE [op EXCEPT !.i = @ + 1]

StopTimer ==
    /\ Now("stop timers")
    /\ timers' = [timers EXCEPT ![Schedules[op.i]] = IF @ = "absent" THEN @ ELSE "disabled"]
    /\ op' = AfterTimer
    /\ UNCHANGED <<writerVars, journal, installed, report, faults, starts>>

\* The unit is killed where it stands; its ledger row stays as it was.
StopUnit ==
    /\ Now("stop units")
    /\ IF Busy(WriterUnits[op.i]) THEN Ends(WriterUnits[op.i], "failed")
                                  ELSE UNCHANGED <<writer, sync>>
    /\ op' = AfterUnit
    /\ UNCHANGED <<enabled, ledger, journal, installed, timers, report, faults, starts>>

LockForAbort ==
    /\ Now("lock") /\ sync = Nobody
    /\ sync' = "operator"
    /\ Goto("disable")
    /\ UNCHANGED <<enabled, ledger, writer, journal, installed, timers, report, faults, starts>>

\* Mutant: the context of the journal is not compared.
DisableAnywhere ==
    /\ Now("disable")
    /\ enabled' = (IF op.original THEN {} ELSE enabled)
    /\ op' = [op EXCEPT !.at = IF op.original THEN "confirm" ELSE "conclude"]
    /\ IF op.original THEN sync' = sync ELSE Release
    /\ UNCHANGED <<ledger, writer, journal, installed, timers, report, faults, starts>>

\* Another plan or database is refused before anything is written to it.
Disable ==
    /\ Now("disable")
    /\ IF op.original THEN enabled' = {} /\ Goto("confirm")
       ELSE /\ op' = [Problem({"identity"}) EXCEPT !.at = "conclude"]
            /\ enabled' = enabled
    /\ IF op.original THEN sync' = sync ELSE Release
    /\ UNCHANGED <<ledger, writer, journal, installed, timers, report, faults, starts>>

ConfirmDisabled ==
    /\ Now("confirm") /\ enabled = {}
    /\ Goto("conclude") /\ Release
    /\ UNCHANGED <<enabled, ledger, writer, journal, installed, timers, report, faults, starts>>

Concluded ==
    [journal EXCEPT !.phase = IF op.problems = {} THEN "ABORTED" ELSE "ABORT_INCOMPLETE"]

Conclude ==
    /\ Now("conclude")
    /\ journal' = Concluded
    /\ Reported(IF op.problems = {} THEN "PAUSED" ELSE "FAIL")
    /\ UNCHANGED <<writerVars, installed, timers, faults, starts>>

-----------------------------------------------------------------------------
(* Failures.                                                                  *)

Applying == {"mkdir", "prepare", "install", "enable", "baseline", "qualify", "wait",
             "recheck", "final", "schedules", "pass", "done"}

\* A check fails, a command fails or times out, a signal arrives: apply aborts.
\* The unit that a timed-out qualification waited for works on.
ApplyFails ==
    /\ op.at \in Applying
    /\ op' = [op EXCEPT !.at = "aborting"]
    /\ Release
    /\ faults' = faults + 1
    /\ UNCHANGED <<enabled, ledger, writer, journal, installed, timers, report, starts>>

\* A step whose condition does not hold fails without a fault of the host, and so
\* does the wait for a unit (six hours) or for the formal lock (five minutes).
Refused ==
    \/ Now("wait") /\ writer[Qualification[op.i]].result # "success"
    \/ /\ op.at \in {"recheck", "final"} /\ sync # Nobody
    \/ /\ op.at \in {"baseline", "recheck", "final"}
       /\ ~(Evidence(TRUE) /\ (Now("recheck") =>
                               ExactlyCompleted(Chain[Qualification[op.i]][1])))

ApplyRefused ==
    /\ Refused
    /\ op' = [op EXCEPT !.at = "aborting"]
    /\ Release
    /\ UNCHANGED <<enabled, ledger, writer, journal, installed, timers, report, faults, starts>>

PreflightFails ==
    /\ Now("preflight")
    /\ Reported("FAIL")
    /\ faults' = faults + 1
    /\ UNCHANGED <<writerVars, journal, installed, timers, starts>>

\* A cleanup step fails, before or after its effect; the next one is made.
CleanupFails ==
    /\ \/ /\ Now("aborting")
          /\ op' = [Problem({"journal"}) EXCEPT !.at = "stop timers", !.i = 1]
          /\ UNCHANGED <<sync, enabled, timers, report>>
          /\ journal' \in {journal, [journal EXCEPT !.phase = "ABORTING"]}
       \/ /\ Now("stop timers")
          /\ op' = [AfterTimer EXCEPT !.problems = @ \cup {"stop"}]
          /\ UNCHANGED <<sync, enabled, timers, journal, report>>
       \/ /\ Now("stop units")
          /\ op' = [AfterUnit EXCEPT !.problems = @ \cup {"stop"}]
          /\ UNCHANGED <<sync, enabled, timers, journal, report>>
       \/ /\ op.at \in {"lock", "disable", "confirm"}
          /\ op' = [Problem({"identity"}) EXCEPT !.at = "conclude"]
          /\ Release /\ UNCHANGED <<enabled, timers, journal, report>>
       \/ /\ Now("conclude") /\ Reported("FAIL")
          /\ UNCHANGED <<sync, enabled, timers>>
          /\ journal' \in {journal, Concluded}
    /\ faults' = faults + 1
    /\ UNCHANGED <<ledger, writer, installed, starts>>

\* Mutant: the abort goes on without the lock.
AbortLockIgnored ==
    /\ Now("lock") /\ sync # Nobody
    /\ Goto("disable")
    /\ UNCHANGED <<writerVars, journal, installed, timers, report, faults, starts>>

\* The wait for the formal lock runs out while somebody holds it.
AbortLockTimeout ==
    /\ Now("lock") /\ sync # Nobody
    /\ op' = [Problem({"identity"}) EXCEPT !.at = "conclude"]
    /\ UNCHANGED <<writerVars, journal, installed, timers, report, faults, starts>>

\* SIGKILL or power: the locks are free, nothing else is undone.
OperatorDies ==
    /\ ~Now("idle")
    /\ op' = NoOperator /\ Release
    /\ report' = "none" /\ faults' = faults + 1
    /\ UNCHANGED <<enabled, ledger, writer, journal, installed, timers, starts>>

-----------------------------------------------------------------------------
(* Activations the cutover does not ask for.                                  *)

StartUnit(w) ==
    /\ ~Busy(w) /\ installed = "yes"
    /\ writer' = [writer EXCEPT ![w] = Activated]
    /\ starts' = starts + 1
    /\ UNCHANGED <<sync, enabled, ledger, opVars>>

StartByHand == starts < MaxStarts /\ \E w \in Units : StartUnit(w)

StartByTimer == starts < MaxStarts /\ \E w \in Scheduled : timers[w] = "enabled" /\ StartUnit(w)

-----------------------------------------------------------------------------
OperatorStep ==
    \/ Preflight \/ MakeStateDirectory \/ SavePrepared \/ Install \/ Enable
    \/ CompareBaseline \/ StartQualified \/ Qualified \/ Recheck \/ FinalCheck
    \/ EnableSchedule \/ SavePass \/ Return \/ ApplyRefused
    \/ SaveAborting \/ StopTimer \/ StopUnit \/ LockForAbort \/ AbortLockTimeout
    \/ Disable \/ ConfirmDisabled \/ Conclude

Fault ==
    faults < MaxFaults /\ (ApplyFails \/ PreflightFails \/ CleanupFails \/ OperatorDies)

Next ==
    \/ Apply \/ Verify \/ OperatorStep \/ Fault
    \/ \E original \in BOOLEAN : Abort(original)
    \/ \E w \in Units : WriterStep(w) /\ UNCHANGED <<opVars, starts>>
    \/ StartByHand \/ StartByTimer

Spec == Init /\ [][Next]_vars

\* The operator process goes on; the human retries the abort of an attempt that
\* came to no end. A Provider may keep a unit busy for ever.
Pending == {"PREPARED", "ACTIVATING", "ABORTING", "ABORT_INCOMPLETE"}
Retry == journal.phase \in Pending /\ Abort(TRUE)
FairSpec == Spec /\ WF_vars(OperatorStep) /\ SF_vars(Retry)

-----------------------------------------------------------------------------
(* Properties.                                                                *)

TypeOK ==
    /\ sync \in Units \cup {"operator", Nobody} /\ enabled \subseteq DOMAIN ProviderOfScope
    /\ \A w \in Units :
         /\ writer[w].at \in Stages /\ writer[w].left \subseteq DOMAIN ProviderOfScope
         /\ writer[w].step \in 0..Len(Chain[w]) /\ Len(writer[w].rows) <= writer[w].step
         /\ writer[w].at \in {"targets", "execute", "finish"} <=> sync = w
    /\ journal \in [phase : Phases, qualified : 0..Len(Qualification)]
    /\ timers \in [Scheduled -> {"absent", "disabled", "enabled"}]
    /\ installed \in {"no", "partly", "yes"} /\ report \in {"none", "PASS", "PAUSED", "FAIL"}
    /\ op.problems \subseteq {"journal", "stop", "identity"}

\* Once an abort is recorded or confirmed no Scope is enabled, no timer will
\* fire and no unit is at a Provider, whatever is started by hand afterwards
\* and whatever failed before (Cutover.abort).
Quiet ==
    /\ enabled = {}
    /\ \A w \in Scheduled : timers[w] # "enabled"
    /\ \A w \in Units : writer[w].at # "execute"
AbortedMeansQuiet == journal.phase = "ABORTED" \/ report = "PAUSED" => Quiet

\* What an interrupted apply may have changed can be found and aborted: a
\* readable journal is there before anything else is (save before install).
JournalPrecedesMutation ==
    installed # "no" \/ enabled # {} \/ ~SchedulesAre("absent")
        => journal.phase \notin {"absent", "empty"}

\* No timer runs before every unit of QUALIFICATION completed its pipeline, as
\* the journal says and the ledger shows, across faults and aborts.
SchedulesAreQualified ==
    (\E w \in Scheduled : timers[w] = "enabled") =>
        /\ journal.qualified = Len(Qualification)
        /\ \A i \in DOMAIN Qualification :
             Successes(ledger, Chain[Qualification[i]][1]) # {}

\* The daily chain goes on only after success: all earlier runs of the
\* activation are completed (writer.execute).
ChainStopsOnFailure ==
    \A w \in Units : \A k \in DOMAIN writer[w].rows :
        k < writer[w].step => ledger[writer[w].rows[k]].status = "completed"

\* What a cutover has reached it has earned: the journal precedes every change,
\* qualification every timer, and success the next pipeline of a chain; and an
\* abort that is over leaves everything quiet.
CutoverIsSound ==
    /\ TypeOK
    /\ JournalPrecedesMutation /\ SchedulesAreQualified /\ ChainStopsOnFailure
    /\ AbortedMeansQuiet

\* Scopes are never enabled or disabled under a unit that visits them.
ScopesFlipUnderLock ==
    [][enabled' # enabled =>
         \A w \in Units : writer[w].at \notin {"targets", "execute", "finish"}]_vars

\* An attempt that was interrupted, or whose abort was, comes to an end when the
\* abort is retried, even if a Provider never answers the unit that holds the
\* formal lock: units are stopped before the lock is asked for.
AttemptsEnd == journal.phase \in Pending ~> journal.phase \in {"PASS", "ABORTED"}
=============================================================================
