---------------------------- MODULE HermesAdapter ----------------------------
(***************************************************************************)
(* One bridge subprocess per turn (jarvis/runtime/hermes_adapter.py). The  *)
(* coroutine _run suspends where it waits for the subprocess, and each     *)
(* stretch between two suspensions is one action. The bridge itself is     *)
(* external: it may write any record, close its output and exit at any     *)
(* time. Its records are chosen when they are read, so what it wrote       *)
(* before it exited can still be read afterwards.                          *)
(***************************************************************************)
EXTENDS RuntimeContract

CONSTANTS
    MaxEvents       \* bound: MaxEvents[t] events between "started" and the outcome

ASSUME HermesAssumption == MaxEvents \in [Turns -> Nat]

VARIABLES
    task,           \* task[t]: _run and its _HermesTurn
    spoken          \* history: pieces of text the adapter has passed on

hermesVars == <<task, spoken>>

NoTask ==
    [at |-> "idle", process |-> "none", cancel |-> FALSE, terminal |-> "none",
     ready |-> FALSE, completion |-> FALSE, seq |-> 0, queue |-> <<>>]

HermesInit ==
    /\ task = [t \in Turns |-> NoTask]
    /\ spoken = [t \in Turns |-> 0]

\* start_turn and cancel_turn, called by the coordinator
Started == [NoTask EXCEPT !.at = "spawn"]

Cancelled(r) ==
    IF r.at = "idle" \/ r.terminal # "none" THEN r ELSE [r EXCEPT !.cancel = TRUE]

\* whether cancel_turn signals a process and waits for it
Signals(r) ==
    r.at # "idle" /\ r.terminal = "none" /\ ~r.cancel /\ r.process = "alive"

\* emit: nothing after an outcome; an outcome is kept back until the process group
\* is gone, every other event is queued at once.
Emit(r, type, text) ==
    IF r.terminal # "none" THEN r
    ELSE IF type \in Outcomes THEN [r EXCEPT !.seq = @ + 1, !.terminal = type]
    ELSE [r EXCEPT !.seq = @ + 1,
                   !.queue = Append(@, RuntimeEvent(r.seq + 1, type, text))]

Become(t, r) == task' = [task EXCEPT ![t] = r]

Spawn(t) ==
    /\ task[t].at = "spawn"
    /\ Become(t, [task[t] EXCEPT !.at = "request", !.process = "alive"])
    /\ UNCHANGED spoken

SpawnFails(t) ==
    /\ task[t].at = "spawn"
    /\ Become(t, [Emit(task[t], "failed", <<>>) EXCEPT !.at = "put"])
    /\ UNCHANGED spoken

\* The request is written and drained, before the timeout of the turn begins.
SendRequest(t) ==
    /\ task[t].at = "request"
    /\ Become(t, [task[t] EXCEPT !.at = "read"])
    /\ UNCHANGED spoken

\* Any except branch of _run, then the finally block.
Fail(t) ==
    /\ Become(t, [Emit(task[t], "failed", <<>>) EXCEPT !.at = "cleanup"])
    /\ UNCHANGED spoken

\* A broken pipe, a line too long, a record that is malformed or out of place,
\* too much text.
Break(t) == task[t].at \in {"request", "read"} /\ Fail(t)

Timeout(t) == task[t].at = "read" /\ Fail(t)

\* Records that follow an outcome change nothing any more and are left out.
Reading(t) == task[t].at = "read" /\ task[t].terminal = "none"

Room(t) == task[t].ready /\ task[t].seq <= MaxEvents[t]

ReadReady(t) ==
    /\ Reading(t)
    /\ ~task[t].ready
    /\ Become(t, [Emit(task[t], "started", <<>>) EXCEPT !.ready = TRUE])
    /\ UNCHANGED spoken

\* A phase or tool record.
ReadActivity(t) ==
    /\ Reading(t)
    /\ Room(t)
    /\ Become(t, Emit(task[t], "activity", <<>>))
    /\ UNCHANGED spoken

ReadDelta(t) ==
    /\ Reading(t)
    /\ Room(t)
    /\ Become(t, Emit(task[t], "delta", <<spoken[t] + 1>>))
    /\ spoken' = [spoken EXCEPT ![t] = @ + 1]

ReadCompleted(t) ==
    /\ Reading(t)
    /\ task[t].ready
    /\ ~task[t].completion
    /\ Become(t, [task[t] EXCEPT !.completion = TRUE])
    /\ UNCHANGED spoken

ReadOutcome(t) ==
    /\ Reading(t)
    /\ task[t].ready
    /\ \E outcome \in {"failed", "cancelled"} :
          Become(t, Emit(task[t], outcome, <<>>))
    /\ UNCHANGED spoken

EndOfOutput(t) ==
    /\ task[t].at = "read"
    /\ Become(t, [task[t] EXCEPT !.at = "wait"])
    /\ UNCHANGED spoken

\* The bridge exits, by itself or because it was signalled.
BridgeExits(t) ==
    /\ task[t].process = "alive"
    /\ Become(t, [task[t] EXCEPT !.process = "gone"])
    /\ UNCHANGED spoken

\* What an exit means, unless an outcome was already read.
Verdict(r, code) ==
    IF r.cancel THEN "cancelled"
    ELSE IF r.completion /\ code = 0 THEN "completed"
    ELSE "failed"

Exited(t) ==
    /\ task[t].at = "wait"
    /\ task[t].process = "gone"
    /\ \E code \in {0, 1} :
          Become(t, [Emit(task[t], Verdict(task[t], code), <<>>) EXCEPT !.at = "cleanup"])
    /\ UNCHANGED spoken

\* Mutant: the process is left to itself.
CleanUpWithoutKill(t) ==
    /\ task[t].at = "cleanup"
    /\ Become(t, [task[t] EXCEPT !.at = "put"])
    /\ UNCHANGED spoken

\* _cleanup_process_group: whatever signals it takes, the group is gone afterwards.
CleanUp(t) ==
    /\ task[t].at = "cleanup"
    /\ Become(t, [task[t] EXCEPT !.at = "put", !.process = "gone"])
    /\ UNCHANGED spoken

\* _run ends, and its local variables with it; the cancel flag of an ended turn is
\* never looked at again.
PutOutcome(t) ==
    /\ task[t].at = "put"
    /\ Become(t, [task[t] EXCEPT
          !.at = "end", !.ready = FALSE, !.completion = FALSE, !.cancel = FALSE, !.seq = 0,
          !.queue = Append(@, RuntimeEvent(task[t].seq, task[t].terminal, <<>>))])
    /\ UNCHANGED spoken

\* What the adapter does by itself: these steps need nobody's help.
Proceed(t) ==
    Spawn(t) \/ SendRequest(t) \/ Timeout(t) \/ Exited(t) \/ CleanUp(t) \/ PutOutcome(t)

HermesStep(t) ==
    \/ Proceed(t)
    \/ SpawnFails(t) \/ Break(t) \/ EndOfOutput(t) \/ BridgeExits(t)
    \/ ReadReady(t) \/ ReadActivity(t) \/ ReadDelta(t) \/ ReadCompleted(t) \/ ReadOutcome(t)
=============================================================================
