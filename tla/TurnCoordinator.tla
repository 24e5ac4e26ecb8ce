--------------------------- MODULE TurnCoordinator ---------------------------
(***************************************************************************)
(* The life of a turn in the Jarvis web process (jarvis/web/coordinator.py *)
(* and the lifespan of jarvis/web/app.py): store, registry and adapter,    *)
(* a consumer task per turn, requests to cancel, shutdown, crash, restart. *)
(* One event loop runs everything, store calls block it, and publish does  *)
(* not suspend; so what a coroutine does between two waits for an event, a *)
(* subprocess or a task is one action.                                     *)
(***************************************************************************)
EXTENDS TurnStore, TurnRegistry, HermesAdapter

CONSTANTS
    Clients,        \* browsers that ask for cancellation
    NoTurnId,
    MaxRestarts     \* bound: starts of the process

ASSUME CoordinatorAssumption == NoTurnId \notin Turns /\ MaxRestarts \in Nat

VARIABLES
    mode,           \* "down", "up", "stopping"
    restarts,
    consumer,       \* consumer[t]: the task _consume of a turn
    request,        \* request[c] = [at, turn]: a call of cancel
    response        \* what the last step answered to a call of cancel

coordinatorVars == <<mode, restarts, consumer, request>>
vars == <<storeVars, registryVars, hermesVars, coordinatorVars, response>>

NoRequest == [at |-> "idle", turn |-> NoTurnId]
NoResponse == [turn |-> NoTurnId, status |-> "none"]

\* No process yet, and a database without turns.
Init ==
    /\ StoreInit
    /\ RegistryInit
    /\ HermesInit
    /\ mode = "down"
    /\ restarts = 0
    /\ consumer = [t \in Turns |-> "none"]
    /\ request = [c \in Clients |-> NoRequest]
    /\ response = NoResponse

Quiet == response' = NoResponse

Owned == {t \in Turns : consumer[t] = "get"}

Charge(t, cost) ==
    /\ failures[t] + cost <= MaxFaults[t]
    /\ failures' = [failures EXCEPT ![t] = @ + cost]

\* Mutant: the text so far is kept whatever the outcome.
SetStatusWithText(t, status) ==
    stored' = [stored EXCEPT ![t].status = status, ![t].answer = live[t].text]

SetStatus(t, status) ==
    stored' = [stored EXCEPT
        ![t].status = status,
        ![t].answer = IF status = "completed" /\ stored[t].status = "running"
                      THEN live[t].text ELSE @]

(***************************************************************************)
(* start                                                                   *)
(***************************************************************************)
Start(t, c) ==
    /\ mode = "up"
    /\ MayCreate(t, c)
    /\ stored' = [stored EXCEPT ![t] = Created(c)]
    /\ Register(t, Blank)
    /\ task' = [task EXCEPT ![t] = Started]
    /\ consumer' = [consumer EXCEPT ![t] = "get"]
    /\ UNCHANGED <<failures, announced, spoken, mode, restarts, request>>
    /\ Quiet

\* history_for_turn raises after create_turn has committed.
StartRaises(t, c) ==
    /\ mode = "up"
    /\ MayCreate(t, c)
    /\ Charge(t, 1)
    /\ stored' = [stored EXCEPT ![t] = Created(c)]
    /\ UNCHANGED <<registryVars, hermesVars, coordinatorVars>>
    /\ Quiet

\* The runtime refuses the turn (the request is too large); finish_without_message
\* may raise in its turn, and then nothing is published.
StartRefused(t, c) ==
    /\ mode = "up"
    /\ MayCreate(t, c)
    /\ \E w \in Finish("running", "failed") :
          /\ Charge(t, w.cost)
          /\ stored' = [stored EXCEPT ![t] = [Created(c) EXCEPT !.status = w.status]]
          /\ Register(t, IF w.raised THEN Blank
                         ELSE [Blank EXCEPT !.seq = 1, !.terminal = "failed"])
          /\ announced' = [announced EXCEPT
                ![t] = IF w.raised THEN @ ELSE @ \cup {"failed"}]
    /\ UNCHANGED <<hermesVars, coordinatorVars>>
    /\ Quiet

(***************************************************************************)
(* _consume: how the handling of one event can end. `told` is the outcome  *)
(* published, `end` what becomes of the consumer.                          *)
(***************************************************************************)
Ending(status, told, end, cost) ==
    [status |-> status, told |-> told, end |-> end, cost |-> cost]

\* Mutant: the exception is swallowed.
RescuedSilently(status, cost) == {Ending(status, "none", "done", cost)}

\* The outer except: the row is read again, and failed if it still runs.
Rescued(status, cost) ==
    {Ending(status, "none", "raised", cost + 1)}
    \cup (IF status # "running" THEN {Ending(status, "none", "done", cost)}
          ELSE {Ending(w.status, IF w.raised THEN "none" ELSE "failed",
                       IF w.raised THEN "raised" ELSE "done", cost + w.cost) :
                w \in Finish(status, "failed")})

\* Mutant: the failure is announced before, and instead of, being stored.
CommitFailedUnstored(status, cost) == {Ending(status, "failed", "done", cost)}

\* complete_turn raised: the turn is failed and announced as failed.
CommitFailed(status, cost) ==
    UNION {IF w.raised THEN Rescued(w.status, cost + w.cost)
           ELSE {Ending(w.status, "failed", "done", cost)} :
           w \in Finish(status, "failed")}

Endings(status, outcome) ==
    IF outcome = "completed"
    THEN UNION {IF w.raised THEN CommitFailed(w.status, w.cost)
                ELSE {Ending(w.status, outcome, "done", 0)} : w \in Complete(status)}
    ELSE UNION {IF w.raised THEN Rescued(w.status, w.cost)
                ELSE {Ending(w.status, outcome, "done", 0)} : w \in Finish(status, outcome)}

Event(t) == Head(task[t].queue)

\* validate_next is not a guard here: that it never raises is EventsFindTheirTurn.
Consuming(t) == mode = "up" /\ consumer[t] = "get" /\ task[t].queue # <<>>

ConsumeProgress(t) ==
    /\ Consuming(t)
    /\ Event(t).type \notin Outcomes
    /\ PublishProgress(t, Event(t).text)
    /\ task' = [task EXCEPT ![t].queue = Tail(@)]
    /\ UNCHANGED <<storeVars, spoken, coordinatorVars>>
    /\ Quiet

ConsumeOutcome(t) ==
    /\ Consuming(t)
    /\ Event(t).type \in Outcomes
    /\ \E e \in Endings(stored[t].status, Event(t).type) :
          /\ Charge(t, e.cost)
          /\ SetStatus(t, e.status)
          /\ consumer' = [consumer EXCEPT ![t] = e.end]
          /\ IF e.told = "none" THEN UNCHANGED registryVars ELSE PublishOutcome(t, e.told)
    /\ task' = [task EXCEPT ![t].queue = Tail(@)]
    /\ UNCHANGED <<spoken, mode, restarts, request>>
    /\ Quiet

(***************************************************************************)
(* cancel: the response carries the status of the row when it is sent.     *)
(***************************************************************************)
Answer(t, status) == response' = [turn |-> t, status |-> status]

Wait(c, t, at) ==
    /\ request' = [request EXCEPT ![c] = [at |-> at, turn |-> t]]
    /\ Quiet

\* Mutant: the response does not wait for the consumer.
AnswerAtOnce(c, t) ==
    /\ request' = [request EXCEPT ![c] = NoRequest]
    /\ Answer(t, stored[t].status)

\* After cancel_turn: wait for the consumer, unless it has been discarded.
JoinOrAnswer(c, t) ==
    IF consumer[t] = "get" THEN Wait(c, t, "join")
    ELSE /\ request' = [request EXCEPT ![c] = NoRequest]
         /\ Answer(t, stored[t].status)

CancelEnded(t) ==
    /\ mode = "up"
    /\ stored[t].status \in Final
    /\ Answer(t, stored[t].status)
    /\ UNCHANGED <<storeVars, registryVars, hermesVars, coordinatorVars>>

Cancel(c, t) ==
    /\ mode = "up"
    /\ request[c].at = "idle"
    /\ stored[t].status = "running"
    /\ task' = [task EXCEPT ![t] = Cancelled(@)]
    /\ IF Signals(task[t]) THEN Wait(c, t, "grace") ELSE JoinOrAnswer(c, t)
    /\ UNCHANGED <<storeVars, registryVars, spoken, mode, restarts, consumer>>

\* The signalled process has exited.
CancelGraceOver(c) ==
    /\ request[c].at = "grace"
    /\ task[request[c].turn].process # "alive"
    /\ JoinOrAnswer(c, request[c].turn)
    /\ UNCHANGED <<storeVars, registryVars, hermesVars, mode, restarts, consumer>>

\* The consumer has ended: by itself, or with an exception that fails the request too.
CancelJoined(c) ==
    /\ request[c].at = "join"
    /\ LET t == request[c].turn IN
          /\ consumer[t] # "get"
          /\ Answer(t, IF consumer[t] = "done" THEN stored[t].status ELSE "error")
    /\ request' = [request EXCEPT ![c] = NoRequest]
    /\ UNCHANGED <<storeVars, registryVars, hermesVars, mode, restarts, consumer>>

\* The browser goes away. Its request ends, with the escalation of signals it was
\* carrying out; the consumer is shielded.
Disconnect(c) ==
    /\ request[c].at # "idle"
    /\ request' = [request EXCEPT ![c] = NoRequest]
    /\ UNCHANGED <<storeVars, registryVars, hermesVars, mode, restarts, consumer>>
    /\ Quiet

(***************************************************************************)
(* shutdown, crash, startup                                                *)
(***************************************************************************)
\* The turns of `claimed` are interrupted in the store, every consumer is cancelled
\* before it can run again, and the runtime is told to stop the claimed turns.
Claim(claimed) ==
    /\ mode' = "stopping"
    /\ stored' = [t \in Turns |-> IF t \in claimed /\ stored[t].status = "running"
                                  THEN [stored[t] EXCEPT !.status = "interrupted"]
                                  ELSE stored[t]]
    /\ consumer' = [t \in Turns |-> IF t \in Owned THEN "cancelled" ELSE consumer[t]]
    /\ task' = [t \in Turns |-> IF t \in claimed THEN Cancelled(task[t]) ELSE task[t]]
    /\ UNCHANGED <<registryVars, spoken, restarts, request>>
    /\ Quiet

Shutdown ==
    /\ mode = "up"
    /\ Claim(Owned)
    /\ UNCHANGED failures

\* The store raises for one turn: those before it, in the order they were started,
\* are claimed, the rest are not.
ShutdownRaises ==
    /\ mode = "up"
    /\ \E i \in DOMAIN registry :
          /\ registry[i] \in Owned
          /\ Charge(registry[i], 1)
          /\ Claim({t \in Owned : \E j \in 1..(i - 1) : registry[j] = t})

\* The process and, with its cgroup, every bridge are gone.
ProcessLost ==
    /\ mode' = "down"
    /\ RegistryLost
    /\ task' = [t \in Turns |-> NoTask]
    /\ consumer' = [t \in Turns |-> "none"]
    /\ request' = [c \in Clients |-> NoRequest]
    /\ UNCHANGED <<failures, spoken, restarts>>
    /\ Quiet

Exit ==
    /\ mode = "stopping"
    /\ ProcessLost
    /\ UNCHANGED stored

Crash ==
    /\ mode # "down"
    /\ ProcessLost
    /\ UNCHANGED stored

\* The process dies after a store call has committed and before anything is published.
CrashAfterCommit(t) ==
    /\ Consuming(t)
    /\ Event(t).type \in Outcomes
    /\ \E w \in IF Event(t).type = "completed" THEN Complete(stored[t].status)
                ELSE Finish(stored[t].status, Event(t).type) :
          ~w.raised /\ SetStatus(t, w.status)
    /\ ProcessLost

Startup ==
    /\ mode = "down"
    /\ restarts < MaxRestarts
    /\ restarts' = restarts + 1
    /\ mode' = "up"
    /\ stored' = Swept
    /\ UNCHANGED <<failures, registryVars, hermesVars, consumer, request>>
    /\ Quiet

RuntimeStep(t) ==
    /\ HermesStep(t)
    /\ UNCHANGED <<storeVars, registryVars, coordinatorVars>>
    /\ Quiet

ProcessStep == Startup \/ Shutdown \/ ShutdownRaises \/ Exit \/ Crash

TurnStep(t) ==
    \/ \E c \in Conversations : Start(t, c) \/ StartRaises(t, c) \/ StartRefused(t, c)
    \/ ConsumeProgress(t) \/ ConsumeOutcome(t) \/ CrashAfterCommit(t)
    \/ RuntimeStep(t)

CancelStep ==
    \/ \E t \in Turns : CancelEnded(t) \/ \E c \in Clients : Cancel(c, t)
    \/ \E c \in Clients : CancelGraceOver(c) \/ CancelJoined(c) \/ Disconnect(c)

Next == ProcessStep \/ (\E t \in Turns : TurnStep(t)) \/ CancelStep

Spec == Init /\ [][Next]_vars

\* A cancel request that is still there escalates from SIGINT to SIGKILL.
Escalating(t) == \E c \in Clients : request[c] = [at |-> "grace", turn |-> t]

\* The loop runs what is ready, and the timeout of a turn expires; a bridge takes its
\* request, and exits once it has closed its output or is being killed.
Fairness ==
    /\ \A t \in Turns :
          /\ WF_vars(ConsumeProgress(t) \/ ConsumeOutcome(t))
          /\ WF_vars(Proceed(t) /\ RuntimeStep(t))
          /\ WF_vars(/\ task[t].at = "wait" \/ Escalating(t)
                     /\ BridgeExits(t) /\ RuntimeStep(t))
    /\ \A c \in Clients : WF_vars(CancelGraceOver(c) \/ CancelJoined(c))

FairSpec == Spec /\ Fairness
=============================================================================
