--------------------------- MODULE TurnProperties ---------------------------
(***************************************************************************)
(* What browsers, and the next message of a conversation, rely on.         *)
(***************************************************************************)
EXTENDS TurnCoordinator

Status == {"none", "running"} \cup Final

Rows == [status : Status, conversation : Conversations \cup {NoConversation},
         answer : Seq(Nat)]

Events == [seq : Nat, type : EventTypes, text : Seq(Nat)]

Views == [seq : Nat, text : Seq(Nat), terminal : Outcomes \cup {"none"}]

Tasks ==
    [at : {"idle", "spawn", "request", "read", "wait", "cleanup", "put", "end"},
     process : {"none", "alive", "gone"}, cancel : BOOLEAN,
     terminal : Outcomes \cup {"none"}, ready : BOOLEAN, completion : BOOLEAN,
     seq : Nat, queue : Seq(Events)]

Requests == {NoRequest} \cup [at : {"grace", "join"}, turn : Turns]

Responses == [turn : Turns \cup {NoTurnId}, status : Status \cup {"error"}]

TypeOK ==
    /\ stored \in [Turns -> Rows]
    /\ failures \in [Turns -> Nat]
    /\ registry \in Seq(Turns)
    /\ live \in [Turns -> Views]
    /\ announced \in [Turns -> SUBSET Outcomes]
    /\ task \in [Turns -> Tasks]
    /\ spoken \in [Turns -> Nat]
    /\ mode \in {"down", "up", "stopping"}
    /\ restarts \in 0..MaxRestarts
    /\ consumer \in [Turns -> {"none", "get", "done", "raised", "cancelled"}]
    /\ request \in [Clients -> Requests]
    /\ response \in Responses

(***************************************************************************)
(* The inductive invariant.                                                *)
(***************************************************************************)
\* A consumer works for a turn that runs in the store, and there is none without the
\* process.
ConsumersOwnRunningTurns ==
    \A t \in Turns :
        /\ consumer[t] = "get" => stored[t].status = "running"
        /\ mode = "down" => consumer[t] = "none" /\ task[t].at = "idle"

Active(t) == task[t].at \notin {"idle", "end"}

\* Until a turn's coroutine has ended its consumer waits for it, and nothing in its queue
\* is an outcome.
OutcomeComesLast ==
    \A t \in Turns :
        /\ (Active(t) /\ mode = "up") => consumer[t] = "get"
        /\ task[t].at # "end" =>
              \A i \in DOMAIN task[t].queue : task[t].queue[i].type \notin Outcomes
        /\ task[t].at \in {"cleanup", "put", "end"} => task[t].terminal # "none"

\* A process lives only within its coroutine.
ProcessWithinTask ==
    \A t \in Turns :
        task[t].process = "alive" => task[t].at \in {"request", "read", "wait", "cleanup"}

OneTaskPerConversation ==
    \A t, u \in Turns :
        (Active(t) /\ Active(u) /\ stored[t].conversation = stored[u].conversation) => t = u

LifeInv ==
    /\ ConsumersOwnRunningTurns
    /\ OutcomeComesLast
    /\ ProcessWithinTask
    /\ OneTaskPerConversation

(***************************************************************************)
(* The second one: how events and outcomes travel. It rests on the first.  *)
(***************************************************************************)
\* The registry lists turns that were started, each once, and none without a process.
RegistryListsStartedTurns ==
    /\ mode = "down" => registry = <<>>
    /\ \A i, j \in DOMAIN registry : registry[i] = registry[j] => i = j
    /\ \A i \in DOMAIN registry : stored[registry[i]].status # "none"

\* The events that wait in the task r are numbered from where the registry's view is,
\* up to where the adapter is, and the outcome is the last.
QueueGoesOn(r, view) ==
    /\ \A i \in DOMAIN r.queue :
          /\ r.queue[i].seq = view.seq + i
          /\ r.queue[i].type \in Outcomes => i = Len(r.queue) /\ r.queue[i].text = <<>>
    /\ r.at \notin {"idle", "end"} =>
          r.seq = view.seq + Len(r.queue) + (IF r.terminal = "none" THEN 0 ELSE 1)

\* The text so far and what waits in the queue q are the `pieces` that were streamed:
\* n[i] of them have gone by with the i-th event.
TextGoesOn(q, text, pieces) ==
    \E n \in [0..Len(q) -> 0..pieces] :
        /\ text = [i \in 1..n[0] |-> i]
        /\ n[Len(q)] = pieces
        /\ \A i \in DOMAIN q :
              \/ n[i] = n[i - 1] /\ q[i].text = <<>>
              \/ n[i] = n[i - 1] + 1 /\ q[i].text = <<n[i]>>

ConsumersFollowTheirTurns ==
    \A t \in Owned :
        /\ Registered(t)
        /\ live[t].terminal = "none"
        /\ QueueGoesOn(task[t], live[t])
        /\ TextGoesOn(task[t].queue, live[t].text, spoken[t])

\* A bridge speaks only for a turn that has no answer yet.
BridgesSpeakInTime ==
    \A t \in Turns :
        /\ stored[t].status = "none" => spoken[t] = 0
        /\ Active(t) => stored[t].status \in {"running", "interrupted"}

\* While the store has not failed for it, a turn that runs has its consumer, and one that
\* has ended shows the outcome of its row.
OutcomesAreShown ==
    /\ \A t \in Turns : (mode = "up" /\ failures[t] = 0) =>
          /\ stored[t].status = "running" => consumer[t] = "get"
          /\ (stored[t].status \in Final /\ Registered(t)) =>
                live[t].terminal = stored[t].status
    /\ \A c \in Clients :
          request[c].at # "idle" => stored[request[c].turn].status # "none"

FlowInv ==
    /\ RegistryListsStartedTurns
    /\ ConsumersFollowTheirTurns
    /\ BridgesSpeakInTime
    /\ OutcomesAreShown

\* An outcome that browsers were told is the one in the database: across failing
\* store calls, cancellation, shutdown, a crash between commit and publication, and
\* the sweep at the next start (coordinator.py:100-127, 60-76; store.py:111-133).
AnnouncedIsStored ==
    \A t \in Turns : announced[t] \subseteq {stored[t].status}

\* A turn that has ended keeps its outcome and its answer.
OutcomeIsFinal ==
    [][\A t \in Turns : stored[t].status \in Final => stored'[t] = stored[t]]_vars

\* The stored answer is the whole text the bridge streamed, in order, and a turn that
\* did not complete has none (coordinator.py:104-108; hermes_adapter.py:240-246).
AnswerIsWhatWasStreamed ==
    \A t \in Turns :
        stored[t].answer = IF stored[t].status = "completed"
                           THEN [i \in 1..spoken[t] |-> i] ELSE <<>>

\* Two turns of a conversation never have live bridges at once: the next one can start
\* only after the outcome is stored, and the outcome is queued only after the process
\* group is gone (hermes_adapter.py:274-293; store.py:61-63).
OneBridgePerConversation ==
    \A t, u \in Turns :
        (task[t].process = "alive" /\ task[u].process = "alive"
         /\ stored[t].conversation = stored[u].conversation) => t = u

\* The registry keeps every turn that still has a consumer, whatever it evicts, and the
\* events a consumer takes are the next ones of its turn: validate_next and publish
\* never raise (registry.py:38-73; hermes_adapter.py:128-161, 292-293).
EventsFindTheirTurn ==
    mode = "up" => \A t \in Owned :
        /\ Registered(t) /\ live[t].terminal = "none"
        /\ \A i \in DOMAIN task[t].queue : task[t].queue[i].seq = live[t].seq + i

\* Until the process shuts down, and unless the store failed for that turn, a response
\* to cancel carries an outcome, and one this process brought about has been published
\* before the response (coordinator.py:48-55).
CancelIsSynchronous ==
    LET t == response.turn IN
    (/\ mode = "up"
     /\ response.status \notin {"none", "error"}
     /\ failures[t] = 0) =>
        /\ response.status \in Final
        /\ Registered(t) => live[t].terminal = response.status

\* A turn whose consumer was started ends, and browsers learn it, even if one store
\* call fails, unless the process goes down.
EveryTurnEnds ==
    \A t \in Turns :
        (consumer[t] = "get") ~>
            \/ stored[t].status \in Final /\ live[t].terminal # "none"
            \/ failures[t] > 1
            \/ mode # "up"

\* A request to cancel is answered.
EveryCancelAnswers ==
    \A c \in Clients : (request[c].at # "idle") ~> (request[c].at = "idle")

\* Neither a browser that follows a turn nor one that cancels it waits for ever.
NobodyWaitsForever == EveryTurnEnds /\ EveryCancelAnswers
=============================================================================
