----------------------------- MODULE Turn_proofs -----------------------------
(***************************************************************************)
(* Proofs about TurnCoordinator: the inductive invariants TypeOK /\        *)
(* LifeInv and, on top of it, FlowInv, and what follows from them.         *)
(***************************************************************************)
EXTENDS TurnProperties, FiniteSetTheorems, TLAPS

(***************************************************************************)
(* The parts: registry, adapter, endings of _consume.                      *)
(***************************************************************************)
\* A registration leaves a list of turns and their views.
LEMMA RegisterType ==
    ASSUME TypeOK, NEW t \in Turns, NEW view \in Views, Register(t, view)
    PROVE  registry' \in Seq(Turns) /\ live' \in [Turns -> Views]
<1> DEFINE r == Append(registry, t)
           k == Cardinality(Evicted(r))
<1>1. r \in Seq(Turns)
  BY DEF TypeOK
<1>2. IsFiniteSet(Evicted(r)) /\ k \in Nat
  <2>1. IsFiniteSet(1..Len(r))
    BY <1>1, FS_Interval
  <2>2. Evicted(r) \subseteq 1..Len(r)
    BY <1>1 DEF Evicted
  <2> QED
    BY <2>1, <2>2, FS_Subset, FS_CardinalityType
<1>3. registry' \in Seq(Turns)
  <2>1. registry' = SubSeq(r, k + 1, Len(r))
    BY DEF Register
  <2> HIDE DEF r, k
  <2> QED
    BY <1>1, <1>2, <2>1
<1>4. live' \in [Turns -> Views]
  <2>1. Blank \in Views
    BY DEF Blank, Views
  <2> QED
    BY <2>1 DEF Register, TypeOK
<1> QED
  BY <1>3, <1>4

\* emit keeps the shape of a task, and sets its outcome if it is given one.
LEMMA EmitType ==
    ASSUME NEW r \in Tasks, NEW type \in EventTypes, NEW text \in Seq(Nat)
    PROVE  /\ Emit(r, type, text) \in Tasks
           /\ Emit(r, type, text).at = r.at
           /\ Emit(r, type, text).process = r.process
           /\ type \in Outcomes =>
                 Emit(r, type, text).terminal # "none" /\ Emit(r, type, text).queue = r.queue
           /\ type \notin Outcomes =>
                 \/ Emit(r, type, text).queue = r.queue
                 \/ \E e \in Events :
                       e.type = type /\ Emit(r, type, text).queue = Append(r.queue, e)
<1>1. CASE r.terminal # "none"
  BY <1>1 DEF Emit
<1>2. CASE r.terminal = "none" /\ type \in Outcomes
  <2>1. Emit(r, type, text) = [r EXCEPT !.seq = @ + 1, !.terminal = type]
    BY <1>2 DEF Emit
  <2>2. r.seq + 1 \in Nat /\ type \in Outcomes \cup {"none"} /\ type # "none"
    BY <1>2 DEF Tasks, Outcomes
  <2>3. Emit(r, type, text) \in Tasks
    BY <2>1, <2>2 DEF Tasks
  <2>4. /\ Emit(r, type, text).at = r.at
        /\ Emit(r, type, text).process = r.process
        /\ Emit(r, type, text).terminal = type
        /\ Emit(r, type, text).queue = r.queue
    BY <2>1 DEF Tasks
  <2> QED
    BY <1>2, <2>2, <2>3, <2>4
<1>3. CASE r.terminal = "none" /\ type \notin Outcomes
  <2> DEFINE e == RuntimeEvent(r.seq + 1, type, text)
             n == r.seq + 1
             q == Append(r.queue, e)
  <2>1. Emit(r, type, text) = [r EXCEPT !.seq = n, !.queue = q]
    BY <1>3 DEF Emit
  <2>2. n \in Nat /\ e \in Events /\ e.type = type
    BY DEF RuntimeEvent, Events, Tasks
  <2>3. q \in Seq(Events)
    BY <2>2 DEF Tasks
  <2>4. q = Append(r.queue, e)
    OBVIOUS
  <2> HIDE DEF e, n, q
  <2>5. [r EXCEPT !.seq = n, !.queue = q] \in Tasks
    BY <2>2, <2>3 DEF Tasks
  <2>6. /\ Emit(r, type, text).at = r.at
        /\ Emit(r, type, text).process = r.process
        /\ Emit(r, type, text).queue = q
    BY <2>1 DEF Tasks
  <2> QED
    BY <1>3, <2>1, <2>2, <2>4, <2>5, <2>6
<1> QED
  BY <1>1, <1>2, <1>3

\* What OutcomeComesLast and ProcessWithinTask say of one task.
TaskOK(r) ==
    /\ r.at # "end" => \A i \in DOMAIN r.queue : r.queue[i].type \notin Outcomes
    /\ r.at \in {"cleanup", "put", "end"} => r.terminal # "none"
    /\ r.process = "alive" => r.at \in {"request", "read", "wait", "cleanup"}

\* emit puts no outcome into the queue.
LEMMA EmitKeeps ==
    ASSUME NEW r \in Tasks, TaskOK(r), r.at # "end",
           NEW type \in EventTypes, NEW text \in Seq(Nat)
    PROVE  /\ Emit(r, type, text) \in Tasks
           /\ TaskOK(Emit(r, type, text))
           /\ Emit(r, type, text).at = r.at
           /\ Emit(r, type, text).process = r.process
           /\ type \in Outcomes => Emit(r, type, text).terminal # "none"
<1> DEFINE s == Emit(r, type, text)
<1>1. /\ s \in Tasks
      /\ s.at = r.at
      /\ s.process = r.process
      /\ type \in Outcomes => s.terminal # "none" /\ s.queue = r.queue
      /\ type \notin Outcomes =>
            \/ s.queue = r.queue
            \/ \E e \in Events : e.type = type /\ s.queue = Append(r.queue, e)
  BY EmitType
<1>2. r.terminal # "none" => s = r
  BY DEF Emit
<1> HIDE DEF s
<1>3. \A i \in DOMAIN s.queue : s.queue[i].type \notin Outcomes
  <2>1. \A i \in DOMAIN r.queue : r.queue[i].type \notin Outcomes
    BY DEF TaskOK
  <2>2. CASE s.queue = r.queue
    BY <2>1, <2>2
  <2>3. ASSUME type \notin Outcomes,
               NEW e \in Events, e.type = type, s.queue = Append(r.queue, e)
        PROVE  \A i \in DOMAIN s.queue : s.queue[i].type \notin Outcomes
    BY <2>1, <2>3 DEF Tasks
  <2> QED
    BY <1>1, <2>2, <2>3
<1>4. TaskOK(s)
  BY <1>1, <1>2, <1>3 DEF TaskOK
<1> QED
  BY <1>1, <1>4 DEF s

(***************************************************************************)
(* A step of the adapter.                                                  *)
(***************************************************************************)
\* It changes one active task, which stays active until it has ended, and keeps what
\* TaskOK says of it.
LEMMA HermesKeeps ==
    ASSUME TypeOK, NEW t \in Turns, TaskOK(task[t]), HermesStep(t)
    PROVE  /\ Active(t)
           /\ \E r \in Tasks : TaskOK(r) /\ r.at # "idle" /\ Become(t, r)
           /\ spoken' \in [Turns -> Nat]
<1> DEFINE r == task[t]
<1>1. /\ r \in Tasks
      /\ spoken \in [Turns -> Nat]
      /\ spoken[t] + 1 \in Nat
  BY DEF TypeOK
<1>2. "failed" \in EventTypes /\ "failed" \in Outcomes /\ <<>> \in Seq(Nat)
  BY DEF EventTypes, Outcomes
<1>3. ASSUME r.at # "end", NEW type \in EventTypes, NEW text \in Seq(Nat)
      PROVE  /\ Emit(r, type, text) \in Tasks
             /\ TaskOK(Emit(r, type, text))
             /\ Emit(r, type, text).at = r.at
             /\ Emit(r, type, text).process = r.process
             /\ type \in Outcomes => Emit(r, type, text).terminal # "none"
  BY <1>1, <1>3, EmitKeeps
<1>4. ASSUME r.at \in {"spawn", "request", "read", "wait"},
             NEW type \in Outcomes, NEW to \in {"cleanup", "put"},
             to = "put" => r.process # "alive"
      PROVE  /\ [Emit(r, type, <<>>) EXCEPT !.at = to] \in Tasks
             /\ TaskOK([Emit(r, type, <<>>) EXCEPT !.at = to])
             /\ [Emit(r, type, <<>>) EXCEPT !.at = to].at # "idle"
  <2> DEFINE s == Emit(r, type, <<>>)
  <2>1. /\ s \in Tasks /\ TaskOK(s) /\ s.terminal # "none"
        /\ s.at = r.at /\ s.process = r.process
    BY <1>2, <1>3, <1>4 DEF EventTypes
  <2> HIDE DEF s
  <2>2. /\ [s EXCEPT !.at = to] \in Tasks
        /\ TaskOK([s EXCEPT !.at = to])
        /\ [s EXCEPT !.at = to].at # "idle"
    BY <1>4, <2>1 DEF Tasks, TaskOK
  <2> QED
    BY <2>2 DEF s
<1>5. CASE Spawn(t)
  <2> DEFINE s == [r EXCEPT !.at = "request", !.process = "alive"]
  <2>1. s \in Tasks /\ TaskOK(s) /\ s.at # "idle"
    BY <1>1, <1>5 DEF Tasks, TaskOK, Spawn
  <2> QED
    BY <1>1, <1>5, <2>1 DEF Spawn, Active
<1>6. CASE SpawnFails(t)
  <2>1. r.process # "alive"
    BY <1>6 DEF SpawnFails, TaskOK
  <2> QED
    BY <1>1, <1>2, <1>4, <1>6, <2>1 DEF SpawnFails, Active
<1>7. CASE SendRequest(t)
  <2> DEFINE s == [r EXCEPT !.at = "read"]
  <2>1. s \in Tasks /\ TaskOK(s) /\ s.at # "idle"
    BY <1>1, <1>7 DEF Tasks, TaskOK, SendRequest
  <2> QED
    BY <1>1, <1>7, <2>1 DEF SendRequest, Active
<1>8. CASE Break(t) \/ Timeout(t)
  BY <1>1, <1>2, <1>4, <1>8 DEF Break, Timeout, Fail, Active
<1>9. CASE ReadReady(t)
  <2> DEFINE m == Emit(r, "started", <<>>)
             s == [m EXCEPT !.ready = TRUE]
  <2>1. m \in Tasks /\ TaskOK(m) /\ m.at = "read"
    BY <1>2, <1>3, <1>9 DEF ReadReady, Reading, EventTypes
  <2> HIDE DEF m
  <2>2. s \in Tasks /\ TaskOK(s) /\ s.at # "idle"
    BY <2>1 DEF Tasks, TaskOK
  <2> QED
    BY <1>1, <1>9, <2>2 DEF ReadReady, Reading, Active, m
<1>10. CASE ReadActivity(t)
  <2>1. r.at = "read" /\ "activity" \in EventTypes
    BY <1>10 DEF ReadActivity, Reading, EventTypes
  <2> QED
    BY <1>1, <1>2, <1>3, <1>10, <2>1 DEF ReadActivity, Active
<1>11. CASE ReadDelta(t)
  <2>1. r.at = "read" /\ "delta" \in EventTypes /\ <<spoken[t] + 1>> \in Seq(Nat)
    BY <1>1, <1>11 DEF ReadDelta, Reading, EventTypes
  <2> QED
    BY <1>1, <1>3, <1>11, <2>1 DEF ReadDelta, Active
<1>12. CASE ReadCompleted(t)
  <2> DEFINE s == [r EXCEPT !.completion = TRUE]
  <2>1. s \in Tasks /\ TaskOK(s) /\ s.at # "idle"
    BY <1>1, <1>12 DEF Tasks, TaskOK, ReadCompleted, Reading
  <2> QED
    BY <1>1, <1>12, <2>1 DEF ReadCompleted, Reading, Active
<1>13. CASE ReadOutcome(t)
  <2>1. r.at = "read"
    BY <1>13 DEF ReadOutcome, Reading
  <2>2. PICK outcome \in {"failed", "cancelled"} : Become(t, Emit(r, outcome, <<>>))
    BY <1>13 DEF ReadOutcome
  <2>3. outcome \in EventTypes
    BY <2>2 DEF EventTypes, Outcomes
  <2> QED
    BY <1>1, <1>2, <1>3, <1>13, <2>1, <2>2, <2>3 DEF ReadOutcome, Active
<1>14. CASE EndOfOutput(t)
  <2> DEFINE s == [r EXCEPT !.at = "wait"]
  <2>1. s \in Tasks /\ TaskOK(s) /\ s.at # "idle"
    BY <1>1, <1>14 DEF Tasks, TaskOK, EndOfOutput
  <2> QED
    BY <1>1, <1>14, <2>1 DEF EndOfOutput, Active
<1>15. CASE BridgeExits(t)
  <2> DEFINE s == [r EXCEPT !.process = "gone"]
  <2>1. r.at \in {"request", "read", "wait", "cleanup"}
    BY <1>15 DEF TaskOK, BridgeExits
  <2>2. s \in Tasks /\ TaskOK(s) /\ s.at # "idle"
    BY <1>1, <2>1 DEF Tasks, TaskOK
  <2> QED
    BY <1>1, <1>15, <2>1, <2>2 DEF BridgeExits, Active
<1>16. CASE Exited(t)
  <2>1. PICK code \in {0, 1} :
            Become(t, [Emit(r, Verdict(r, code), <<>>) EXCEPT !.at = "cleanup"])
    BY <1>16 DEF Exited
  <2>2. Verdict(r, code) \in Outcomes
    BY DEF Verdict, Outcomes
  <2>3. r.at = "wait"
    BY <1>16 DEF Exited
  <2> QED
    BY <1>1, <1>4, <1>16, <2>1, <2>2, <2>3 DEF Exited, Active
<1>17. CASE CleanUp(t)
  <2> DEFINE s == [r EXCEPT !.at = "put", !.process = "gone"]
  <2>1. s \in Tasks /\ TaskOK(s) /\ s.at # "idle"
    BY <1>1, <1>17 DEF Tasks, TaskOK, CleanUp
  <2> QED
    BY <1>1, <1>17, <2>1 DEF CleanUp, Active
<1>18. CASE PutOutcome(t)
  <2> DEFINE q == Append(r.queue, RuntimeEvent(r.seq, r.terminal, <<>>))
             s == [r EXCEPT !.at = "end", !.ready = FALSE, !.completion = FALSE,
                            !.cancel = FALSE, !.seq = 0, !.queue = q]
  <2>1. r.at = "put" /\ r.terminal # "none" /\ r.process # "alive"
    BY <1>18 DEF PutOutcome, TaskOK
  <2>2. RuntimeEvent(r.seq, r.terminal, <<>>) \in Events
    BY <1>1, <1>2, <2>1 DEF RuntimeEvent, Events, Tasks, EventTypes
  <2>3. q \in Seq(Events)
    BY <1>1, <2>2 DEF Tasks
  <2>4. s \in Tasks /\ TaskOK(s) /\ s.at # "idle"
    <3> HIDE DEF q
    <3> QED
      BY <1>1, <2>1, <2>3 DEF Tasks, TaskOK
  <2> QED
    BY <1>1, <1>18, <2>1, <2>4 DEF PutOutcome, Active
<1> QED
  BY <1>5, <1>6, <1>7, <1>8, <1>9, <1>10, <1>11, <1>12, <1>13, <1>14, <1>15, <1>16,
     <1>17, <1>18 DEF HermesStep, Proceed

(***************************************************************************)
(* The endings of _consume.                                                *)
(***************************************************************************)
\* What a write returns and leaves behind.
LEMMA WriteShape ==
    ASSUME NEW from \in Status, NEW to \in Status, NEW w \in Written(from, to)
    PROVE  /\ w.status \in Status
           /\ w.cost \in Nat
           /\ w.raised \in BOOLEAN
           /\ ~w.raised => w.status = to
           /\ (w.raised /\ ~LostAck) => w.status = from
<1>1. CASE w = [status |-> to, raised |-> FALSE, cost |-> 0]
  BY <1>1
<1>2. CASE w = [status |-> from, raised |-> TRUE, cost |-> 1]
  BY <1>2
<1>3. CASE LostAck /\ w = [status |-> to, raised |-> TRUE, cost |-> 1]
  BY <1>3
<1> QED
  BY <1>1, <1>2, <1>3 DEF Written

\* The outer except announces nothing but a failure it has stored.
LEMMA RescuedShape ==
    ASSUME NEW status \in Status, NEW cost \in Nat, NEW e \in Rescued(status, cost)
    PROVE  /\ e.status \in Status
           /\ e.told \in {"none", "failed"}
           /\ e.end \in {"done", "raised"}
           /\ e.cost \in Nat
           /\ e.told = "failed" => e.status = "failed"
<1>1. CASE e = Ending(status, "none", "raised", cost + 1)
  BY <1>1 DEF Ending
<1>2. CASE e = Ending(status, "none", "done", cost)
  BY <1>2 DEF Ending
<1>3. ASSUME status = "running", NEW w \in Finish(status, "failed"),
             e = Ending(w.status, IF w.raised THEN "none" ELSE "failed",
                        IF w.raised THEN "raised" ELSE "done", cost + w.cost)
      PROVE  /\ e.status \in Status
             /\ e.told \in {"none", "failed"}
             /\ e.end \in {"done", "raised"}
             /\ e.cost \in Nat
             /\ e.told = "failed" => e.status = "failed"
  <2>1. w \in Written("running", "failed")
    BY <1>3 DEF Finish, Final, Outcomes
  <2>2. "failed" \in Status /\ "running" \in Status
    BY DEF Status, Final, Outcomes
  <2>3. /\ w.status \in Status /\ w.cost \in Nat /\ w.raised \in BOOLEAN
        /\ ~w.raised => w.status = "failed"
    BY <2>1, <2>2, WriteShape
  <2> QED
    BY <1>3, <2>3 DEF Ending
<1> QED
  BY <1>1, <1>2, <1>3 DEF Rescued

\* What complete_turn's except branch announces is what it has stored, if the turn still
\* ran when it began.
LEMMA CommitFailedShape ==
    ASSUME NEW status \in Status, NEW cost \in Nat, NEW e \in CommitFailed(status, cost)
    PROVE  /\ e.status \in Status
           /\ e.told \in {"none", "failed"}
           /\ e.end \in {"done", "raised"}
           /\ e.cost \in Nat
           /\ status = "running" /\ e.told = "failed" => e.status = "failed"
<1> DEFINE to == IF status \in Final THEN status ELSE "failed"
<1>1. PICK w \in Finish(status, "failed") :
          e \in IF w.raised THEN Rescued(w.status, cost + w.cost)
                ELSE {Ending(w.status, "failed", "done", cost)}
  BY DEF CommitFailed
<1>2. to \in Status
  BY DEF Status, Final, Outcomes
<1>3. /\ w.status \in Status /\ w.cost \in Nat /\ w.raised \in BOOLEAN
      /\ ~w.raised => w.status = to
  BY <1>1, <1>2, WriteShape DEF Finish
<1>4. CASE w.raised
  <2>1. cost + w.cost \in Nat
    BY <1>3
  <2> QED
    BY <1>1, <1>3, <1>4, <2>1, RescuedShape
<1>5. CASE ~w.raised
  BY <1>1, <1>3, <1>5 DEF Ending, Final, Outcomes
<1> QED
  BY <1>3, <1>4, <1>5

\* However the handling of an outcome ends, what it announces is what it has stored,
\* unless a call that raised had committed.
LEMMA EndingsShape ==
    ASSUME NEW outcome \in Outcomes, NEW e \in Endings("running", outcome)
    PROVE  /\ e.status \in Status
           /\ e.told \in Outcomes \cup {"none"}
           /\ e.end \in {"done", "raised"}
           /\ e.cost \in Nat
           /\ ~LostAck => e.told \in {"none", e.status}
<1>1. /\ "running" \in Status /\ "completed" \in Status /\ outcome \in Status
      /\ "failed" \in Outcomes /\ "running" \notin Final /\ 0 \in Nat
  BY DEF Status, Final, Outcomes
<1>2. CASE outcome = "completed"
  <2>1. PICK w \in Complete("running") :
            e \in IF w.raised THEN CommitFailed(w.status, w.cost)
                  ELSE {Ending(w.status, outcome, "done", 0)}
    BY <1>2 DEF Endings
  <2>2. /\ w.status \in Status /\ w.cost \in Nat /\ w.raised \in BOOLEAN
        /\ ~w.raised => w.status = "completed"
        /\ (w.raised /\ ~LostAck) => w.status = "running"
    BY <1>1, <2>1, WriteShape DEF Complete
  <2>3. CASE w.raised
    BY <1>1, <2>1, <2>2, <2>3, CommitFailedShape
  <2>4. CASE ~w.raised
    BY <1>1, <1>2, <2>1, <2>2, <2>4 DEF Ending
  <2> QED
    BY <2>2, <2>3, <2>4
<1>3. CASE outcome # "completed"
  <2>1. PICK w \in Finish("running", outcome) :
            e \in IF w.raised THEN Rescued(w.status, w.cost)
                  ELSE {Ending(w.status, outcome, "done", 0)}
    BY <1>3 DEF Endings
  <2>2. /\ w.status \in Status /\ w.cost \in Nat /\ w.raised \in BOOLEAN
        /\ ~w.raised => w.status = outcome
    BY <1>1, <2>1, WriteShape DEF Finish
  <2>3. CASE w.raised
    BY <1>1, <2>1, <2>2, <2>3, RescuedShape
  <2>4. CASE ~w.raised
    BY <1>1, <2>1, <2>2, <2>4 DEF Ending
  <2> QED
    BY <2>2, <2>3, <2>4
<1> QED
  BY <1>2, <1>3

\* A row whose status is set stays a row; only its status and its answer change.
LEMMA SetStatusShape ==
    ASSUME TypeOK, NEW t \in Turns, NEW status \in Status, SetStatus(t, status)
    PROVE  /\ stored' \in [Turns -> Rows]
           /\ stored'[t].status = status
           /\ \A u \in Turns : stored'[u].conversation = stored[u].conversation
           /\ \A u \in Turns \ {t} : stored'[u] = stored[u]
<1> DEFINE answer == IF status = "completed" /\ stored[t].status = "running"
                     THEN live[t].text ELSE stored[t].answer
           row == [stored[t] EXCEPT !.status = status, !.answer = answer]
<1>1. answer \in Seq(Nat) /\ stored[t] \in Rows
  BY DEF TypeOK, Views, Rows
<1>2. stored' = [stored EXCEPT ![t] = row]
  BY DEF SetStatus, TypeOK, Rows
<1> HIDE DEF answer
<1>3. row \in Rows /\ row.status = status /\ row.conversation = stored[t].conversation
  BY <1>1 DEF Rows
<1> HIDE DEF row
<1> QED
  BY <1>2, <1>3 DEF TypeOK

(***************************************************************************)
(* TypeOK, action by action.                                               *)
(***************************************************************************)
TurnInv == TypeOK /\ LifeInv

LEMMA TasksAreOK ==
    ASSUME TurnInv PROVE \A t \in Turns : TaskOK(task[t])
BY DEF TurnInv, LifeInv, OutcomeComesLast, ProcessWithinTask, TaskOK

LEMMA InitialTypes ==
    ASSUME Init PROVE TypeOK
<1>1. NoTurn \in Rows
  BY DEF NoTurn, Rows, Status
<1>2. Blank \in Views
  BY DEF Blank, Views
<1>3. NoTask \in Tasks
  BY DEF NoTask, Tasks
<1>4. NoRequest \in Requests
  BY DEF NoRequest, Requests
<1>5. NoResponse \in Responses
  BY DEF NoResponse, Responses, Status
<1>6. 0 \in 0..MaxRestarts
  BY CoordinatorAssumption
<1> QED
  BY <1>1, <1>2, <1>3, <1>4, <1>5, <1>6
     DEF Init, StoreInit, RegistryInit, HermesInit, TypeOK

\* What is answered to a call of cancel.
LEMMA AnswerType ==
    ASSUME NEW t \in Turns, NEW status \in Status \cup {"error"}, Answer(t, status)
    PROVE  response' \in Responses
BY DEF Answer, Responses

LEMMA QuietType ==
    ASSUME Quiet
    PROVE  response' \in Responses
BY DEF Quiet, NoResponse, Responses, Status

LEMMA StartTypes ==
    ASSUME TypeOK, NEW t \in Turns, NEW c \in Conversations,
           Start(t, c) \/ StartRaises(t, c) \/ StartRefused(t, c)
    PROVE  TypeOK'
<1>1. Created(c) \in Rows
  BY DEF Created, Rows, Status
<1>2. Started \in Tasks /\ Blank \in Views /\ "failed" \in Outcomes
  <2>1. NoTask \in Tasks
    BY DEF NoTask, Tasks
  <2>2. Started \in Tasks
    BY <2>1 DEF Started, Tasks
  <2> QED
    BY <2>2 DEF Blank, Views, Outcomes
<1>3. CASE Start(t, c)
  <2>1. registry' \in Seq(Turns) /\ live' \in [Turns -> Views]
    BY <1>2, <1>3, RegisterType DEF Start
  <2>2. response' \in Responses
    BY <1>3, QuietType DEF Start
  <2> QED
    BY <1>1, <1>2, <1>3, <2>1, <2>2 DEF Start, TypeOK
<1>4. CASE StartRaises(t, c)
  <2>1. response' \in Responses
    BY <1>4, QuietType DEF StartRaises
  <2> QED
    BY <1>1, <1>4, <2>1
       DEF StartRaises, Charge, TypeOK, registryVars, hermesVars, coordinatorVars
<1>5. CASE StartRefused(t, c)
  <2>1. PICK w \in Finish("running", "failed") :
          /\ Charge(t, w.cost)
          /\ stored' = [stored EXCEPT ![t] = [Created(c) EXCEPT !.status = w.status]]
          /\ Register(t, IF w.raised THEN Blank
                         ELSE [Blank EXCEPT !.seq = 1, !.terminal = "failed"])
          /\ announced' = [announced EXCEPT
                ![t] = IF w.raised THEN @ ELSE @ \cup {"failed"}]
    BY <1>5 DEF StartRefused
  <2> DEFINE told == [Blank EXCEPT !.seq = 1, !.terminal = "failed"]
             row == [Created(c) EXCEPT !.status = w.status]
             view == IF w.raised THEN Blank ELSE told
  <2>2. w.status \in Status /\ w.cost \in Nat
    <3>1. {"running", "failed"} \subseteq Status /\ "running" \notin Final
      BY DEF Status, Final, Outcomes
    <3> QED
      BY <3>1, WriteShape DEF Finish
  <2>3. told \in Views
    BY <1>2 DEF Blank, Views
  <2>4. row \in Rows
    BY <1>1, <2>2 DEF Rows
  <2>5. view \in Views
    BY <1>2, <2>3
  <2> HIDE DEF view
  <2>6. registry' \in Seq(Turns) /\ live' \in [Turns -> Views]
    BY <2>1, <2>5, RegisterType DEF view
  <2>7. announced' \in [Turns -> SUBSET Outcomes]
    BY <1>2, <2>1 DEF TypeOK
  <2>8. failures' \in [Turns -> Nat]
    BY <2>1, <2>2 DEF Charge, TypeOK
  <2>9. response' \in Responses
    BY <1>5, QuietType DEF StartRefused
  <2> HIDE DEF row
  <2>10. stored' \in [Turns -> Rows]
    BY <2>1, <2>4 DEF TypeOK, row
  <2> QED
    BY <1>5, <2>6, <2>7, <2>8, <2>9, <2>10
       DEF StartRefused, TypeOK, hermesVars, coordinatorVars
<1> QED
  BY <1>3, <1>4, <1>5

\* An event that waits in a queue is an event, and so are those behind it.
LEMMA QueueType ==
    ASSUME TypeOK, NEW t \in Turns, task[t].queue # <<>>
    PROVE  /\ Event(t) \in Events
           /\ [task EXCEPT ![t].queue = Tail(@)] \in [Turns -> Tasks]
<1>1. task[t] \in Tasks /\ task[t].queue \in Seq(Events)
  BY DEF TypeOK, Tasks
<1>2. Head(task[t].queue) \in Events /\ Tail(task[t].queue) \in Seq(Events)
  BY <1>1
<1> DEFINE q == Tail(task[t].queue)
           r == [task[t] EXCEPT !.queue = q]
<1>3. [task EXCEPT ![t].queue = Tail(@)] = [task EXCEPT ![t] = r]
  BY DEF TypeOK, Tasks
<1> HIDE DEF q
<1>4. r \in Tasks
  BY <1>1, <1>2 DEF Tasks, q
<1> HIDE DEF r
<1> QED
  BY <1>2, <1>3, <1>4 DEF Event, TypeOK

LEMMA ConsumeTypes ==
    ASSUME TypeOK, LifeInv, NEW t \in Turns, ConsumeProgress(t) \/ ConsumeOutcome(t)
    PROVE  TypeOK'
<1>1. /\ Event(t) \in Events
      /\ task' \in [Turns -> Tasks]
  BY QueueType DEF ConsumeProgress, ConsumeOutcome, Consuming
<1>2. live[t] \in Views /\ announced[t] \in SUBSET Outcomes
  BY DEF TypeOK
<1>3. response' \in Responses
  BY QuietType DEF ConsumeProgress, ConsumeOutcome
<1>4. CASE ConsumeProgress(t)
  <2> DEFINE text == live[t].text \o Event(t).text
             n == live[t].seq + 1
             view == [live[t] EXCEPT !.seq = n, !.text = text]
  <2>1. text \in Seq(Nat) /\ n \in Nat
    BY <1>1, <1>2 DEF Views, Events
  <2>2. live' = [live EXCEPT ![t] = view]
    BY <1>2, <1>4 DEF ConsumeProgress, PublishProgress, TypeOK, Views
  <2> HIDE DEF text, n
  <2>3. view \in Views
    BY <1>2, <2>1 DEF Views
  <2> HIDE DEF view
  <2>4. live' \in [Turns -> Views]
    BY <2>2, <2>3 DEF TypeOK
  <2>5. UNCHANGED <<stored, failures, registry, announced, spoken, mode, restarts, consumer, request>>
    BY <1>4 DEF ConsumeProgress, PublishProgress, storeVars, coordinatorVars
  <2> QED
    BY <1>1, <1>3, <2>4, <2>5 DEF TypeOK
<1>5. CASE ConsumeOutcome(t)
  <2>1. stored[t].status = "running"
    BY <1>5 DEF ConsumeOutcome, Consuming, LifeInv, ConsumersOwnRunningTurns
  <2>2. PICK e \in Endings("running", Event(t).type) :
          /\ Charge(t, e.cost)
          /\ SetStatus(t, e.status)
          /\ consumer' = [consumer EXCEPT ![t] = e.end]
          /\ IF e.told = "none" THEN UNCHANGED registryVars ELSE PublishOutcome(t, e.told)
    BY <1>5, <2>1 DEF ConsumeOutcome
  <2>3. /\ e.status \in Status /\ e.told \in Outcomes \cup {"none"}
        /\ e.end \in {"done", "raised"} /\ e.cost \in Nat
    BY <1>5, <2>2, EndingsShape DEF ConsumeOutcome
  <2>4. stored' \in [Turns -> Rows]
    BY <2>2, <2>3, SetStatusShape
  <2>5. failures' \in [Turns -> Nat] /\ consumer' \in [Turns -> {"none", "get", "done", "raised", "cancelled"}]
    BY <2>2, <2>3 DEF Charge, TypeOK
  <2>6. /\ registry' \in Seq(Turns)
        /\ live' \in [Turns -> Views]
        /\ announced' \in [Turns -> SUBSET Outcomes]
    <3>1. CASE e.told = "none"
      BY <2>2, <3>1 DEF registryVars, TypeOK
    <3>2. CASE e.told # "none"
      <4> DEFINE n == live[t].seq + 1
                 view == [live[t] EXCEPT !.seq = n, !.terminal = e.told]
      <4>1. live' = [live EXCEPT ![t] = view]
        BY <1>2, <2>2, <3>2 DEF PublishOutcome, TypeOK, Views
      <4>2. n \in Nat
        BY <1>2 DEF Views
      <4> HIDE DEF n
      <4>3. view \in Views
        BY <1>2, <2>3, <4>2 DEF Views
      <4> HIDE DEF view
      <4>4. announced[t] \cup {e.told} \in SUBSET Outcomes
        BY <1>2, <2>3, <3>2
      <4> QED
        BY <2>2, <3>2, <4>1, <4>3, <4>4 DEF PublishOutcome, TypeOK
    <3> QED
      BY <3>1, <3>2
  <2> QED
    BY <1>1, <1>3, <1>5, <2>4, <2>5, <2>6 DEF ConsumeOutcome, TypeOK
<1> QED
  BY <1>4, <1>5

\* A cancelled task is a task that has its flag set.
LEMMA CancelledKeeps ==
    ASSUME NEW r \in Tasks
    PROVE  /\ Cancelled(r) \in Tasks
           /\ Cancelled(r).at = r.at /\ Cancelled(r).process = r.process
           /\ Cancelled(r).terminal = r.terminal /\ Cancelled(r).queue = r.queue
<1>1. CASE Cancelled(r) = r
  BY <1>1
<1>2. CASE Cancelled(r) = [r EXCEPT !.cancel = TRUE]
  BY <1>2 DEF Tasks
<1> QED
  BY <1>1, <1>2 DEF Cancelled

LEMMA CancelTypes ==
    ASSUME TypeOK, CancelStep
    PROVE  TypeOK'
<1>1. NoRequest \in Requests
  BY DEF NoRequest, Requests
<1>2. \A t \in Turns : stored[t].status \in Status \cup {"error"}
  BY DEF TypeOK, Rows
<1>3. ASSUME NEW c \in Clients, NEW t \in Turns, JoinOrAnswer(c, t) \/ Wait(c, t, "grace")
      PROVE  request' \in [Clients -> Requests] /\ response' \in Responses
  <2>1. CASE Wait(c, t, "join") \/ Wait(c, t, "grace")
    <3>1. /\ [at |-> "join", turn |-> t] \in Requests
          /\ [at |-> "grace", turn |-> t] \in Requests
      BY DEF Requests
    <3> QED
      BY <2>1, <3>1, QuietType DEF Wait, TypeOK
  <2>2. CASE request' = [request EXCEPT ![c] = NoRequest] /\ Answer(t, stored[t].status)
    BY <1>1, <1>2, <2>2, AnswerType DEF TypeOK
  <2> QED
    BY <1>3, <2>1, <2>2 DEF JoinOrAnswer
<1>4. ASSUME NEW t \in Turns, CancelEnded(t)
      PROVE  TypeOK'
  BY <1>2, <1>4, AnswerType
     DEF CancelEnded, TypeOK, storeVars, registryVars, hermesVars, coordinatorVars
<1>5. ASSUME NEW c \in Clients, NEW t \in Turns, Cancel(c, t)
      PROVE  TypeOK'
  <2>1. request' \in [Clients -> Requests] /\ response' \in Responses
    BY <1>3, <1>5 DEF Cancel
  <2>2. task' \in [Turns -> Tasks]
    BY <1>5, CancelledKeeps DEF Cancel, TypeOK
  <2> QED
    BY <1>5, <2>1, <2>2 DEF Cancel, TypeOK, storeVars, registryVars
<1>6. ASSUME NEW c \in Clients, CancelGraceOver(c) \/ CancelJoined(c) \/ Disconnect(c)
      PROVE  TypeOK'
  <2>1. /\ request' \in [Clients -> Requests]
        /\ response' \in Responses
        /\ UNCHANGED <<storeVars, registryVars, hermesVars, mode, restarts, consumer>>
    <3>1. CASE Disconnect(c)
      BY <1>1, <3>1, QuietType DEF Disconnect, TypeOK
    <3>2. CASE CancelJoined(c) /\ request[c].turn \in Turns
      <4>1. PICK status \in Status \cup {"error"} : Answer(request[c].turn, status)
        BY <1>2, <3>2 DEF CancelJoined
      <4> QED
        BY <1>1, <3>2, <4>1, AnswerType DEF CancelJoined, TypeOK
    <3>3. CASE CancelGraceOver(c) /\ request[c].turn \in Turns
      BY <1>3, <3>3 DEF CancelGraceOver
    <3>4. request[c].at # "idle" => request[c].turn \in Turns
      BY DEF TypeOK, Requests, NoRequest
    <3> QED
      BY <1>6, <3>1, <3>2, <3>3, <3>4 DEF CancelGraceOver, CancelJoined
  <2> QED
    BY <2>1 DEF TypeOK, storeVars, registryVars, hermesVars
<1> QED
  BY <1>4, <1>5, <1>6 DEF CancelStep

\* A row that is interrupted stays a row of its conversation.
LEMMA InterruptedRow ==
    ASSUME NEW row \in Rows
    PROVE  /\ [row EXCEPT !.status = "interrupted"] \in Rows
           /\ [row EXCEPT !.status = "interrupted"].conversation = row.conversation
           /\ [row EXCEPT !.status = "interrupted"].status = "interrupted"
<1>1. "interrupted" \in Status
  BY DEF Status, Final
<1> QED
  BY <1>1 DEF Rows

LEMMA ProcessLostTypes ==
    ASSUME TypeOK, ProcessLost, stored' \in [Turns -> Rows]
    PROVE  TypeOK'
<1>1. Blank \in Views /\ NoTask \in Tasks /\ NoRequest \in Requests
  BY DEF Blank, Views, NoTask, Tasks, Requests
<1>2. response' \in Responses
  BY QuietType DEF ProcessLost
<1> QED
  BY <1>1, <1>2 DEF ProcessLost, RegistryLost, TypeOK

LEMMA ClaimTypes ==
    ASSUME TypeOK, NEW claimed \in SUBSET Turns, Claim(claimed), failures' \in [Turns -> Nat]
    PROVE  TypeOK'
<1>1. stored' \in [Turns -> Rows]
  <2>1. \A t \in Turns : [stored[t] EXCEPT !.status = "interrupted"] \in Rows
    BY InterruptedRow DEF TypeOK
  <2> QED
    BY <2>1 DEF Claim, TypeOK
<1>2. task' \in [Turns -> Tasks]
  <2>1. \A t \in Turns : Cancelled(task[t]) \in Tasks
    BY CancelledKeeps DEF TypeOK
  <2> QED
    BY <2>1 DEF Claim, TypeOK
<1>3. response' \in Responses
  BY QuietType DEF Claim
<1> QED
  BY <1>1, <1>2, <1>3 DEF Claim, TypeOK, registryVars

LEMMA ProcessTypes ==
    ASSUME TypeOK, ProcessStep
    PROVE  TypeOK'
<1>1. CASE Startup
  <2>1. \A t \in Turns : [stored[t] EXCEPT !.status = "interrupted"] \in Rows
    BY InterruptedRow DEF TypeOK
  <2>2. stored' \in [Turns -> Rows]
    BY <1>1, <2>1 DEF Startup, Swept, TypeOK
  <2>3. response' \in Responses
    BY <1>1, QuietType DEF Startup
  <2>4. restarts' \in 0..MaxRestarts
    BY <1>1, CoordinatorAssumption DEF Startup, TypeOK
  <2> QED
    BY <1>1, <2>2, <2>3, <2>4 DEF Startup, TypeOK, registryVars, hermesVars
<1>2. CASE Shutdown
  BY <1>2, ClaimTypes DEF Shutdown, Owned, TypeOK
<1>3. CASE ShutdownRaises
  <2>1. PICK i \in DOMAIN registry :
          /\ registry[i] \in Owned
          /\ Charge(registry[i], 1)
          /\ Claim({t \in Owned : \E j \in 1..(i - 1) : registry[j] = t})
    BY <1>3 DEF ShutdownRaises
  <2>2. failures' \in [Turns -> Nat]
    BY <2>1 DEF Charge, Owned, TypeOK
  <2> QED
    BY <2>1, <2>2, ClaimTypes DEF Owned
<1>4. CASE Exit \/ Crash
  BY <1>4, ProcessLostTypes DEF Exit, Crash, TypeOK
<1> QED
  BY <1>1, <1>2, <1>3, <1>4 DEF ProcessStep

\* What a commit that is cut off by a crash leaves in the row.
LEMMA CommittedStatus ==
    ASSUME NEW outcome \in Outcomes,
           NEW w \in IF outcome = "completed" THEN Complete("running")
                     ELSE Finish("running", outcome)
    PROVE  w.status \in Status
<1>1. "running" \in Status /\ outcome \in Status /\ "running" \notin Final
  BY DEF Status, Final, Outcomes
<1> QED
  BY <1>1, WriteShape DEF Complete, Finish

LEMMA TurnTypes ==
    ASSUME TypeOK, LifeInv, NEW t \in Turns, TurnStep(t)
    PROVE  TypeOK'
<1>1. CASE CrashAfterCommit(t)
  <2>1. stored[t].status = "running" /\ Event(t).type \in Outcomes
    BY <1>1 DEF CrashAfterCommit, Consuming, LifeInv, ConsumersOwnRunningTurns
  <2>2. PICK w \in IF Event(t).type = "completed" THEN Complete("running")
                   ELSE Finish("running", Event(t).type) : SetStatus(t, w.status)
    BY <1>1, <2>1 DEF CrashAfterCommit
  <2>3. w.status \in Status
    BY <2>1, <2>2, CommittedStatus
  <2> QED
    BY <1>1, <2>2, <2>3, SetStatusShape, ProcessLostTypes DEF CrashAfterCommit
<1>2. CASE RuntimeStep(t)
  <2>1. TaskOK(task[t])
    BY TasksAreOK DEF TurnInv
  <2>2. spoken' \in [Turns -> Nat] /\ \E r \in Tasks : Become(t, r)
    BY <1>2, <2>1, HermesKeeps DEF RuntimeStep
  <2>3. response' \in Responses
    BY <1>2, QuietType DEF RuntimeStep
  <2> QED
    BY <1>2, <2>2, <2>3 DEF RuntimeStep, Become, TypeOK, storeVars, registryVars, coordinatorVars
<1> QED
  BY <1>1, <1>2, StartTypes, ConsumeTypes DEF TurnStep

LEMMA TypeStep ==
    ASSUME TypeOK, LifeInv, [Next]_vars
    PROVE  TypeOK'
<1>1. CASE UNCHANGED vars
  BY <1>1 DEF vars, storeVars, registryVars, hermesVars, coordinatorVars, TypeOK
<1> QED
  BY <1>1, TurnTypes, CancelTypes, ProcessTypes DEF Next

(***************************************************************************)
(* LifeInv, action by action.                                              *)
(***************************************************************************)
Tended == \A t \in Turns : (Active(t) /\ mode = "up") => consumer[t] = "get"

\* LifeInv seen task by task.
LEMMA LifeParts ==
    ASSUME LifeInv
    PROVE  /\ ConsumersOwnRunningTurns
           /\ Tended
           /\ \A t \in Turns : TaskOK(task[t])
           /\ OneTaskPerConversation
BY DEF LifeInv, OutcomeComesLast, ProcessWithinTask, Tended, TaskOK

LEMMA LifeFromParts ==
    ASSUME ConsumersOwnRunningTurns', Tended', OneTaskPerConversation',
           \A t \in Turns : TaskOK(task'[t])
    PROVE  LifeInv'
BY DEF LifeInv, OutcomeComesLast, ProcessWithinTask, Tended, TaskOK

\* Nothing is lost if tasks at most get cancelled and everything else stays.
LEMMA TasksOnly ==
    ASSUME TypeOK, LifeInv,
           UNCHANGED <<stored, mode, consumer>>,
           \A t \in Turns : task'[t] \in {task[t], Cancelled(task[t])}
    PROVE  LifeInv'
<1>1. \A t \in Turns : /\ task'[t].at = task[t].at
                       /\ task'[t].process = task[t].process
                       /\ task'[t].terminal = task[t].terminal
                       /\ task'[t].queue = task[t].queue
  BY CancelledKeeps DEF TypeOK
<1>2. \A t \in Turns : Active(t)' <=> Active(t)
  BY <1>1 DEF Active
<1>3. ConsumersOwnRunningTurns'
  BY <1>1, LifeParts DEF ConsumersOwnRunningTurns
<1>4. Tended'
  BY <1>2, LifeParts DEF Tended
<1>5. \A t \in Turns : TaskOK(task'[t])
  BY <1>1, LifeParts DEF TaskOK
<1>6. OneTaskPerConversation'
  BY <1>2, LifeParts DEF OneTaskPerConversation
<1> QED
  BY <1>3, <1>4, <1>5, <1>6, LifeFromParts

\* A turn that is not in the store yet has no task and no consumer.
LEMMA NewTurnIsIdle ==
    ASSUME TypeOK, LifeInv, mode = "up", NEW t \in Turns, NEW c \in Conversations,
           MayCreate(t, c)
    PROVE  /\ consumer[t] # "get" /\ ~Active(t)
           /\ \A u \in Turns : Active(u) => stored[u].conversation # c
<1>1. stored[t].status # "running"
  BY DEF MayCreate
<1>2. \A u \in Turns : Active(u) => consumer[u] = "get" /\ stored[u].status = "running"
  BY LifeParts DEF Tended, ConsumersOwnRunningTurns
<1>3. consumer[t] # "get"
  BY <1>1, LifeParts DEF ConsumersOwnRunningTurns
<1> QED
  BY <1>1, <1>2, <1>3 DEF MayCreate

LEMMA StartLife ==
    ASSUME TypeOK, LifeInv, NEW t \in Turns, NEW c \in Conversations,
           Start(t, c) \/ StartRaises(t, c) \/ StartRefused(t, c)
    PROVE  LifeInv'
<1>1. mode = "up" /\ MayCreate(t, c) /\ mode' = "up"
  BY DEF Start, StartRaises, StartRefused, coordinatorVars
<1>2. /\ consumer[t] # "get" /\ ~Active(t)
      /\ \A u \in Turns : Active(u) => stored[u].conversation # c
  BY <1>1, NewTurnIsIdle
<1>3. \A u \in Turns \ {t} : stored'[u] = stored[u]
  BY DEF Start, StartRaises, StartRefused, TypeOK
<1>4. CASE Start(t, c)
  <2>1. /\ task'[t] = Started /\ \A u \in Turns \ {t} : task'[u] = task[u]
        /\ consumer'[t] = "get" /\ \A u \in Turns \ {t} : consumer'[u] = consumer[u]
        /\ stored'[t] = Created(c)
    BY <1>4 DEF Start, TypeOK
  <2>2. /\ Started.at = "spawn" /\ Started.process = "none" /\ Started.queue = <<>>
        /\ Created(c).status = "running" /\ Created(c).conversation = c
    BY DEF Started, NoTask, Created
  <2>3. \A u \in Turns \ {t} : Active(u)' <=> Active(u)
    BY <2>1 DEF Active
  <2>4. ConsumersOwnRunningTurns'
    BY <1>1, <1>3, <2>1, <2>2, LifeParts DEF ConsumersOwnRunningTurns
  <2>5. Tended'
    BY <1>1, <2>1, <2>3, LifeParts DEF Tended
  <2>6. \A u \in Turns : TaskOK(task'[u])
    <3>1. TaskOK(task'[t])
      BY <2>1, <2>2 DEF TaskOK
    <3> QED
      BY <2>1, <3>1, LifeParts
  <2>7. OneTaskPerConversation'
    BY <1>2, <1>3, <2>1, <2>2, <2>3, LifeParts DEF OneTaskPerConversation
  <2> QED
    BY <2>4, <2>5, <2>6, <2>7, LifeFromParts
<1>5. CASE StartRaises(t, c) \/ StartRefused(t, c)
  <2>1. UNCHANGED <<task, consumer>>
    BY <1>5 DEF StartRaises, StartRefused, hermesVars, coordinatorVars
  <2>2. \A u \in Turns : Active(u)' <=> Active(u)
    BY <2>1 DEF Active
  <2>3. ConsumersOwnRunningTurns'
    BY <1>1, <1>2, <1>3, <2>1, LifeParts DEF ConsumersOwnRunningTurns
  <2>4. Tended'
    BY <1>1, <2>1, <2>2, LifeParts DEF Tended
  <2>5. OneTaskPerConversation'
    BY <1>2, <1>3, <2>2, LifeParts DEF OneTaskPerConversation
  <2> QED
    BY <2>1, <2>3, <2>4, <2>5, LifeParts, LifeFromParts
<1> QED
  BY <1>4, <1>5

LEMMA ConsumeLife ==
    ASSUME TypeOK, LifeInv, NEW t \in Turns, ConsumeProgress(t) \/ ConsumeOutcome(t)
    PROVE  LifeInv'
<1> DEFINE q == Tail(task[t].queue)
<1>1. /\ mode = "up" /\ mode' = "up"
      /\ consumer[t] = "get" /\ stored[t].status = "running"
  BY LifeParts DEF ConsumeProgress, ConsumeOutcome, Consuming, ConsumersOwnRunningTurns,
                   coordinatorVars
<1>2. task[t] \in Tasks /\ task[t].queue \in Seq(Events) /\ task[t].queue # <<>>
  BY DEF TypeOK, Tasks, ConsumeProgress, ConsumeOutcome, Consuming
<1>3. /\ task'[t] = [task[t] EXCEPT !.queue = q]
      /\ \A u \in Turns \ {t} : task'[u] = task[u]
  BY DEF ConsumeProgress, ConsumeOutcome, TypeOK, Tasks
<1>4. \A i \in DOMAIN q : i + 1 \in DOMAIN task[t].queue /\ q[i] = task[t].queue[i + 1]
  BY <1>2
<1> HIDE DEF q
<1>5. /\ task'[t].at = task[t].at /\ task'[t].process = task[t].process
      /\ task'[t].terminal = task[t].terminal /\ task'[t].queue = q
  BY <1>2, <1>3 DEF Tasks
<1>6. \A u \in Turns : TaskOK(task'[u])
  <2>1. TaskOK(task'[t])
    BY <1>4, <1>5, LifeParts DEF TaskOK
  <2> QED
    BY <1>3, <2>1, LifeParts
<1>7. \A u \in Turns : Active(u)' <=> Active(u)
  BY <1>3, <1>5 DEF Active
<1>8. CASE ConsumeProgress(t)
  <2>1. UNCHANGED <<stored, consumer>>
    BY <1>8 DEF ConsumeProgress, storeVars, coordinatorVars
  <2>2. ConsumersOwnRunningTurns' /\ Tended' /\ OneTaskPerConversation'
    BY <1>1, <1>7, <2>1, LifeParts
       DEF ConsumersOwnRunningTurns, Tended, OneTaskPerConversation
  <2> QED
    BY <1>6, <2>2, LifeFromParts
<1>9. CASE ConsumeOutcome(t)
  <2>1. PICK e \in Endings("running", Event(t).type) :
          SetStatus(t, e.status) /\ consumer' = [consumer EXCEPT ![t] = e.end]
    BY <1>1, <1>9 DEF ConsumeOutcome
  <2>2. e.status \in Status /\ e.end \in {"done", "raised"}
    BY <1>9, <2>1, EndingsShape DEF ConsumeOutcome
  <2>3. /\ consumer'[t] # "get" /\ \A u \in Turns \ {t} : consumer'[u] = consumer[u]
        /\ \A u \in Turns : stored'[u].conversation = stored[u].conversation
        /\ \A u \in Turns \ {t} : stored'[u] = stored[u]
    BY <2>1, <2>2, SetStatusShape DEF TypeOK
  <2>4. ~Active(t)
    <3>1. task[t].queue[1].type \in Outcomes /\ 1 \in DOMAIN task[t].queue
      BY <1>2, <1>9 DEF ConsumeOutcome, Event
    <3> QED
      BY <3>1, LifeParts DEF TaskOK, Active
  <2>5. ConsumersOwnRunningTurns'
    BY <1>1, <2>3, LifeParts DEF ConsumersOwnRunningTurns
  <2>6. Tended'
    BY <1>1, <1>7, <2>3, <2>4, LifeParts DEF Tended
  <2>7. OneTaskPerConversation'
    BY <1>7, <2>3, LifeParts DEF OneTaskPerConversation
  <2> QED
    BY <1>6, <2>5, <2>6, <2>7, LifeFromParts
<1> QED
  BY <1>8, <1>9

LEMMA RuntimeLife ==
    ASSUME TypeOK, LifeInv, NEW t \in Turns, RuntimeStep(t)
    PROVE  LifeInv'
<1>1. UNCHANGED <<stored, consumer, mode>>
  BY DEF RuntimeStep, storeVars, coordinatorVars
<1>2. /\ Active(t)
      /\ \E r \in Tasks : TaskOK(r) /\ r.at # "idle" /\ Become(t, r)
  BY LifeParts, HermesKeeps DEF RuntimeStep
<1>3. TaskOK(task'[t]) /\ \A u \in Turns \ {t} : task'[u] = task[u]
  BY <1>2 DEF Become, TypeOK
<1>4. \A u \in Turns : Active(u)' => Active(u)
  BY <1>2, <1>3 DEF Active
<1>5. mode # "down"
  BY <1>2, LifeParts DEF ConsumersOwnRunningTurns, Active
<1>6. ConsumersOwnRunningTurns'
  BY <1>1, <1>5, LifeParts DEF ConsumersOwnRunningTurns
<1>7. Tended' /\ OneTaskPerConversation'
  BY <1>1, <1>4, LifeParts DEF Tended, OneTaskPerConversation
<1> QED
  BY <1>3, <1>6, <1>7, LifeParts, LifeFromParts

LEMMA ProcessLostLife ==
    ASSUME ProcessLost PROVE LifeInv'
<1>1. NoTask.at = "idle" /\ NoTask.process = "none" /\ NoTask.queue = <<>>
  BY DEF NoTask
<1>2. \A t \in Turns : task'[t] = NoTask /\ consumer'[t] = "none"
  BY DEF ProcessLost
<1>3. \A t \in Turns : ~Active(t)'
  BY <1>1, <1>2 DEF Active
<1>4. \A t \in Turns : TaskOK(task'[t])
  BY <1>1, <1>2 DEF TaskOK
<1>5. ConsumersOwnRunningTurns' /\ Tended' /\ OneTaskPerConversation'
  BY <1>1, <1>2, <1>3 DEF ConsumersOwnRunningTurns, Tended, OneTaskPerConversation
<1> QED
  BY <1>4, <1>5, LifeFromParts

LEMMA ClaimLife ==
    ASSUME TypeOK, LifeInv, NEW claimed \in SUBSET Turns, Claim(claimed)
    PROVE  LifeInv'
<1>1. \A t \in Turns : /\ task'[t].at = task[t].at
                       /\ task'[t].process = task[t].process
                       /\ task'[t].terminal = task[t].terminal
                       /\ task'[t].queue = task[t].queue
  BY CancelledKeeps DEF Claim, TypeOK
<1>2. \A t \in Turns : Active(t)' <=> Active(t)
  BY <1>1 DEF Active
<1>3. \A t \in Turns : consumer'[t] # "get"
  BY DEF Claim, Owned
<1>4. \A t \in Turns : stored'[t].conversation = stored[t].conversation
  BY InterruptedRow DEF Claim, TypeOK
<1>5. mode' = "stopping"
  BY DEF Claim
<1>6. \A t \in Turns : TaskOK(task'[t])
  BY <1>1, LifeParts DEF TaskOK
<1>7. ConsumersOwnRunningTurns' /\ Tended'
  BY <1>3, <1>5 DEF ConsumersOwnRunningTurns, Tended
<1>8. OneTaskPerConversation'
  BY <1>2, <1>4, LifeParts DEF OneTaskPerConversation
<1> QED
  BY <1>6, <1>7, <1>8, LifeFromParts

LEMMA ProcessLife ==
    ASSUME TypeOK, LifeInv, ProcessStep
    PROVE  LifeInv'
<1>1. CASE Startup
  <2>1. UNCHANGED <<task, consumer>> /\ mode = "down" /\ mode' = "up"
    BY <1>1 DEF Startup, hermesVars
  <2>2. \A t \in Turns : consumer[t] = "none" /\ ~Active(t)
    BY <2>1, LifeParts DEF ConsumersOwnRunningTurns, Active
  <2>3. \A t \in Turns : ~Active(t)'
    BY <2>1, <2>2 DEF Active
  <2>4. ConsumersOwnRunningTurns' /\ Tended' /\ OneTaskPerConversation'
    BY <2>1, <2>2, <2>3 DEF ConsumersOwnRunningTurns, Tended, OneTaskPerConversation
  <2> QED
    BY <2>1, <2>4, LifeParts, LifeFromParts
<1>2. CASE Shutdown \/ ShutdownRaises
  <2>1. \E claimed \in SUBSET Turns : Claim(claimed)
    BY <1>2 DEF Shutdown, ShutdownRaises, Owned
  <2> QED
    BY <2>1, ClaimLife
<1>3. CASE Exit \/ Crash
  BY <1>3, ProcessLostLife DEF Exit, Crash
<1> QED
  BY <1>1, <1>2, <1>3 DEF ProcessStep

LEMMA CancelLife ==
    ASSUME TypeOK, LifeInv, CancelStep
    PROVE  LifeInv'
<1>1. UNCHANGED <<stored, mode, consumer>>
  BY DEF CancelStep, CancelEnded, Cancel, CancelGraceOver, CancelJoined, Disconnect,
         storeVars, coordinatorVars
<1>2. \A t \in Turns : task'[t] \in {task[t], Cancelled(task[t])}
  BY DEF CancelStep, CancelEnded, Cancel, CancelGraceOver, CancelJoined, Disconnect,
         hermesVars, TypeOK
<1> QED
  BY <1>1, <1>2, TasksOnly

LEMMA LifeStep ==
    ASSUME TypeOK, LifeInv, [Next]_vars
    PROVE  LifeInv'
<1>1. CASE UNCHANGED vars
  <2>1. UNCHANGED <<stored, mode, consumer, task>>
    BY <1>1 DEF vars, storeVars, hermesVars, coordinatorVars
  <2> QED
    BY <2>1, TasksOnly
<1>2. ASSUME NEW t \in Turns, CrashAfterCommit(t)
      PROVE  LifeInv'
  BY <1>2, ProcessLostLife DEF CrashAfterCommit
<1> QED
  BY <1>1, <1>2, StartLife, ConsumeLife, RuntimeLife, ProcessLife, CancelLife
     DEF Next, TurnStep

LEMMA InitialLife ==
    ASSUME Init PROVE LifeInv
<1>1. \A t \in Turns : task[t] = NoTask /\ consumer[t] = "none"
  BY DEF Init, HermesInit
<1>2. NoTask.at = "idle" /\ NoTask.process = "none" /\ NoTask.queue = <<>>
  BY DEF NoTask
<1> QED
  BY <1>1, <1>2 DEF LifeInv, ConsumersOwnRunningTurns, OutcomeComesLast, ProcessWithinTask,
                    OneTaskPerConversation, Active

(***************************************************************************)
(* The theorems.                                                           *)
(***************************************************************************)
\* Consumers, tasks and processes keep the order of a turn's life: a consumer has a turn
\* that runs in the store, it waits for every task that has not ended, an outcome is
\* the last event of a task, a process lives within its task, and a conversation has one
\* task at most - for every number of turns, faults, cancellations and restarts.
THEOREM TurnInvHolds == Spec => [](TypeOK /\ LifeInv)
<1>1. Init => TypeOK /\ LifeInv
  BY InitialTypes, InitialLife
<1>2. TypeOK /\ LifeInv /\ [Next]_vars => TypeOK' /\ LifeInv'
  BY TypeStep, LifeStep
<1> QED
  BY <1>1, <1>2, PTL DEF Spec

\* Two turns of a conversation never have live bridges at the same time.
THEOREM OneBridge == Spec => []OneBridgePerConversation
<1>1. TypeOK /\ LifeInv => OneBridgePerConversation
  BY DEF LifeInv, ProcessWithinTask, OneTaskPerConversation, OneBridgePerConversation, Active
<1> QED
  BY <1>1, TurnInvHolds, PTL

\* The row of a turn that has ended is not touched by any step.
LEMMA EndedRowStays ==
    ASSUME TypeOK, LifeInv, [Next]_vars, NEW t \in Turns, stored[t].status \in Final
    PROVE  stored'[t] = stored[t]
<1>1. stored[t].status \notin {"none", "running"}
  BY DEF Final, Outcomes
<1>2. CASE UNCHANGED vars
  BY <1>2 DEF vars, storeVars
<1>3. ASSUME NEW u \in Turns, NEW c \in Conversations,
             Start(u, c) \/ StartRaises(u, c) \/ StartRefused(u, c)
      PROVE  stored'[t] = stored[t]
  BY <1>1, <1>3 DEF Start, StartRaises, StartRefused, MayCreate, TypeOK
<1>4. ASSUME NEW u \in Turns, ConsumeOutcome(u) \/ CrashAfterCommit(u)
      PROVE  stored'[t] = stored[t]
  <2>1. stored[u].status = "running" /\ u # t
    BY <1>1, <1>4, LifeParts
       DEF ConsumeOutcome, CrashAfterCommit, Consuming, ConsumersOwnRunningTurns
  <2>2. \E status : SetStatus(u, status)
    BY <1>4 DEF ConsumeOutcome, CrashAfterCommit
  <2> QED
    BY <2>1, <2>2 DEF SetStatus, TypeOK
<1>5. ASSUME NEW u \in Turns, ConsumeProgress(u) \/ RuntimeStep(u)
      PROVE  stored'[t] = stored[t]
  BY <1>5 DEF ConsumeProgress, RuntimeStep, storeVars
<1>6. CASE CancelStep
  BY <1>6 DEF CancelStep, CancelEnded, Cancel, CancelGraceOver, CancelJoined, Disconnect,
              storeVars
<1>7. CASE ProcessStep
  <2>1. ASSUME NEW claimed, Claim(claimed)
        PROVE  stored'[t] = stored[t]
    BY <1>1, <2>1 DEF Claim
  <2> QED
    BY <1>1, <1>7, <2>1 DEF ProcessStep, Startup, Swept, Shutdown, ShutdownRaises, Exit, Crash
<1> QED
  BY <1>2, <1>3, <1>4, <1>5, <1>6, <1>7 DEF Next, TurnStep

\* What a step announces, it has stored for a turn that was not over, unless a call that
\* raised had committed.
LEMMA AnnouncedStep ==
    ASSUME TypeOK, LifeInv, [Next]_vars, ~LostAck, NEW t \in Turns
    PROVE  \/ announced'[t] = announced[t]
           \/ /\ stored[t].status \in {"none", "running"}
              /\ announced'[t] \subseteq announced[t] \cup {stored'[t].status}
<1>1. CASE UNCHANGED vars
  BY <1>1 DEF vars, registryVars
<1>2. ASSUME NEW u \in Turns, NEW c \in Conversations, Start(u, c) \/ StartRaises(u, c)
      PROVE  announced'[t] = announced[t]
  BY <1>2 DEF Start, StartRaises, registryVars
<1>3. ASSUME NEW u \in Turns, NEW c \in Conversations, StartRefused(u, c)
      PROVE  \/ announced'[t] = announced[t]
             \/ /\ stored[t].status = "none"
                /\ announced'[t] \subseteq announced[t] \cup {stored'[t].status}
  <2>1. PICK w \in Finish("running", "failed") :
          /\ stored' = [stored EXCEPT ![u] = [Created(c) EXCEPT !.status = w.status]]
          /\ announced' = [announced EXCEPT
                ![u] = IF w.raised THEN @ ELSE @ \cup {"failed"}]
    BY <1>3 DEF StartRefused
  <2>2. ~w.raised => w.status = "failed"
    <3>1. {"running", "failed"} \subseteq Status /\ "running" \notin Final
      BY DEF Status, Final, Outcomes
    <3> QED
      BY <3>1, WriteShape DEF Finish
  <2>3. stored'[u].status = w.status
    BY <2>1 DEF TypeOK, Created
  <2>4. stored[u].status = "none"
    BY <1>3 DEF StartRefused, MayCreate
  <2> QED
    BY <2>1, <2>2, <2>3, <2>4 DEF TypeOK
<1>4. ASSUME NEW u \in Turns, ConsumeOutcome(u)
      PROVE  \/ announced'[t] = announced[t]
             \/ /\ stored[t].status = "running"
                /\ announced'[t] \subseteq announced[t] \cup {stored'[t].status}
  <2>1. stored[u].status = "running"
    BY <1>4, LifeParts DEF ConsumeOutcome, Consuming, ConsumersOwnRunningTurns
  <2>2. PICK e \in Endings("running", Event(u).type) :
          /\ SetStatus(u, e.status)
          /\ IF e.told = "none" THEN UNCHANGED registryVars ELSE PublishOutcome(u, e.told)
    BY <1>4, <2>1 DEF ConsumeOutcome
  <2>3. e.status \in Status /\ e.told \in {"none", e.status}
    BY <1>4, <2>2, EndingsShape DEF ConsumeOutcome
  <2>4. stored'[u].status = e.status
    BY <2>2, <2>3, SetStatusShape
  <2>5. \/ announced' = announced
        \/ announced' = [announced EXCEPT ![u] = @ \cup {e.told}] /\ e.told = e.status
    BY <2>2, <2>3 DEF registryVars, PublishOutcome
  <2> QED
    BY <2>1, <2>4, <2>5 DEF TypeOK
<1>5. ASSUME NEW u \in Turns, ConsumeProgress(u) \/ CrashAfterCommit(u) \/ RuntimeStep(u)
      PROVE  announced'[t] = announced[t]
  BY <1>5 DEF ConsumeProgress, PublishProgress, CrashAfterCommit, ProcessLost, RegistryLost,
              RuntimeStep, registryVars
<1>6. CASE CancelStep
  BY <1>6 DEF CancelStep, CancelEnded, Cancel, CancelGraceOver, CancelJoined, Disconnect,
              registryVars
<1>7. CASE ProcessStep
  BY <1>7 DEF ProcessStep, Startup, Shutdown, ShutdownRaises, Claim, Exit, Crash,
              ProcessLost, RegistryLost, registryVars
<1> QED
  BY <1>1, <1>2, <1>3, <1>4, <1>5, <1>6, <1>7 DEF Next, TurnStep

\* A turn that has ended keeps its outcome and its answer: store.py's guards, the claim at
\* shutdown and the sweep at startup never rewrite it.
THEOREM OutcomesAreFinal == Spec => OutcomeIsFinal
<1>1. TypeOK /\ LifeInv /\ [Next]_vars =>
          [\A t \in Turns : stored[t].status \in Final => stored'[t] = stored[t]]_vars
  BY EndedRowStays
<1> QED
  BY <1>1, TurnInvHolds, PTL DEF Spec, OutcomeIsFinal

\* If a store call that raises has not committed, browsers are never told an outcome that
\* is not the one in the database. The hypothesis is needed: the run turn_lost_ack.
THEOREM AnnouncementsAreStored ==
    ASSUME ~LostAck PROVE Spec => []AnnouncedIsStored
<1>1. Init => AnnouncedIsStored
  BY DEF Init, RegistryInit, AnnouncedIsStored
<1>2. TypeOK /\ LifeInv /\ AnnouncedIsStored /\ [Next]_vars => AnnouncedIsStored'
  <2> SUFFICES ASSUME TypeOK, LifeInv, AnnouncedIsStored, [Next]_vars, NEW t \in Turns
               PROVE  announced'[t] \subseteq {stored'[t].status}
    BY DEF AnnouncedIsStored
  <2>1. announced[t] \subseteq {stored[t].status} /\ announced[t] \subseteq Outcomes
    BY DEF AnnouncedIsStored, TypeOK
  <2>2. stored[t].status \in {"none", "running"} => announced[t] = {}
    BY <2>1 DEF Outcomes
  <2>3. announced[t] # {} => stored'[t] = stored[t]
    BY <2>1, EndedRowStays DEF Final
  <2> QED
    BY <2>1, <2>2, <2>3, AnnouncedStep
<1> QED
  BY <1>1, <1>2, TurnInvHolds, PTL DEF Spec

(***************************************************************************)
(* Events and text on their way: what a step of the adapter puts into the  *)
(* queue of its task, and what a consumer takes from it.                   *)
(***************************************************************************)
Busy(r) == r.at \notin {"idle", "end"}

\* From r to s nothing is queued; an outcome may have been noted.
Silent(r, s) ==
    /\ Busy(s) /\ s.queue = r.queue
    /\ \/ s.seq = r.seq /\ s.terminal = r.terminal
       \/ s.seq = r.seq + 1 /\ r.terminal = "none" /\ s.terminal # "none"

\* From r to s the event e is queued, and it is no outcome.
Speaks(r, s, e) ==
    /\ Busy(s) /\ s.queue = Append(r.queue, e)
    /\ s.seq = r.seq + 1 /\ r.terminal = "none" /\ s.terminal = "none"
    /\ e.seq = s.seq /\ e.type \notin Outcomes

\* From r to s the outcome is queued.
Ends(r, s, e) ==
    /\ s.at = "end" /\ s.queue = Append(r.queue, e)
    /\ r.terminal # "none" /\ e.seq = r.seq /\ e.text = <<>>

\* emit notes an outcome and queues everything else, unless an outcome has been noted.
LEMMA EmitShape ==
    ASSUME NEW r \in Tasks, NEW type \in EventTypes, NEW text \in Seq(Nat)
    PROVE  /\ type \in Outcomes =>
                 /\ Emit(r, type, text).queue = r.queue
                 /\ \/ Emit(r, type, text) = r /\ r.terminal # "none"
                    \/ /\ r.terminal = "none" /\ Emit(r, type, text).terminal # "none"
                       /\ Emit(r, type, text).seq = r.seq + 1
           /\ (type \notin Outcomes /\ r.terminal = "none") =>
                 /\ Emit(r, type, text).queue =
                       Append(r.queue, RuntimeEvent(r.seq + 1, type, text))
                 /\ Emit(r, type, text).seq = r.seq + 1
                 /\ Emit(r, type, text).terminal = "none"
<1>1. CASE r.terminal # "none"
  BY <1>1 DEF Emit
<1>2. CASE r.terminal = "none" /\ type \in Outcomes
  BY <1>2 DEF Emit, Tasks, Outcomes
<1>3. CASE r.terminal = "none" /\ type \notin Outcomes
  <2> DEFINE q == Append(r.queue, RuntimeEvent(r.seq + 1, type, text))
  <2>1. Emit(r, type, text) = [r EXCEPT !.seq = @ + 1, !.queue = q]
    BY <1>3 DEF Emit, Tasks
  <2> HIDE DEF q
  <2>2. Emit(r, type, text).queue = q
    BY <2>1 DEF Tasks
  <2>3. Emit(r, type, text).seq = r.seq + 1 /\ Emit(r, type, text).terminal = "none"
    BY <1>3, <2>1 DEF Tasks
  <2> QED
    BY <1>3, <2>2, <2>3 DEF q
<1> QED
  BY <1>1, <1>2, <1>3

\* A step of the adapter is silent, queues one event, with the next piece of text or with
\* none, or queues the outcome.
LEMMA HermesShape ==
    ASSUME TypeOK, NEW t \in Turns, TaskOK(task[t]), HermesStep(t)
    PROVE  /\ Busy(task[t])
           /\ task' = [task EXCEPT ![t] = task'[t]]
           /\ spoken' = [spoken EXCEPT ![t] = spoken'[t]]
           /\ \/ Silent(task[t], task'[t]) /\ spoken'[t] = spoken[t]
              \/ \E e \in Events :
                    /\ Speaks(task[t], task'[t], e)
                    /\ \/ e.text = <<>> /\ spoken'[t] = spoken[t]
                       \/ e.text = <<spoken'[t]>> /\ spoken'[t] = spoken[t] + 1
              \/ \E e \in Events : Ends(task[t], task'[t], e) /\ spoken'[t] = spoken[t]
<1> DEFINE r == task[t]
<1>1. /\ r \in Tasks /\ spoken[t] \in Nat /\ <<>> \in Seq(Nat) /\ r.seq \in Nat
      /\ spoken \in [Turns -> Nat]
  BY DEF TypeOK, Tasks
<1>2. "failed" \in EventTypes /\ "failed" \in Outcomes /\ Outcomes \subseteq EventTypes
  BY DEF EventTypes, Outcomes
<1>3. ASSUME Busy(r), UNCHANGED spoken, NEW s \in Tasks, Silent(r, s), Become(t, s)
      PROVE  /\ task' = [task EXCEPT ![t] = task'[t]]
             /\ spoken' = [spoken EXCEPT ![t] = spoken'[t]]
             /\ Silent(r, task'[t]) /\ spoken'[t] = spoken[t]
  BY <1>1, <1>3 DEF Become, TypeOK
<1>4. ASSUME NEW type \in Outcomes, NEW to \in {"cleanup", "put"}
      PROVE  /\ [Emit(r, type, <<>>) EXCEPT !.at = to] \in Tasks
             /\ Silent(r, [Emit(r, type, <<>>) EXCEPT !.at = to])
  <2> DEFINE m == Emit(r, type, <<>>)
  <2>1. /\ m \in Tasks /\ m.queue = r.queue
        /\ \/ m = r
           \/ r.terminal = "none" /\ m.terminal # "none" /\ m.seq = r.seq + 1
    BY <1>1, <1>2, EmitType, EmitShape
  <2> HIDE DEF m
  <2>2. [m EXCEPT !.at = to] \in Tasks /\ Silent(r, [m EXCEPT !.at = to])
    BY <2>1 DEF Tasks, Silent, Busy
  <2> QED
    BY <2>2 DEF m
<1>5. CASE Spawn(t)
  <2> DEFINE s == [r EXCEPT !.at = "request", !.process = "alive"]
  <2>1. s \in Tasks /\ Silent(r, s) /\ Busy(r) /\ Become(t, s)
    BY <1>1, <1>5 DEF Tasks, Silent, Busy, Spawn
  <2> QED
    BY <1>3, <1>5, <2>1 DEF Spawn
<1>6. CASE SpawnFails(t)
  <2>1. Busy(r)
    BY <1>6 DEF SpawnFails, Busy
  <2> QED
    BY <1>2, <1>3, <1>4, <1>6, <2>1 DEF SpawnFails
<1>7. CASE SendRequest(t)
  <2> DEFINE s == [r EXCEPT !.at = "read"]
  <2>1. s \in Tasks /\ Silent(r, s) /\ Busy(r) /\ Become(t, s)
    BY <1>1, <1>7 DEF Tasks, Silent, Busy, SendRequest
  <2> QED
    BY <1>3, <1>7, <2>1 DEF SendRequest
<1>8. CASE Break(t) \/ Timeout(t)
  <2>1. Busy(r) /\ Fail(t)
    BY <1>8 DEF Break, Timeout, Busy
  <2> QED
    BY <1>2, <1>3, <1>4, <2>1 DEF Fail
<1>9. ASSUME NEW type \in EventTypes \ Outcomes, NEW text \in Seq(Nat), Reading(t),
             NEW s, s.at = "read", s.queue = Emit(r, type, text).queue,
             s.seq = Emit(r, type, text).seq, s.terminal = Emit(r, type, text).terminal
      PROVE  /\ Busy(r)
             /\ \E e \in Events : Speaks(r, s, e) /\ e.text = text
  <2> DEFINE e == RuntimeEvent(r.seq + 1, type, text)
  <2>1. /\ r.terminal = "none" /\ Busy(r) /\ Busy(s)
    BY <1>9 DEF Reading, Busy
  <2>2. e \in Events /\ e.type = type /\ e.text = text /\ e.seq = r.seq + 1
    BY <1>1, <1>9 DEF RuntimeEvent, Events
  <2>3. s.queue = Append(r.queue, e) /\ s.seq = r.seq + 1 /\ s.terminal = "none"
    BY <1>1, <1>9, <2>1, EmitShape
  <2> HIDE DEF e
  <2> QED
    BY <1>9, <2>1, <2>2, <2>3 DEF Speaks
<1>10. CASE ReadReady(t)
  <2> DEFINE m == Emit(r, "started", <<>>)
             s == [m EXCEPT !.ready = TRUE]
  <2>1. "started" \in EventTypes \ Outcomes /\ Reading(t) /\ r.at = "read"
    BY <1>10 DEF ReadReady, EventTypes, Outcomes, Reading
  <2>2. m \in Tasks /\ m.at = r.at
    BY <1>1, <2>1, EmitType
  <2> HIDE DEF m
  <2>3. s.at = "read" /\ s.queue = m.queue /\ s.seq = m.seq /\ s.terminal = m.terminal
    BY <2>1, <2>2 DEF Tasks
  <2>4. task'[t] = s /\ task' = [task EXCEPT ![t] = s] /\ UNCHANGED spoken
    BY <1>10 DEF ReadReady, Become, TypeOK, m
  <2> HIDE DEF s
  <2>5. Busy(r) /\ \E e \in Events : Speaks(r, s, e) /\ e.text = <<>>
    BY <1>1, <1>9, <2>1, <2>3 DEF m
  <2> QED
    BY <1>1, <2>4, <2>5
<1>11. CASE ReadActivity(t)
  <2> DEFINE s == Emit(r, "activity", <<>>)
  <2>1. "activity" \in EventTypes \ Outcomes /\ Reading(t) /\ r.at = "read"
    BY <1>11 DEF ReadActivity, EventTypes, Outcomes, Reading
  <2>2. s.at = "read"
    BY <1>1, <2>1, EmitType
  <2>3. task'[t] = s /\ task' = [task EXCEPT ![t] = s] /\ UNCHANGED spoken
    BY <1>11 DEF ReadActivity, Become, TypeOK
  <2>4. Busy(r) /\ \E e \in Events : Speaks(r, s, e) /\ e.text = <<>>
    BY <1>1, <1>9, <2>1, <2>2
  <2> HIDE DEF s
  <2> QED
    BY <1>1, <2>3, <2>4
<1>12. CASE ReadDelta(t)
  <2> DEFINE k == spoken[t] + 1
             s == Emit(r, "delta", <<k>>)
  <2>1. /\ "delta" \in EventTypes \ Outcomes /\ Reading(t) /\ r.at = "read"
        /\ <<k>> \in Seq(Nat)
    BY <1>1, <1>12 DEF ReadDelta, EventTypes, Outcomes, Reading
  <2>2. s.at = "read"
    BY <1>1, <2>1, EmitType
  <2>3. task'[t] = s /\ task' = [task EXCEPT ![t] = s] /\ spoken' = [spoken EXCEPT ![t] = k]
    BY <1>12 DEF ReadDelta, Become, TypeOK
  <2>4. Busy(r) /\ \E e \in Events : Speaks(r, s, e) /\ e.text = <<k>>
    BY <1>1, <1>9, <2>1, <2>2
  <2> HIDE DEF s
  <2>5. spoken'[t] = spoken[t] + 1
    BY <1>1, <2>3
  <2> QED
    BY <1>1, <2>3, <2>4, <2>5
<1>13. CASE ReadCompleted(t)
  <2> DEFINE s == [r EXCEPT !.completion = TRUE]
  <2>1. s \in Tasks /\ Silent(r, s) /\ Busy(r) /\ Become(t, s)
    BY <1>1, <1>13 DEF Tasks, Silent, Busy, ReadCompleted, Reading
  <2> QED
    BY <1>3, <1>13, <2>1 DEF ReadCompleted
<1>14. CASE ReadOutcome(t)
  <2>1. PICK outcome \in {"failed", "cancelled"} : Become(t, Emit(r, outcome, <<>>))
    BY <1>14 DEF ReadOutcome
  <2> DEFINE s == Emit(r, outcome, <<>>)
  <2>2. r.at = "read" /\ outcome \in Outcomes /\ Busy(r)
    BY <1>14 DEF ReadOutcome, Reading, Outcomes, Busy
  <2>3. /\ s \in Tasks /\ s.at = "read" /\ s.queue = r.queue
        /\ \/ s = r
           \/ r.terminal = "none" /\ s.terminal # "none" /\ s.seq = r.seq + 1
    BY <1>1, <1>2, <2>2, EmitType, EmitShape
  <2> HIDE DEF s
  <2>4. Silent(r, s)
    BY <2>2, <2>3 DEF Silent, Busy
  <2>5. Become(t, s) /\ UNCHANGED spoken
    BY <1>14, <2>1 DEF ReadOutcome, s
  <2> QED
    BY <1>3, <2>2, <2>3, <2>4, <2>5
<1>15. CASE EndOfOutput(t)
  <2> DEFINE s == [r EXCEPT !.at = "wait"]
  <2>1. s \in Tasks /\ Silent(r, s) /\ Busy(r) /\ Become(t, s)
    BY <1>1, <1>15 DEF Tasks, Silent, Busy, EndOfOutput
  <2> QED
    BY <1>3, <1>15, <2>1 DEF EndOfOutput
<1>16. CASE BridgeExits(t)
  <2> DEFINE s == [r EXCEPT !.process = "gone"]
  <2>1. r.at \in {"request", "read", "wait", "cleanup"}
    BY <1>16 DEF TaskOK, BridgeExits
  <2>2. s \in Tasks /\ Silent(r, s) /\ Busy(r) /\ Become(t, s)
    BY <1>1, <1>16, <2>1 DEF Tasks, Silent, Busy, BridgeExits
  <2> QED
    BY <1>3, <1>16, <2>2 DEF BridgeExits
<1>17. CASE Exited(t)
  <2>1. PICK code \in {0, 1} :
            Become(t, [Emit(r, Verdict(r, code), <<>>) EXCEPT !.at = "cleanup"])
    BY <1>17 DEF Exited
  <2>2. Verdict(r, code) \in Outcomes
    BY DEF Verdict, Outcomes
  <2>3. Busy(r) /\ UNCHANGED spoken
    BY <1>17 DEF Exited, Busy
  <2> QED
    BY <1>3, <1>4, <2>1, <2>2, <2>3
<1>18. CASE CleanUp(t)
  <2> DEFINE s == [r EXCEPT !.at = "put", !.process = "gone"]
  <2>1. s \in Tasks /\ Silent(r, s) /\ Busy(r) /\ Become(t, s)
    BY <1>1, <1>18 DEF Tasks, Silent, Busy, CleanUp
  <2> QED
    BY <1>3, <1>18, <2>1 DEF CleanUp
<1>19. CASE PutOutcome(t)
  <2> DEFINE e == RuntimeEvent(r.seq, r.terminal, <<>>)
             q == Append(r.queue, e)
             s == [r EXCEPT !.at = "end", !.ready = FALSE, !.completion = FALSE,
                            !.cancel = FALSE, !.seq = 0, !.queue = q]
  <2>1. r.at = "put" /\ r.terminal # "none"
    BY <1>19 DEF PutOutcome, TaskOK
  <2>2. e \in Events /\ e.seq = r.seq /\ e.text = <<>>
    BY <1>1, <1>2, <2>1 DEF RuntimeEvent, Events, Tasks, EventTypes
  <2>3. task' = [task EXCEPT ![t] = s] /\ UNCHANGED spoken
    BY <1>19 DEF PutOutcome, Become, TypeOK, Tasks
  <2> HIDE DEF e
  <2>4. q = Append(r.queue, e)
    OBVIOUS
  <2> HIDE DEF q
  <2>5. s.at = "end" /\ s.queue = q
    BY <1>1 DEF Tasks
  <2> HIDE DEF s
  <2>6. Ends(r, s, e)
    BY <2>1, <2>2, <2>4, <2>5 DEF Ends
  <2>7. task'[t] = s /\ task' = [task EXCEPT ![t] = task'[t]]
    BY <2>3 DEF TypeOK
  <2>8. spoken'[t] = spoken[t] /\ spoken' = [spoken EXCEPT ![t] = spoken'[t]]
    BY <1>1, <2>3
  <2> QED
    BY <2>1, <2>2, <2>6, <2>7, <2>8 DEF Busy
<1> QED
  BY <1>5, <1>6, <1>7, <1>8, <1>10, <1>11, <1>12, <1>13, <1>14, <1>15, <1>16,
     <1>17, <1>18, <1>19 DEF HermesStep, Proceed

\* A step of the adapter keeps the numbering of a queue.
LEMMA QueueGrows ==
    ASSUME NEW r \in Tasks, NEW s \in Tasks, NEW view \in Views,
           TaskOK(r), Busy(r), QueueGoesOn(r, view),
           Silent(r, s) \/ \E e \in Events : Speaks(r, s, e) \/ Ends(r, s, e)
    PROVE  QueueGoesOn(s, view)
<1> DEFINE q == r.queue
<1>1. q \in Seq(Events) /\ r.seq \in Nat /\ view.seq \in Nat /\ Len(q) \in Nat
  BY DEF Tasks, Views
<1>2. /\ \A i \in DOMAIN q : q[i].seq = view.seq + i /\ q[i].type \notin Outcomes
      /\ r.seq = view.seq + Len(q) + (IF r.terminal = "none" THEN 0 ELSE 1)
  BY DEF QueueGoesOn, TaskOK, Busy
<1>3. CASE Silent(r, s)
  BY <1>1, <1>2, <1>3 DEF QueueGoesOn, Silent
<1>4. ASSUME NEW e \in Events, Speaks(r, s, e)
      PROVE  QueueGoesOn(s, view)
  <2>1. e.seq = view.seq + Len(q) + 1 /\ e.type \notin Outcomes /\ s.queue = Append(q, e)
    BY <1>1, <1>2, <1>4 DEF Speaks
  <2> DEFINE p == Append(q, e)
  <2>2. /\ Len(p) = Len(q) + 1 /\ DOMAIN p = 1..(Len(q) + 1)
        /\ p[Len(q) + 1] = e /\ \A i \in DOMAIN q : p[i] = q[i]
        /\ DOMAIN q = 1..Len(q)
    BY <1>1
  <2> HIDE DEF p
  <2>3. ASSUME NEW i \in DOMAIN p
        PROVE  p[i].seq = view.seq + i /\ p[i].type \notin Outcomes
    <3>1. i \in DOMAIN q \/ i = Len(q) + 1
      BY <1>1, <2>2
    <3>2. CASE i \in DOMAIN q
      BY <1>2, <2>2, <3>2
    <3>3. CASE i = Len(q) + 1
      <4>1. p[i] = e /\ view.seq + i = view.seq + Len(q) + 1
        BY <1>1, <2>2, <3>3
      <4> QED
        BY <2>1, <4>1
    <3> QED
      BY <3>1, <3>2, <3>3
  <2>4. s.queue = p /\ s.seq = view.seq + Len(p) /\ s.terminal = "none"
    BY <1>1, <1>2, <1>4, <2>1, <2>2 DEF Speaks, p
  <2> QED
    BY <1>1, <2>2, <2>3, <2>4 DEF QueueGoesOn
<1>5. ASSUME NEW e \in Events, Ends(r, s, e)
      PROVE  QueueGoesOn(s, view)
  <2>1. e.seq = view.seq + Len(q) + 1 /\ e.text = <<>> /\ s.queue = Append(q, e) /\ s.at = "end"
    BY <1>1, <1>2, <1>5 DEF Ends
  <2> DEFINE p == Append(q, e)
  <2>2. /\ Len(p) = Len(q) + 1 /\ DOMAIN p = 1..(Len(q) + 1)
        /\ p[Len(q) + 1] = e /\ \A i \in DOMAIN q : p[i] = q[i]
        /\ DOMAIN q = 1..Len(q)
    BY <1>1
  <2> HIDE DEF p
  <2>3. ASSUME NEW i \in DOMAIN p
        PROVE  /\ p[i].seq = view.seq + i
               /\ p[i].type \in Outcomes => i = Len(p) /\ p[i].text = <<>>
    <3>1. i \in DOMAIN q \/ i = Len(q) + 1
      BY <1>1, <2>2
    <3>2. CASE i \in DOMAIN q
      BY <1>2, <2>2, <3>2
    <3>3. CASE i = Len(q) + 1
      <4>1. p[i] = e /\ i = Len(p) /\ view.seq + i = view.seq + Len(q) + 1
        BY <1>1, <2>2, <3>3
      <4> QED
        BY <2>1, <4>1
    <3> QED
      BY <3>1, <3>2, <3>3
  <2>4. s.queue = p
    BY <2>1 DEF p
  <2> QED
    BY <2>1, <2>3, <2>4 DEF QueueGoesOn
<1> QED
  BY <1>3, <1>4, <1>5

\* So does a consumer that takes the next event and publishes it.
LEMMA QueueShrinks ==
    ASSUME NEW r \in Tasks, NEW s \in Tasks, NEW view \in Views, NEW after \in Views,
           r.queue # <<>>, QueueGoesOn(r, view),
           s.queue = Tail(r.queue), s.at = r.at, s.seq = r.seq, s.terminal = r.terminal,
           after.seq = view.seq + 1
    PROVE  QueueGoesOn(s, after)
<1> DEFINE q == r.queue
           p == Tail(q)
           v == view.seq
           w == after.seq
<1>1. q \in Seq(Events) /\ r.seq \in Nat /\ v \in Nat /\ w = v + 1
  BY DEF Tasks, Views
<1>2. /\ Len(q) \in Nat /\ Len(q) = Len(p) + 1 /\ Len(p) \in Nat
      /\ DOMAIN p = 1..Len(p) /\ DOMAIN q = 1..Len(q)
      /\ \A i \in DOMAIN p : p[i] = q[i + 1]
  BY <1>1
<1>3. v + Len(q) = w + Len(p)
  BY <1>1, <1>2
<1> HIDE DEF p, v, w
<1>4. \A i \in DOMAIN p :
          /\ p[i].seq = w + i
          /\ p[i].type \in Outcomes => i = Len(p) /\ p[i].text = <<>>
  <2> SUFFICES ASSUME NEW i \in DOMAIN p
               PROVE  /\ p[i].seq = w + i
                      /\ p[i].type \in Outcomes => i = Len(p) /\ p[i].text = <<>>
    OBVIOUS
  <2>1. i \in Nat /\ i + 1 \in DOMAIN q /\ p[i] = q[i + 1]
    BY <1>2
  <2>2. /\ q[i + 1].seq = v + (i + 1)
        /\ q[i + 1].type \in Outcomes => i + 1 = Len(q) /\ q[i + 1].text = <<>>
    BY <2>1 DEF QueueGoesOn, v
  <2>3. i + 1 = Len(q) => i = Len(p)
    BY <1>2, <2>1
  <2>4. v + (i + 1) = w + i
    <3>1. i \in Nat /\ v \in Nat /\ w = v + 1
      BY <1>1, <2>1
    <3> QED
      BY <3>1
  <2> QED
    BY <2>1, <2>2, <2>3, <2>4
<1>5. s.at \notin {"idle", "end"} =>
          s.seq = w + Len(p) + (IF s.terminal = "none" THEN 0 ELSE 1)
  <2>1. CASE s.terminal = "none"
    <3>1. s.at \notin {"idle", "end"} => s.seq = v + Len(q) + 0
      BY <2>1 DEF QueueGoesOn, v, v
    <3> QED
      BY <1>3, <2>1, <3>1
  <2>2. CASE s.terminal # "none"
    <3>1. s.at \notin {"idle", "end"} => s.seq = v + Len(q) + 1
      BY <2>2 DEF QueueGoesOn, v
    <3> QED
      BY <1>3, <2>2, <3>1
  <2> QED
    BY <2>1, <2>2
<1> QED
  BY <1>4, <1>5 DEF QueueGoesOn, p, w

\* A queued event carries the next piece of text, or none.
LEMMA TextGrows ==
    ASSUME NEW q \in Seq(Events), NEW text, NEW k \in Nat, NEW m \in Nat, NEW e \in Events,
           TextGoesOn(q, text, k),
           \/ e.text = <<>> /\ m = k
           \/ e.text = <<m>> /\ m = k + 1
    PROVE  TextGoesOn(Append(q, e), text, m)
<1> DEFINE p == Append(q, e)
<1>1. PICK n \in [0..Len(q) -> 0..k] :
          /\ text = [i \in 1..n[0] |-> i]
          /\ n[Len(q)] = k
          /\ \A i \in DOMAIN q :
                \/ n[i] = n[i - 1] /\ q[i].text = <<>>
                \/ n[i] = n[i - 1] + 1 /\ q[i].text = <<n[i]>>
  BY DEF TextGoesOn
<1>2. /\ Len(q) \in Nat /\ Len(p) = Len(q) + 1 /\ DOMAIN p = 1..(Len(q) + 1)
      /\ p[Len(q) + 1] = e /\ \A i \in DOMAIN q : p[i] = q[i]
      /\ DOMAIN q = 1..Len(q)
  OBVIOUS
<1> HIDE DEF p
<1> DEFINE h == [i \in 0..Len(p) |-> IF i = Len(p) THEN m ELSE n[i]]
<1>3. /\ h \in [0..Len(p) -> 0..m] /\ h[Len(p)] = m
      /\ \A i \in 0..Len(q) : h[i] = n[i]
  BY <1>1, <1>2
<1> HIDE DEF h
<1>4. h[0] = n[0] /\ h[Len(q)] = k
  <2>1. 0 \in 0..Len(q) /\ Len(q) \in 0..Len(q)
    BY <1>2
  <2> QED
    BY <1>1, <1>3, <2>1
<1>5. \A i \in DOMAIN p :
          \/ h[i] = h[i - 1] /\ p[i].text = <<>>
          \/ h[i] = h[i - 1] + 1 /\ p[i].text = <<h[i]>>
  <2> SUFFICES ASSUME NEW i \in DOMAIN p
               PROVE  \/ h[i] = h[i - 1] /\ p[i].text = <<>>
                      \/ h[i] = h[i - 1] + 1 /\ p[i].text = <<h[i]>>
    OBVIOUS
  <2>1. CASE i = Len(p)
    <3>1. p[i] = e /\ h[i] = m /\ h[i - 1] = k
      BY <1>2, <1>3, <1>4, <2>1
    <3> QED
      BY <3>1
  <2>2. CASE i # Len(p)
    <3>1. /\ i \in DOMAIN q /\ p[i] = q[i] /\ h[i] = n[i] /\ h[i - 1] = n[i - 1]
      BY <1>2, <1>3, <2>2
    <3> QED
      BY <1>1, <3>1
  <2> QED
    BY <2>1, <2>2
<1> QED
  BY <1>1, <1>3, <1>4, <1>5 DEF TextGoesOn, p

\* A consumer puts the text of the event it takes behind the text so far.
LEMMA TextShrinks ==
    ASSUME NEW q \in Seq(Events), NEW text, NEW k \in Nat, q # <<>>, TextGoesOn(q, text, k)
    PROVE  /\ TextGoesOn(Tail(q), text \o Head(q).text, k)
           /\ (Len(q) = 1 /\ Head(q).text = <<>>) => text = [i \in 1..k |-> i]
<1> DEFINE p == Tail(q)
           after == text \o q[1].text
<1>1. PICK n \in [0..Len(q) -> 0..k] :
          /\ text = [i \in 1..n[0] |-> i]
          /\ n[Len(q)] = k
          /\ \A i \in DOMAIN q :
                \/ n[i] = n[i - 1] /\ q[i].text = <<>>
                \/ n[i] = n[i - 1] + 1 /\ q[i].text = <<n[i]>>
  BY DEF TextGoesOn
<1>2. /\ Len(q) \in Nat /\ Len(q) = Len(p) + 1 /\ Len(p) \in Nat
      /\ DOMAIN p = 1..Len(p) /\ DOMAIN q = 1..Len(q)
      /\ \A i \in DOMAIN p : p[i] = q[i + 1]
      /\ Head(q) = q[1] /\ 1 \in DOMAIN q
  OBVIOUS
<1> HIDE DEF p
<1>3. \/ n[1] = n[0] /\ q[1].text = <<>>
      \/ n[1] = n[0] + 1 /\ q[1].text = <<n[1]>>
  BY <1>1, <1>2
<1>4. n[0] \in Nat /\ n[1] \in Nat
  BY <1>1, <1>2
<1>5. after = [i \in 1..n[1] |-> i]
  <2>1. text \in Seq(Nat) /\ Len(text) = n[0]
    BY <1>1, <1>4
  <2>2. CASE n[1] = n[0] /\ q[1].text = <<>>
    BY <1>1, <2>1, <2>2
  <2>3. CASE n[1] = n[0] + 1 /\ q[1].text = <<n[1]>>
    <3>1. after \in Seq(Nat) /\ Len(after) = n[1]
      BY <1>4, <2>1, <2>3
    <3>2. \A i \in 1..n[1] : after[i] = i
      BY <1>1, <1>4, <2>1, <2>3
    <3> HIDE DEF after
    <3> QED
      BY <3>1, <3>2
  <2> QED
    BY <1>3, <2>2, <2>3
<1> DEFINE h == [i \in 0..Len(p) |-> n[i + 1]]
<1>6. h \in [0..Len(p) -> 0..k] /\ \A i \in 0..Len(p) : h[i] = n[i + 1]
  BY <1>1, <1>2
<1> HIDE DEF h, after
<1>7. h[0] = n[1] /\ h[Len(p)] = k
  BY <1>1, <1>2, <1>6
<1>8. \A i \in DOMAIN p :
          \/ h[i] = h[i - 1] /\ p[i].text = <<>>
          \/ h[i] = h[i - 1] + 1 /\ p[i].text = <<h[i]>>
  <2> SUFFICES ASSUME NEW i \in DOMAIN p
               PROVE  \/ h[i] = h[i - 1] /\ p[i].text = <<>>
                      \/ h[i] = h[i - 1] + 1 /\ p[i].text = <<h[i]>>
    OBVIOUS
  <2>1. /\ i \in Nat /\ i + 1 \in DOMAIN q /\ p[i] = q[i + 1]
        /\ h[i] = n[i + 1] /\ h[i - 1] = n[(i + 1) - 1]
    <3>1. i \in 1..Len(p) /\ i - 1 \in 0..Len(p) /\ (i - 1) + 1 = (i + 1) - 1
      BY <1>2
    <3> QED
      BY <1>2, <1>6, <3>1
  <2> QED
    BY <1>1, <2>1
<1>9. TextGoesOn(p, after, k)
  BY <1>5, <1>6, <1>7, <1>8 DEF TextGoesOn
<1>10. (Len(q) = 1 /\ q[1].text = <<>>) => n[0] = k
  BY <1>1, <1>3, <1>4
<1> QED
  BY <1>1, <1>2, <1>9, <1>10 DEF p, after

(***************************************************************************)
(* A registration.                                                         *)
(***************************************************************************)
LEMMA IntervalSize ==
    ASSUME NEW n \in Nat
    PROVE  IsFiniteSet(1..n) /\ Cardinality(1..n) = n
<1>1. /\ IsFiniteSet(1..n)
      /\ Cardinality(1..n) = IF 1 > n THEN 0 ELSE n - 1 + 1
  BY FS_Interval
<1> QED
  BY <1>1

\* It adds the turn, and drops none but turns that have ended, and those wholly.
LEMMA RegisterKeeps ==
    ASSUME TypeOK, RegistryListsStartedTurns, NEW t \in Turns, stored[t].status = "none",
           NEW view \in Views, Register(t, view)
    PROVE  /\ Registered(t)' /\ live'[t] = view
           /\ \A i, j \in DOMAIN registry' : registry'[i] = registry'[j] => i = j
           /\ \A i \in DOMAIN registry' :
                 registry'[i] = t \/ \E j \in DOMAIN registry : registry'[i] = registry[j]
           /\ \A u \in Turns \ {t} :
                 /\ (Registered(u) /\ live[u].terminal = "none") =>
                       Registered(u)' /\ live'[u] = live[u]
                 /\ Registered(u)' => Registered(u) /\ live'[u] = live[u]
<1> DEFINE r == Append(registry, t)
           k == Cardinality(Evicted(r))
           n == Len(registry)
<1>1. /\ r \in Seq(Turns) /\ n \in Nat /\ Len(r) = n + 1 /\ r[n + 1] = t
      /\ DOMAIN registry = 1..n /\ DOMAIN r = 1..(n + 1)
      /\ \A i \in 1..n : r[i] = registry[i]
  BY DEF TypeOK
<1>2. t \notin {registry[i] : i \in DOMAIN registry}
  BY DEF RegistryListsStartedTurns
<1>3. \A i, j \in 1..(n + 1) : r[i] = r[j] => i = j
  BY <1>1, <1>2 DEF RegistryListsStartedTurns
<1>4. live' = [u \in Turns |-> IF u = t THEN view
                               ELSE IF \E i \in Evicted(r) : r[i] = u THEN Blank
                               ELSE live[u]]
  BY DEF Register
<1>5. registry' = SubSeq(r, k + 1, n + 1)
  BY <1>1 DEF Register
<1> HIDE DEF r
<1>6. /\ Evicted(r) \subseteq 1..n
      /\ \A i \in Evicted(r) : live[r[i]].terminal # "none" /\ 1..i \subseteq Evicted(r)
  BY <1>1, TurnRegistryAssumption DEF Evicted
<1>7. k \in Nat /\ IsFiniteSet(Evicted(r)) /\ k <= n
  <2>1. IsFiniteSet(1..n) /\ Cardinality(1..n) = n
    BY <1>1, IntervalSize
  <2> QED
    BY <1>6, <2>1, FS_Subset, FS_CardinalityType
<1>8. ASSUME NEW i \in Evicted(r) PROVE i <= k
  <2>1. i \in Nat /\ 1..i \subseteq Evicted(r) /\ Cardinality(1..i) = i
    BY <1>1, <1>6, IntervalSize
  <2> QED
    BY <1>7, <2>1, FS_Subset
<1>9. ASSUME NEW i \in 1..(n + 1), i \notin Evicted(r) PROVE k < i
  <2>1. \A j \in Evicted(r) : j \in 1..n /\ (i <= j => i \in 1..j)
    BY <1>6
  <2>2. Evicted(r) \subseteq 1..(i - 1)
    BY <1>6, <1>9, <2>1
  <2>3. IsFiniteSet(1..(i - 1)) /\ Cardinality(1..(i - 1)) = i - 1
    BY <1>1, <1>9, IntervalSize
  <2>4. k <= i - 1
    BY <2>2, <2>3, FS_Subset
  <2> QED
    BY <1>7, <2>4
<1> HIDE DEF k
<1>10. /\ registry' \in Seq(Turns) /\ DOMAIN registry' = 1..(n + 1 - k)
       /\ \A i \in 1..(n + 1 - k) : registry'[i] = r[k + i]
  BY <1>1, <1>5, <1>7
<1>11. \A i \in 1..(n + 1) :
           i \notin Evicted(r) => i - k \in DOMAIN registry' /\ registry'[i - k] = r[i]
  BY <1>7, <1>9, <1>10
<1>12. \A i \in DOMAIN registry' :
           k + i \in 1..(n + 1) /\ k + i \notin Evicted(r) /\ registry'[i] = r[k + i]
  BY <1>7, <1>8, <1>10
<1>13. Registered(t)' /\ live'[t] = view
  <2>1. n + 1 \in 1..(n + 1) /\ n + 1 \notin Evicted(r)
    BY <1>1, <1>6
  <2>2. (n + 1) - k \in DOMAIN registry' /\ registry'[(n + 1) - k] = t
    BY <1>1, <1>11, <2>1
  <2> QED
    BY <1>4, <2>2 DEF Registered
<1>14. \A i, j \in DOMAIN registry' : registry'[i] = registry'[j] => i = j
  <2> SUFFICES ASSUME NEW i \in DOMAIN registry', NEW j \in DOMAIN registry',
                      registry'[i] = registry'[j]
               PROVE  i = j
    OBVIOUS
  <2>1. k + i = k + j
    BY <1>3, <1>12
  <2> QED
    BY <1>7, <1>10, <2>1
<1>15. \A i \in DOMAIN registry' :
           registry'[i] = t \/ \E j \in DOMAIN registry : registry'[i] = registry[j]
  BY <1>1, <1>12
<1>16. ASSUME NEW u \in Turns \ {t}, Registered(u), live[u].terminal = "none"
       PROVE  Registered(u)' /\ live'[u] = live[u]
  <2>1. PICK i \in 1..n : r[i] = u
    BY <1>1, <1>16 DEF Registered
  <2>2. \A j \in Evicted(r) : r[j] # u
    BY <1>6, <1>16
  <2>3. i \in 1..(n + 1) /\ i \notin Evicted(r)
    BY <1>1, <2>1, <2>2
  <2>4. Registered(u)'
    BY <1>11, <2>1, <2>3 DEF Registered
  <2> QED
    BY <1>4, <2>2, <2>4
<1>17. ASSUME NEW u \in Turns \ {t}, Registered(u)'
       PROVE  Registered(u) /\ live'[u] = live[u]
  <2>1. PICK i \in DOMAIN registry' : registry'[i] = u
    BY <1>17 DEF Registered
  <2>2. k + i \in 1..(n + 1) /\ k + i \notin Evicted(r) /\ r[k + i] = u
    BY <1>12, <2>1
  <2>3. \A j \in Evicted(r) : r[j] # u
    BY <1>1, <1>3, <1>6, <2>2
  <2>4. Registered(u)
    BY <1>1, <2>2 DEF Registered
  <2> QED
    BY <1>4, <2>3, <2>4
<1> QED
  BY <1>13, <1>14, <1>15, <1>16, <1>17

(***************************************************************************)
(* FlowInv and AnswerIsWhatWasStreamed, action by action.                  *)
(***************************************************************************)
Flow == FlowInv /\ AnswerIsWhatWasStreamed

LEMMA FlowParts ==
    ASSUME Flow
    PROVE  /\ RegistryListsStartedTurns /\ ConsumersFollowTheirTurns
           /\ BridgesSpeakInTime /\ OutcomesAreShown /\ AnswerIsWhatWasStreamed
BY DEF Flow, FlowInv

LEMMA FlowFromParts ==
    ASSUME RegistryListsStartedTurns', ConsumersFollowTheirTurns', BridgesSpeakInTime',
           OutcomesAreShown', AnswerIsWhatWasStreamed'
    PROVE  Flow'
BY DEF Flow, FlowInv

\* What a write that raises costs.
LEMMA RaisedCosts ==
    ASSUME NEW from, NEW to, NEW w \in Written(from, to)
    PROVE  /\ w.status \in {from, to}
           /\ w.raised => w.cost = 1
           /\ ~w.raised => w.status = to /\ w.cost = 0
           /\ w.raised \in BOOLEAN
<1>1. CASE w = [status |-> to, raised |-> FALSE, cost |-> 0]
  BY <1>1
<1>2. CASE w = [status |-> from, raised |-> TRUE, cost |-> 1]
  BY <1>2
<1>3. CASE w = [status |-> to, raised |-> TRUE, cost |-> 1]
  BY <1>3
<1> QED
  BY <1>1, <1>2, <1>3 DEF Written

LEMMA RescuedCosts ==
    ASSUME NEW status, NEW cost \in Nat, NEW e \in Rescued(status, cost)
    PROVE  e.cost \in Nat /\ e.cost >= cost
<1>1. CASE e = Ending(status, "none", "raised", cost + 1)
  BY <1>1 DEF Ending
<1>2. CASE e = Ending(status, "none", "done", cost)
  BY <1>2 DEF Ending
<1>3. ASSUME NEW w \in Finish(status, "failed"), NEW told, NEW end,
             e = Ending(w.status, told, end, cost + w.cost)
      PROVE  e.cost \in Nat /\ e.cost >= cost
  <2>1. w.cost \in {0, 1}
    BY RaisedCosts DEF Finish
  <2>2. e.cost = cost + w.cost
    BY <1>3 DEF Ending
  <2> QED
    BY <2>1, <2>2
<1> QED
  BY <1>1, <1>2, <1>3 DEF Rescued

LEMMA CommitFailedCosts ==
    ASSUME NEW status, NEW cost \in Nat, NEW e \in CommitFailed(status, cost)
    PROVE  e.cost \in Nat /\ e.cost >= cost
<1>1. PICK w \in Finish(status, "failed") :
          e \in IF w.raised THEN Rescued(w.status, cost + w.cost)
                ELSE {Ending(w.status, "failed", "done", cost)}
  BY DEF CommitFailed
<1>2. w.cost \in {0, 1} /\ w.raised \in BOOLEAN
  BY <1>1, RaisedCosts DEF Finish
<1>3. CASE w.raised
  <2>1. cost + w.cost \in Nat /\ cost + w.cost >= cost
    BY <1>2
  <2>2. e.cost \in Nat /\ e.cost >= cost + w.cost
    BY <1>1, <1>3, <2>1, RescuedCosts
  <2> QED
    BY <1>2, <2>1, <2>2
<1>4. CASE ~w.raised
  BY <1>1, <1>4 DEF Ending
<1> QED
  BY <1>2, <1>3, <1>4

\* Only a call of the store that raised keeps the outcome of the adapter from the row or
\* from the browsers.
LEMMA EndingsCost ==
    ASSUME NEW outcome \in Outcomes, NEW e \in Endings("running", outcome), e.cost = 0
    PROVE  e.told = outcome /\ e.status = outcome
<1>1. "running" \notin Final
  BY DEF Final, Outcomes
<1>2. CASE outcome = "completed"
  <2>1. PICK w \in Complete("running") :
            e \in IF w.raised THEN CommitFailed(w.status, w.cost)
                  ELSE {Ending(w.status, outcome, "done", 0)}
    BY <1>2 DEF Endings
  <2>2. /\ w.raised \in BOOLEAN /\ (w.raised => w.cost = 1)
        /\ ~w.raised => w.status = "completed"
    BY <2>1, RaisedCosts DEF Complete
  <2>3. CASE w.raised
    <3>1. e \in CommitFailed(w.status, 1)
      BY <2>1, <2>2, <2>3
    <3>2. e.cost \in Nat /\ e.cost >= 1
      BY <3>1, CommitFailedCosts
    <3> QED
      BY <3>2
  <2>4. CASE ~w.raised
    BY <1>2, <2>1, <2>2, <2>4 DEF Ending
  <2> QED
    BY <2>2, <2>3, <2>4
<1>3. CASE outcome # "completed"
  <2>1. PICK w \in Finish("running", outcome) :
            e \in IF w.raised THEN Rescued(w.status, w.cost)
                  ELSE {Ending(w.status, outcome, "done", 0)}
    BY <1>3 DEF Endings
  <2>2. /\ w.raised \in BOOLEAN /\ (w.raised => w.cost = 1)
        /\ ~w.raised => w.status = outcome
    BY <1>1, <2>1, RaisedCosts DEF Finish
  <2>3. CASE w.raised
    <3>1. e \in Rescued(w.status, 1)
      BY <2>1, <2>2, <2>3
    <3>2. e.cost \in Nat /\ e.cost >= 1
      BY <3>1, RescuedCosts
    <3> QED
      BY <3>2
  <2>4. CASE ~w.raised
    BY <2>1, <2>2, <2>4 DEF Ending
  <2> QED
    BY <2>2, <2>3, <2>4
<1> QED
  BY <1>2, <1>3

\* Whatever happens, the row is left running or with an outcome.
LEMMA EndingsRun ==
    ASSUME NEW outcome \in Outcomes, NEW e \in Endings("running", outcome)
    PROVE  e.status \in {"running"} \cup Final
<1>1. ASSUME NEW status \in {"running"} \cup Final, NEW cost, NEW x \in Rescued(status, cost)
      PROVE  x.status \in {"running"} \cup Final
  <2>1. ASSUME NEW w \in Finish(status, "failed"), NEW told, NEW end,
               x = Ending(w.status, told, end, cost + w.cost)
        PROVE  x.status \in {"running"} \cup Final
    BY <2>1, RaisedCosts DEF Finish, Ending, Final, Outcomes
  <2> QED
    BY <1>1, <2>1 DEF Rescued, Ending
<1>2. ASSUME NEW status \in {"running"} \cup Final, NEW cost,
             NEW x \in CommitFailed(status, cost)
      PROVE  x.status \in {"running"} \cup Final
  <2>1. PICK w \in Finish(status, "failed") :
            x \in IF w.raised THEN Rescued(w.status, cost + w.cost)
                  ELSE {Ending(w.status, "failed", "done", cost)}
    BY <1>2 DEF CommitFailed
  <2>2. w.status \in {"running"} \cup Final
    BY <1>2, <2>1, RaisedCosts DEF Finish, Final, Outcomes
  <2>3. CASE w.raised
    BY <1>1, <2>1, <2>2, <2>3
  <2>4. CASE ~w.raised
    BY <2>1, <2>2, <2>4 DEF Ending
  <2> QED
    BY <2>1, <2>3, <2>4
<1>3. "running" \notin Final /\ outcome \in Final /\ "completed" \in Final
  BY DEF Final, Outcomes
<1>4. CASE outcome = "completed"
  <2>1. PICK w \in Complete("running") :
            e \in IF w.raised THEN CommitFailed(w.status, w.cost)
                  ELSE {Ending(w.status, outcome, "done", 0)}
    BY <1>4 DEF Endings
  <2>2. w.status \in {"running"} \cup Final
    BY <1>3, <2>1, RaisedCosts DEF Complete
  <2>3. CASE w.raised
    BY <1>2, <2>1, <2>2, <2>3
  <2>4. CASE ~w.raised
    BY <1>3, <2>1, <2>2, <2>4 DEF Ending
  <2> QED
    BY <2>1, <2>3, <2>4
<1>5. CASE outcome # "completed"
  <2>1. PICK w \in Finish("running", outcome) :
            e \in IF w.raised THEN Rescued(w.status, w.cost)
                  ELSE {Ending(w.status, outcome, "done", 0)}
    BY <1>5 DEF Endings
  <2>2. w.status \in {"running"} \cup Final
    BY <1>3, <2>1, RaisedCosts DEF Finish
  <2>3. CASE w.raised
    BY <1>1, <2>1, <2>2, <2>3
  <2>4. CASE ~w.raised
    BY <1>3, <2>1, <2>2, <2>4 DEF Ending
  <2> QED
    BY <2>1, <2>3, <2>4
<1> QED
  BY <1>4, <1>5

\* The view of a turn that has just been registered, and its task.
LEMMA FreshTurn ==
    QueueGoesOn(Started, Blank) /\ TextGoesOn(Started.queue, Blank.text, 0)
<1>1. /\ Started.queue = <<>> /\ Started.seq = 0 /\ Started.terminal = "none"
      /\ Blank.seq = 0 /\ Blank.text = <<>>
  BY DEF Started, NoTask, Blank
<1>2. QueueGoesOn(Started, Blank)
  BY <1>1 DEF QueueGoesOn
<1> DEFINE n == [i \in 0..0 |-> 0]
<1>3. n \in [0..Len(<<>>) -> 0..0] /\ n[0] = 0 /\ n[Len(<<>>)] = 0
  OBVIOUS
<1>4. <<>> = [i \in 1..n[0] |-> i]
  BY <1>3
<1> HIDE DEF n
<1>5. TextGoesOn(<<>>, <<>>, 0)
  BY <1>3, <1>4 DEF TextGoesOn
<1> QED
  BY <1>1, <1>2, <1>5

\* What a start does, whichever way it ends.
LEMMA StartEffect ==
    ASSUME TypeOK, LifeInv, Flow, NEW t \in Turns, NEW c \in Conversations,
           Start(t, c) \/ StartRaises(t, c) \/ StartRefused(t, c)
    PROVE  /\ mode = "up" /\ mode' = "up" /\ UNCHANGED <<spoken, request>>
           /\ stored[t].status = "none" /\ stored'[t].answer = <<>>
           /\ stored'[t].status \in {"running", "failed"}
           /\ \A u \in Turns \ {t} :
                 /\ stored'[u] = stored[u] /\ task'[u] = task[u]
                 /\ consumer'[u] = consumer[u] /\ failures'[u] = failures[u]
                 /\ (Registered(u) /\ live[u].terminal = "none") =>
                       Registered(u)' /\ live'[u] = live[u]
                 /\ Registered(u)' => Registered(u) /\ live'[u] = live[u]
           /\ \A i, j \in DOMAIN registry' : registry'[i] = registry'[j] => i = j
           /\ \A i \in DOMAIN registry' :
                 registry'[i] = t \/ \E j \in DOMAIN registry : registry'[i] = registry[j]
           /\ \/ /\ consumer'[t] = "get" /\ stored'[t].status = "running"
                 /\ Registered(t)' /\ live'[t] = Blank /\ task'[t] = Started
              \/ /\ consumer'[t] # "get" /\ ~Active(t) /\ task'[t] = task[t]
                 /\ \/ failures'[t] # 0
                    \/ stored'[t].status = "failed" /\ live'[t].terminal = "failed"
<1>1. /\ mode = "up" /\ mode' = "up" /\ UNCHANGED <<spoken, request>>
      /\ MayCreate(t, c) /\ stored[t].status = "none"
  BY DEF Start, StartRaises, StartRefused, MayCreate, hermesVars, coordinatorVars
<1>2. consumer[t] # "get" /\ ~Active(t)
  BY <1>1, NewTurnIsIdle
<1>3. /\ Created(c).status = "running" /\ Created(c).answer = <<>>
      /\ Blank \in Views /\ failures[t] \in Nat
  BY DEF Created, Blank, Views, TypeOK
<1>4. RegistryListsStartedTurns
  BY FlowParts
<1>5. CASE Start(t, c)
  <2>1. Register(t, Blank)
    BY <1>5 DEF Start
  <2>2. /\ stored' = [stored EXCEPT ![t] = Created(c)]
        /\ task' = [task EXCEPT ![t] = Started]
        /\ consumer' = [consumer EXCEPT ![t] = "get"]
        /\ UNCHANGED failures
    BY <1>5 DEF Start
  <2>3. /\ stored'[t] = Created(c) /\ task'[t] = Started /\ consumer'[t] = "get"
        /\ \A u \in Turns \ {t} :
              /\ stored'[u] = stored[u] /\ task'[u] = task[u]
              /\ consumer'[u] = consumer[u] /\ failures'[u] = failures[u]
    BY <2>2 DEF TypeOK
  <2> QED
    BY <1>1, <1>3, <1>4, <2>1, <2>3, RegisterKeeps
<1>6. CASE StartRaises(t, c)
  <2>1. /\ stored' = [stored EXCEPT ![t] = Created(c)]
        /\ UNCHANGED <<registry, live, task, consumer>>
        /\ failures' = [failures EXCEPT ![t] = @ + 1]
    BY <1>6 DEF StartRaises, Charge, registryVars, hermesVars, coordinatorVars
  <2>2. /\ stored'[t] = Created(c) /\ failures'[t] # 0
        /\ \A u \in Turns \ {t} : stored'[u] = stored[u] /\ failures'[u] = failures[u]
    BY <1>3, <2>1 DEF TypeOK
  <2>3. \A u \in Turns : Registered(u)' <=> Registered(u)
    BY <2>1 DEF Registered
  <2> QED
    BY <1>1, <1>2, <1>3, <1>4, <2>1, <2>2, <2>3 DEF RegistryListsStartedTurns
<1>7. CASE StartRefused(t, c)
  <2>1. PICK w \in Finish("running", "failed") :
          /\ Charge(t, w.cost)
          /\ stored' = [stored EXCEPT ![t] = [Created(c) EXCEPT !.status = w.status]]
          /\ Register(t, IF w.raised THEN Blank
                         ELSE [Blank EXCEPT !.seq = 1, !.terminal = "failed"])
    BY <1>7 DEF StartRefused
  <2> DEFINE told == [Blank EXCEPT !.seq = 1, !.terminal = "failed"]
             row == [Created(c) EXCEPT !.status = w.status]
             view == IF w.raised THEN Blank ELSE told
  <2>2. /\ w.status \in {"running", "failed"} /\ (w.raised => w.cost = 1)
        /\ ~w.raised => w.status = "failed" /\ w.cost = 0
        /\ w.raised \in BOOLEAN
    BY <2>1, RaisedCosts DEF Finish, Final, Outcomes
  <2>3. told \in Views /\ told.terminal = "failed" /\ row.status = w.status /\ row.answer = <<>>
    BY <1>3 DEF Blank, Views, Created, Outcomes
  <2>4. view \in Views /\ (~w.raised => view.terminal = "failed")
    BY <1>3, <2>2, <2>3
  <2>5. Register(t, view) /\ stored' = [stored EXCEPT ![t] = row]
    BY <2>1
  <2>6. UNCHANGED <<task, consumer>>
    BY <1>7 DEF StartRefused, hermesVars, coordinatorVars
  <2> HIDE DEF told, view, row
  <2>7. /\ stored'[t] = row
        /\ \A u \in Turns \ {t} : stored'[u] = stored[u]
    BY <2>5 DEF TypeOK
  <2>8. /\ \A u \in Turns \ {t} : failures'[u] = failures[u]
        /\ w.raised => failures'[t] # 0
    <3>1. failures' = [failures EXCEPT ![t] = failures[t] + w.cost]
      BY <2>1 DEF Charge, TypeOK
    <3> QED
      BY <1>3, <2>2, <3>1 DEF TypeOK
  <2>9. live'[t] = view
    BY <1>1, <1>4, <2>4, <2>5, RegisterKeeps
  <2> QED
    BY <1>1, <1>2, <1>4, <2>2, <2>3, <2>4, <2>5, <2>6, <2>7, <2>8, <2>9, RegisterKeeps
<1> QED
  BY <1>5, <1>6, <1>7

LEMMA StartFlow ==
    ASSUME TypeOK, LifeInv, Flow, NEW t \in Turns, NEW c \in Conversations,
           Start(t, c) \/ StartRaises(t, c) \/ StartRefused(t, c)
    PROVE  Flow'
<1>1. /\ mode = "up" /\ mode' = "up" /\ UNCHANGED <<spoken, request>>
      /\ stored[t].status = "none" /\ stored'[t].answer = <<>>
      /\ stored'[t].status \in {"running", "failed"}
  BY StartEffect
<1>2. \A u \in Turns \ {t} :
          /\ stored'[u] = stored[u] /\ task'[u] = task[u]
          /\ consumer'[u] = consumer[u] /\ failures'[u] = failures[u]
          /\ (Registered(u) /\ live[u].terminal = "none") =>
                Registered(u)' /\ live'[u] = live[u]
          /\ Registered(u)' => Registered(u) /\ live'[u] = live[u]
  BY StartEffect
<1>3. /\ \A i, j \in DOMAIN registry' : registry'[i] = registry'[j] => i = j
      /\ \A i \in DOMAIN registry' :
            registry'[i] = t \/ \E j \in DOMAIN registry : registry'[i] = registry[j]
  BY StartEffect
<1>4. \/ /\ consumer'[t] = "get" /\ stored'[t].status = "running"
         /\ Registered(t)' /\ live'[t] = Blank /\ task'[t] = Started
      \/ /\ consumer'[t] # "get" /\ ~Active(t) /\ task'[t] = task[t]
         /\ \/ failures'[t] # 0
            \/ stored'[t].status = "failed" /\ live'[t].terminal = "failed"
  BY StartEffect
<1>5. spoken[t] = 0
  BY <1>1, FlowParts DEF BridgesSpeakInTime
<1>6. RegistryListsStartedTurns'
  <2> SUFFICES ASSUME NEW i \in DOMAIN registry' PROVE stored'[registry'[i]].status # "none"
    BY <1>1, <1>3 DEF RegistryListsStartedTurns
  <2>1. CASE registry'[i] = t
    BY <1>1, <2>1
  <2>2. ASSUME NEW j \in DOMAIN registry, registry'[i] = registry[j]
        PROVE  stored'[registry'[i]].status # "none"
    <3>1. registry[j] \in Turns
      BY DEF TypeOK
    <3>2. stored[registry[j]].status # "none" /\ registry[j] # t
      BY <1>1, FlowParts DEF RegistryListsStartedTurns
    <3> QED
      BY <1>2, <2>2, <3>1, <3>2
  <2> QED
    BY <1>3, <2>1, <2>2
<1>7. ConsumersFollowTheirTurns'
  <2> SUFFICES ASSUME NEW u \in Turns, consumer'[u] = "get"
               PROVE  /\ Registered(u)' /\ live'[u].terminal = "none"
                      /\ QueueGoesOn(task'[u], live'[u])
                      /\ TextGoesOn(task'[u].queue, live'[u].text, spoken'[u])
    BY DEF ConsumersFollowTheirTurns, Owned
  <2>1. CASE u = t
    <3>1. Blank.terminal = "none"
      BY DEF Blank
    <3> QED
      BY <1>1, <1>4, <1>5, <2>1, <3>1, FreshTurn
  <2>2. CASE u # t
    <3>1. /\ Registered(u) /\ live[u].terminal = "none"
          /\ QueueGoesOn(task[u], live[u])
          /\ TextGoesOn(task[u].queue, live[u].text, spoken[u])
      BY <1>2, <2>2, FlowParts DEF ConsumersFollowTheirTurns, Owned
    <3> QED
      BY <1>1, <1>2, <2>2, <3>1
  <2> QED
    BY <2>1, <2>2
<1>8. BridgesSpeakInTime'
  BY <1>1, <1>2, <1>4, FlowParts DEF BridgesSpeakInTime, Active
<1>9. OutcomesAreShown'
  <2>1. \A c1 \in Clients :
            request[c1].at # "idle" => request[c1].turn \in Turns /\ request[c1].turn # t
    BY <1>1, FlowParts DEF TypeOK, Requests, NoRequest, OutcomesAreShown
  <2>2. \A c1 \in Clients :
            request'[c1].at # "idle" => stored'[request'[c1].turn].status # "none"
    BY <1>1, <1>2, <2>1, FlowParts DEF OutcomesAreShown
  <2>3. ASSUME NEW u \in Turns, failures'[u] = 0
        PROVE  /\ stored'[u].status = "running" => consumer'[u] = "get"
               /\ (stored'[u].status \in Final /\ Registered(u)') =>
                     live'[u].terminal = stored'[u].status
    <3>1. CASE u = t
      BY <1>4, <2>3, <3>1 DEF Final, Outcomes
    <3>2. CASE u # t
      BY <1>1, <1>2, <2>3, <3>2, FlowParts DEF OutcomesAreShown
    <3> QED
      BY <3>1, <3>2
  <2> QED
    BY <2>2, <2>3 DEF OutcomesAreShown
<1>10. AnswerIsWhatWasStreamed'
  BY <1>1, <1>2, FlowParts DEF AnswerIsWhatWasStreamed
<1> QED
  BY <1>6, <1>7, <1>8, <1>9, <1>10, FlowFromParts

LEMMA ConsumeFlow ==
    ASSUME TypeOK, LifeInv, Flow, TypeOK', NEW t \in Turns,
           ConsumeProgress(t) \/ ConsumeOutcome(t)
    PROVE  Flow'
<1> DEFINE q == task[t].queue
<1>1. /\ mode = "up" /\ mode' = "up" /\ UNCHANGED <<spoken, request, registry>>
      /\ consumer[t] = "get" /\ stored[t].status = "running" /\ q # <<>>
  BY LifeParts DEF ConsumeProgress, ConsumeOutcome, Consuming, ConsumersOwnRunningTurns,
                   PublishProgress, PublishOutcome, registryVars, coordinatorVars
<1>2. task[t] \in Tasks /\ q \in Seq(Events) /\ live[t] \in Views /\ spoken[t] \in Nat
  BY DEF TypeOK, Tasks
<1>3. /\ task'[t].queue = Tail(q) /\ task'[t].at = task[t].at
      /\ task'[t].seq = task[t].seq /\ task'[t].terminal = task[t].terminal
      /\ \A u \in Turns \ {t} : task'[u] = task[u]
  BY <1>2 DEF ConsumeProgress, ConsumeOutcome, TypeOK, Tasks
<1>4. /\ Registered(t) /\ live[t].terminal = "none"
      /\ QueueGoesOn(task[t], live[t]) /\ TextGoesOn(q, live[t].text, spoken[t])
  BY <1>1, FlowParts DEF ConsumersFollowTheirTurns, Owned
<1>5. \A u \in Turns : (Registered(u)' <=> Registered(u)) /\ (Active(u)' <=> Active(u))
  BY <1>1, <1>3 DEF Registered, Active
<1>6. CASE ConsumeProgress(t)
  <2>1. UNCHANGED <<stored, consumer, failures>>
    BY <1>6 DEF ConsumeProgress, storeVars, coordinatorVars
  <2>2. /\ live'[t].seq = live[t].seq + 1 /\ live'[t].terminal = live[t].terminal
        /\ live'[t].text = live[t].text \o Head(q).text
        /\ \A u \in Turns \ {t} : live'[u] = live[u]
    <3> DEFINE text == live[t].text \o Head(q).text
    <3>1. live' = [live EXCEPT ![t] = [live[t] EXCEPT !.seq = @ + 1, !.text = text]]
      BY <1>2, <1>6 DEF ConsumeProgress, PublishProgress, Event, TypeOK, Views
    <3> HIDE DEF text
    <3>2. live'[t].text = text
      BY <1>2, <3>1 DEF TypeOK, Views
    <3>3. /\ live'[t].seq = live[t].seq + 1 /\ live'[t].terminal = live[t].terminal
          /\ \A u \in Turns \ {t} : live'[u] = live[u]
      BY <1>2, <3>1 DEF TypeOK, Views
    <3> QED
      BY <3>2, <3>3 DEF text
  <2>3. QueueGoesOn(task'[t], live'[t])
    <3>1. task'[t] \in Tasks /\ live'[t] \in Views
      BY DEF TypeOK
    <3> QED
      BY <1>1, <1>2, <1>3, <1>4, <2>2, <3>1, QueueShrinks
  <2>4. TextGoesOn(task'[t].queue, live'[t].text, spoken'[t])
    BY <1>1, <1>2, <1>3, <1>4, <2>2, TextShrinks
  <2>5. RegistryListsStartedTurns'
    BY <1>1, <2>1, FlowParts DEF RegistryListsStartedTurns
  <2>6. ConsumersFollowTheirTurns'
    <3> SUFFICES ASSUME NEW u \in Turns, consumer'[u] = "get"
                 PROVE  /\ Registered(u)' /\ live'[u].terminal = "none"
                        /\ QueueGoesOn(task'[u], live'[u])
                        /\ TextGoesOn(task'[u].queue, live'[u].text, spoken'[u])
      BY DEF ConsumersFollowTheirTurns, Owned
    <3>1. CASE u = t
      BY <1>4, <1>5, <2>2, <2>3, <2>4, <3>1
    <3>2. CASE u # t
      BY <1>1, <1>3, <1>5, <2>1, <2>2, <3>2, FlowParts DEF ConsumersFollowTheirTurns, Owned
    <3> QED
      BY <3>1, <3>2
  <2>7. BridgesSpeakInTime' /\ AnswerIsWhatWasStreamed'
    BY <1>1, <1>5, <2>1, FlowParts DEF BridgesSpeakInTime, AnswerIsWhatWasStreamed
  <2>8. OutcomesAreShown'
    BY <1>1, <1>5, <2>1, <2>2, FlowParts DEF OutcomesAreShown
  <2> QED
    BY <2>5, <2>6, <2>7, <2>8, FlowFromParts
<1>7. CASE ConsumeOutcome(t)
  <2>1. PICK e \in Endings("running", Event(t).type) :
          /\ Charge(t, e.cost)
          /\ SetStatus(t, e.status)
          /\ consumer' = [consumer EXCEPT ![t] = e.end]
          /\ IF e.told = "none" THEN UNCHANGED registryVars ELSE PublishOutcome(t, e.told)
    BY <1>1, <1>7 DEF ConsumeOutcome
  <2>2. Event(t).type \in Outcomes /\ Event(t) = q[1] /\ 1 \in DOMAIN q
    BY <1>1, <1>2, <1>7 DEF ConsumeOutcome, Event
  <2>3. e.status \in Status /\ e.end \in {"done", "raised"} /\ e.cost \in Nat
    BY <2>1, <2>2, EndingsShape
  <2>4. /\ consumer'[t] # "get" /\ \A u \in Turns \ {t} : consumer'[u] = consumer[u]
        /\ \A u \in Turns \ {t} : stored'[u] = stored[u]
        /\ stored'[t].status = e.status
    BY <2>1, <2>3, SetStatusShape DEF TypeOK
  <2>5. ~Active(t)
    BY <2>2, LifeParts DEF TaskOK, Active
  <2>6. e.status # "none"
    <3>1. e.status \in {"running"} \cup Final
      BY <1>1, <2>1, <2>2, EndingsRun
    <3> QED
      BY <3>1 DEF Final, Outcomes
  <2>7. stored'[t].answer = IF e.status = "completed" THEN [i \in 1..spoken[t] |-> i] ELSE <<>>
    <3>1. live[t].text = [i \in 1..spoken[t] |-> i]
      <4>1. 1 = Len(q) /\ Head(q).text = <<>>
        <5>1. Head(q) = q[1]
          BY <1>1, <1>2
        <5> QED
          BY <1>4, <2>2, <5>1 DEF QueueGoesOn
      <4> QED
        BY <1>1, <1>2, <1>4, <4>1, TextShrinks
    <3>2. stored[t].answer = <<>>
      BY <1>1, FlowParts DEF AnswerIsWhatWasStreamed
    <3>3. stored'[t].answer = IF e.status = "completed" /\ stored[t].status = "running"
                              THEN live[t].text ELSE stored[t].answer
      BY <2>1 DEF SetStatus, TypeOK, Rows
    <3> QED
      BY <1>1, <3>1, <3>2, <3>3
  <2>8. /\ \A u \in Turns \ {t} : live'[u] = live[u] /\ failures'[u] = failures[u]
        /\ failures'[t] = failures[t] + e.cost
        /\ e.told # "none" => live'[t].terminal = e.told
    <3>1. failures[t] \in Nat
      BY DEF TypeOK
    <3>2. /\ \A u \in Turns \ {t} : failures'[u] = failures[u]
          /\ failures'[t] = failures[t] + e.cost
      BY <2>1 DEF Charge, TypeOK
    <3>3. /\ \A u \in Turns \ {t} : live'[u] = live[u]
          /\ e.told # "none" => live'[t].terminal = e.told
      BY <1>2, <2>1 DEF registryVars, PublishOutcome, TypeOK, Views
    <3> QED
      BY <3>2, <3>3
  <2>9. RegistryListsStartedTurns'
    <3>1. \A i \in DOMAIN registry : registry[i] \in Turns
      BY DEF TypeOK
    <3> QED
      BY <1>1, <2>4, <2>6, <3>1, FlowParts DEF RegistryListsStartedTurns
  <2>10. ConsumersFollowTheirTurns'
    BY <1>1, <1>3, <1>5, <2>4, <2>8, FlowParts DEF ConsumersFollowTheirTurns, Owned
  <2>11. BridgesSpeakInTime'
    BY <1>1, <1>5, <2>4, <2>5, <2>6, FlowParts DEF BridgesSpeakInTime
  <2>12. AnswerIsWhatWasStreamed'
    BY <1>1, <2>4, <2>7, FlowParts DEF AnswerIsWhatWasStreamed
  <2>13. OutcomesAreShown'
    <3>1. \A c \in Clients : request[c].at # "idle" => request[c].turn \in Turns
      BY DEF TypeOK, Requests, NoRequest
    <3>2. \A c \in Clients :
              request'[c].at # "idle" => stored'[request'[c].turn].status # "none"
      BY <1>1, <2>4, <2>6, <3>1, FlowParts DEF OutcomesAreShown
    <3>3. ASSUME failures'[t] = 0
          PROVE  /\ stored'[t].status = "running" => consumer'[t] = "get"
                 /\ (stored'[t].status \in Final /\ Registered(t)') =>
                       live'[t].terminal = stored'[t].status
      <4>1. e.cost = 0
        <5>1. failures[t] \in Nat
          BY DEF TypeOK
        <5> QED
          BY <2>3, <2>8, <3>3, <5>1
      <4>2. e.told = Event(t).type /\ e.status = Event(t).type
        BY <2>1, <2>2, <4>1, EndingsCost
      <4> QED
        BY <2>2, <2>4, <2>8, <4>2 DEF Outcomes
    <3>4. \A u \in Turns \ {t} : failures'[u] = 0 =>
              /\ stored'[u].status = "running" => consumer'[u] = "get"
              /\ (stored'[u].status \in Final /\ Registered(u)') =>
                    live'[u].terminal = stored'[u].status
      BY <1>1, <1>5, <2>4, <2>8, FlowParts DEF OutcomesAreShown
    <3> QED
      BY <3>2, <3>3, <3>4 DEF OutcomesAreShown
  <2> QED
    BY <2>9, <2>10, <2>11, <2>12, <2>13, FlowFromParts
<1> QED
  BY <1>6, <1>7

LEMMA RuntimeFlow ==
    ASSUME TypeOK, LifeInv, Flow, TypeOK', NEW t \in Turns, RuntimeStep(t)
    PROVE  Flow'
<1>1. UNCHANGED <<stored, failures, registry, live, consumer, mode, request>>
  BY DEF RuntimeStep, storeVars, registryVars, coordinatorVars
<1>2. /\ Busy(task[t])
      /\ task' = [task EXCEPT ![t] = task'[t]]
      /\ spoken' = [spoken EXCEPT ![t] = spoken'[t]]
      /\ \/ Silent(task[t], task'[t]) /\ spoken'[t] = spoken[t]
         \/ \E e \in Events :
               /\ Speaks(task[t], task'[t], e)
               /\ \/ e.text = <<>> /\ spoken'[t] = spoken[t]
                  \/ e.text = <<spoken'[t]>> /\ spoken'[t] = spoken[t] + 1
         \/ \E e \in Events : Ends(task[t], task'[t], e) /\ spoken'[t] = spoken[t]
  BY LifeParts, HermesShape DEF RuntimeStep
<1>3. \A u \in Turns \ {t} : task'[u] = task[u] /\ spoken'[u] = spoken[u]
  BY <1>2 DEF TypeOK
<1>4. /\ task[t] \in Tasks /\ task'[t] \in Tasks /\ live[t] \in Views
      /\ spoken[t] \in Nat /\ spoken'[t] \in Nat /\ task[t].queue \in Seq(Events)
  BY DEF TypeOK, Tasks
<1>5. Active(t) /\ \A u \in Turns : Active(u)' => Active(u)
  BY <1>2, <1>3 DEF Active, Busy
<1>6. \A u \in Turns : Registered(u)' <=> Registered(u)
  BY <1>1 DEF Registered
<1>7. ASSUME consumer[t] = "get"
      PROVE  /\ QueueGoesOn(task'[t], live[t])
             /\ TextGoesOn(task'[t].queue, live[t].text, spoken'[t])
  <2>1. QueueGoesOn(task[t], live[t]) /\ TextGoesOn(task[t].queue, live[t].text, spoken[t])
    BY <1>7, FlowParts DEF ConsumersFollowTheirTurns, Owned
  <2>2. QueueGoesOn(task'[t], live[t])
    BY <1>2, <1>4, <2>1, LifeParts, QueueGrows
  <2>3. TextGoesOn(task'[t].queue, live[t].text, spoken'[t])
    <3>1. CASE Silent(task[t], task'[t]) /\ spoken'[t] = spoken[t]
      BY <2>1, <3>1 DEF Silent
    <3>2. ASSUME NEW e \in Events, task'[t].queue = Append(task[t].queue, e),
                 \/ e.text = <<>> /\ spoken'[t] = spoken[t]
                 \/ e.text = <<spoken'[t]>> /\ spoken'[t] = spoken[t] + 1
          PROVE  TextGoesOn(task'[t].queue, live[t].text, spoken'[t])
      BY <1>4, <2>1, <3>2, TextGrows
    <3> QED
      BY <1>2, <3>1, <3>2 DEF Speaks, Ends
  <2> QED
    BY <2>2, <2>3
<1>8. stored[t].status \in {"running", "interrupted"}
  BY <1>5, FlowParts DEF BridgesSpeakInTime
<1>9. RegistryListsStartedTurns'
  BY <1>1, FlowParts DEF RegistryListsStartedTurns
<1>10. ConsumersFollowTheirTurns'
  BY <1>1, <1>3, <1>6, <1>7, FlowParts DEF ConsumersFollowTheirTurns, Owned
<1>11. BridgesSpeakInTime'
  BY <1>1, <1>3, <1>5, <1>8, FlowParts DEF BridgesSpeakInTime
<1>12. OutcomesAreShown'
  BY <1>1, <1>6, FlowParts DEF OutcomesAreShown
<1>13. AnswerIsWhatWasStreamed'
  BY <1>1, <1>3, <1>8, FlowParts DEF AnswerIsWhatWasStreamed
<1> QED
  BY <1>9, <1>10, <1>11, <1>12, <1>13, FlowFromParts

\* Without a process there is nothing to follow, provided that rows keep answers and are
\* still there.
LEMMA ProcessLostFlow ==
    ASSUME TypeOK, ProcessLost, AnswerIsWhatWasStreamed',
           \A t \in Turns : stored'[t].status = "none" => spoken[t] = 0
    PROVE  Flow'
<1>1. /\ mode' = "down" /\ registry' = <<>> /\ UNCHANGED spoken
      /\ \A t \in Turns : task'[t] = NoTask /\ consumer'[t] = "none"
      /\ \A c \in Clients : request'[c] = NoRequest
  BY DEF ProcessLost, RegistryLost
<1>2. NoTask.at = "idle" /\ NoRequest.at = "idle"
  BY DEF NoTask, NoRequest
<1>3. RegistryListsStartedTurns'
  BY <1>1 DEF RegistryListsStartedTurns
<1>4. ConsumersFollowTheirTurns'
  BY <1>1 DEF ConsumersFollowTheirTurns, Owned
<1>5. BridgesSpeakInTime'
  BY <1>1, <1>2 DEF BridgesSpeakInTime, Active
<1>6. OutcomesAreShown'
  BY <1>1, <1>2 DEF OutcomesAreShown
<1> QED
  BY <1>3, <1>4, <1>5, <1>6, FlowFromParts

LEMMA CrashFlow ==
    ASSUME TypeOK, LifeInv, Flow, NEW t \in Turns, CrashAfterCommit(t)
    PROVE  Flow'
<1> DEFINE q == task[t].queue
<1>1. /\ consumer[t] = "get" /\ stored[t].status = "running" /\ q # <<>>
      /\ Event(t).type \in Outcomes
  BY LifeParts DEF CrashAfterCommit, Consuming, ConsumersOwnRunningTurns
<1>2. PICK w \in IF Event(t).type = "completed" THEN Complete("running")
                 ELSE Finish("running", Event(t).type) : SetStatus(t, w.status)
  BY <1>1 DEF CrashAfterCommit
<1>3. w.status \in Status /\ w.status # "none"
  <2>1. "running" \notin Final
    BY DEF Final, Outcomes
  <2>2. w.status \in {"running"} \cup Outcomes
    BY <1>1, <1>2, <2>1, RaisedCosts DEF Complete, Finish, Outcomes
  <2> QED
    BY <2>2 DEF Status, Final, Outcomes
<1>4. /\ stored'[t].status = w.status
      /\ \A u \in Turns \ {t} : stored'[u] = stored[u]
  BY <1>2, <1>3, SetStatusShape
<1>5. q \in Seq(Events) /\ spoken[t] \in Nat
  BY DEF TypeOK, Tasks
<1>6. QueueGoesOn(task[t], live[t]) /\ TextGoesOn(q, live[t].text, spoken[t])
  BY <1>1, FlowParts DEF ConsumersFollowTheirTurns, Owned
<1>7. live[t].text = [i \in 1..spoken[t] |-> i]
  <2>1. Event(t) = q[1] /\ Head(q) = q[1] /\ 1 \in DOMAIN q
    BY <1>1, <1>5 DEF Event
  <2>2. 1 = Len(q) /\ Head(q).text = <<>>
    BY <1>1, <1>6, <2>1 DEF QueueGoesOn
  <2> QED
    BY <1>1, <1>5, <1>6, <2>2, TextShrinks
<1>8. stored'[t].answer = IF w.status = "completed" THEN [i \in 1..spoken[t] |-> i] ELSE <<>>
  <2>1. stored[t].answer = <<>>
    BY <1>1, FlowParts DEF AnswerIsWhatWasStreamed
  <2>2. stored'[t].answer = IF w.status = "completed" /\ stored[t].status = "running"
                            THEN live[t].text ELSE stored[t].answer
    BY <1>2 DEF SetStatus, TypeOK, Rows
  <2> QED
    BY <1>1, <1>7, <2>1, <2>2
<1>9. ProcessLost /\ UNCHANGED spoken
  BY DEF CrashAfterCommit, ProcessLost
<1>10. AnswerIsWhatWasStreamed'
  BY <1>4, <1>8, <1>9, FlowParts DEF AnswerIsWhatWasStreamed
<1>11. \A u \in Turns : stored'[u].status = "none" => spoken[u] = 0
  BY <1>3, <1>4, FlowParts DEF BridgesSpeakInTime
<1> QED
  BY <1>9, <1>10, <1>11, ProcessLostFlow

\* Rows may be interrupted and tasks cancelled as long as nobody consumes any more.
LEMMA InterruptedFlow ==
    ASSUME TypeOK, Flow, UNCHANGED <<registry, live, spoken, request>>,
           mode' = "up" => \A t \in Turns : stored'[t].status # "running",
           \A t \in Turns : consumer'[t] # "get",
           mode' = "down" => registry = <<>>,
           mode' = "up" => registry = <<>>,
           \A t \in Turns : Active(t)' => Active(t),
           \A t \in Turns :
               \/ stored'[t] = stored[t]
               \/ /\ stored[t].status = "running"
                  /\ stored'[t] = [stored[t] EXCEPT !.status = "interrupted"]
    PROVE  Flow'
<1>1. \A t \in Turns :
          /\ stored'[t].status = "none" <=> stored[t].status = "none"
          /\ stored[t].status \in {"running", "interrupted"} =>
                stored'[t].status \in {"running", "interrupted"}
          /\ stored'[t].status = "completed" <=> stored[t].status = "completed"
          /\ stored'[t].answer = stored[t].answer
  <2> SUFFICES ASSUME NEW t \in Turns, stored[t].status = "running",
                      stored'[t] = [stored[t] EXCEPT !.status = "interrupted"]
               PROVE  stored'[t].status = "interrupted" /\ stored'[t].answer = stored[t].answer
    OBVIOUS
  <2> QED
    BY DEF TypeOK, Rows
<1>2. RegistryListsStartedTurns'
  <2>1. \A i \in DOMAIN registry : registry[i] \in Turns
    BY DEF TypeOK
  <2> QED
    BY <1>1, <2>1, FlowParts DEF RegistryListsStartedTurns
<1>3. ConsumersFollowTheirTurns'
  BY DEF ConsumersFollowTheirTurns, Owned
<1>4. BridgesSpeakInTime'
  BY <1>1, FlowParts DEF BridgesSpeakInTime
<1>5. OutcomesAreShown'
  <2>1. \A c \in Clients : request[c].at # "idle" => request[c].turn \in Turns
    BY DEF TypeOK, Requests, NoRequest
  <2>2. mode' = "up" => \A t \in Turns : ~Registered(t)'
    BY DEF Registered
  <2> QED
    BY <1>1, <2>1, <2>2, FlowParts DEF OutcomesAreShown
<1>6. AnswerIsWhatWasStreamed'
  BY <1>1, FlowParts DEF AnswerIsWhatWasStreamed
<1> QED
  BY <1>2, <1>3, <1>4, <1>5, <1>6, FlowFromParts

LEMMA ProcessFlow ==
    ASSUME TypeOK, LifeInv, Flow, ProcessStep
    PROVE  Flow'
<1>1. CASE Startup
  <2>1. /\ UNCHANGED <<registry, live, spoken, request, task, consumer>>
        /\ mode = "down" /\ mode' = "up" /\ stored' = Swept
    BY <1>1 DEF Startup, registryVars, hermesVars
  <2>2. registry = <<>> /\ \A t \in Turns : consumer'[t] # "get"
    BY <2>1, LifeParts, FlowParts DEF RegistryListsStartedTurns, ConsumersOwnRunningTurns
  <2>3. \A t \in Turns : Active(t)' => Active(t)
    BY <2>1 DEF Active
  <2>4. \A t \in Turns :
            \/ stored'[t] = stored[t] /\ stored[t].status # "running"
            \/ /\ stored[t].status = "running"
               /\ stored'[t] = [stored[t] EXCEPT !.status = "interrupted"]
    BY <2>1 DEF Swept
  <2>5. \A t \in Turns : stored'[t].status # "running"
    BY <2>4, InterruptedRow DEF TypeOK
  <2> QED
    BY <2>1, <2>2, <2>3, <2>4, <2>5, InterruptedFlow
<1>2. ASSUME NEW claimed \in SUBSET Turns, Claim(claimed)
      PROVE  Flow'
  <2>1. /\ UNCHANGED <<registry, live, spoken, request>> /\ mode' = "stopping"
        /\ \A t \in Turns : consumer'[t] # "get"
    BY <1>2 DEF Claim, registryVars, Owned
  <2>2. \A t \in Turns : Active(t)' => Active(t)
    BY <1>2, CancelledKeeps DEF Claim, Active, TypeOK
  <2>3. \A t \in Turns :
            \/ stored'[t] = stored[t]
            \/ /\ stored[t].status = "running"
               /\ stored'[t] = [stored[t] EXCEPT !.status = "interrupted"]
    BY <1>2 DEF Claim
  <2> QED
    BY <2>1, <2>2, <2>3, InterruptedFlow
<1>3. CASE Shutdown \/ ShutdownRaises
  <2>1. \E claimed \in SUBSET Turns : Claim(claimed)
    BY <1>3 DEF Shutdown, ShutdownRaises, Owned
  <2> QED
    BY <1>2, <2>1
<1>4. CASE Exit \/ Crash
  <2>1. ProcessLost /\ UNCHANGED <<stored, spoken>>
    BY <1>4 DEF Exit, Crash, ProcessLost
  <2> QED
    BY <2>1, ProcessLostFlow, FlowParts DEF AnswerIsWhatWasStreamed, BridgesSpeakInTime
<1> QED
  BY <1>1, <1>3, <1>4 DEF ProcessStep

\* Cancelling a task leaves what it has said.
LEMMA CancelledSays ==
    ASSUME NEW r \in Tasks
    PROVE  /\ Cancelled(r).at = r.at /\ Cancelled(r).seq = r.seq
           /\ Cancelled(r).terminal = r.terminal /\ Cancelled(r).queue = r.queue
<1>1. CASE Cancelled(r) = [r EXCEPT !.cancel = TRUE]
  BY <1>1 DEF Tasks
<1> QED
  BY <1>1 DEF Cancelled

\* Nothing is lost while tasks are at most cancelled and requests are for known turns.
LEMMA TasksOnlyFlow ==
    ASSUME TypeOK, Flow, UNCHANGED <<stored, failures, registry, live, spoken, mode, consumer>>,
           \A t \in Turns : task'[t] \in {task[t], Cancelled(task[t])},
           \A c \in Clients :
               request'[c].at # "idle" => stored[request'[c].turn].status # "none"
    PROVE  Flow'
<1>1. \A t \in Turns :
          /\ task'[t].at = task[t].at /\ task'[t].seq = task[t].seq
          /\ task'[t].terminal = task[t].terminal /\ task'[t].queue = task[t].queue
  BY CancelledSays DEF TypeOK
<1>2. \A t \in Turns : (Active(t)' <=> Active(t)) /\ (Registered(t)' <=> Registered(t))
  BY <1>1 DEF Active, Registered
<1>3. \A t \in Turns : QueueGoesOn(task[t], live[t]) => QueueGoesOn(task'[t], live[t])
  BY <1>1 DEF QueueGoesOn
<1>4. ConsumersFollowTheirTurns'
  BY <1>1, <1>2, <1>3, FlowParts DEF ConsumersFollowTheirTurns, Owned
<1>5. RegistryListsStartedTurns' /\ BridgesSpeakInTime' /\ AnswerIsWhatWasStreamed'
  BY <1>2, FlowParts
     DEF RegistryListsStartedTurns, BridgesSpeakInTime, AnswerIsWhatWasStreamed
<1>6. OutcomesAreShown'
  BY <1>2, FlowParts DEF OutcomesAreShown
<1> QED
  BY <1>4, <1>5, <1>6, FlowFromParts

LEMMA CancelFlow ==
    ASSUME TypeOK, Flow, CancelStep
    PROVE  Flow'
<1>1. UNCHANGED <<stored, failures, registry, live, spoken, mode, consumer>>
  BY DEF CancelStep, CancelEnded, Cancel, CancelGraceOver, CancelJoined, Disconnect,
         storeVars, registryVars, hermesVars, coordinatorVars
<1>2. \A t \in Turns : task'[t] \in {task[t], Cancelled(task[t])}
  BY DEF CancelStep, CancelEnded, Cancel, CancelGraceOver, CancelJoined, Disconnect,
         hermesVars, TypeOK
<1>3. NoRequest.at = "idle"
  BY DEF NoRequest
<1>4. \A c \in Clients : request[c].at # "idle" => stored[request[c].turn].status # "none"
  BY FlowParts DEF OutcomesAreShown
<1>5. ASSUME NEW c \in Clients, NEW t, stored[t].status # "none",
             JoinOrAnswer(c, t) \/ Wait(c, t, "grace")
      PROVE  \A d \in Clients :
                 request'[d].at # "idle" => stored[request'[d].turn].status # "none"
  <2>1. request' \in {[request EXCEPT ![c] = NoRequest],
                      [request EXCEPT ![c] = [at |-> "join", turn |-> t]],
                      [request EXCEPT ![c] = [at |-> "grace", turn |-> t]]}
    BY <1>5 DEF JoinOrAnswer, Wait
  <2>2. /\ \A d \in Clients \ {c} : request'[d] = request[d]
        /\ request'[c].at = "idle" \/ request'[c].turn = t
    BY <1>3, <2>1 DEF TypeOK
  <2> QED
    BY <1>4, <1>5, <2>2
<1>6. ASSUME NEW c \in Clients, request' = [request EXCEPT ![c] = NoRequest]
      PROVE  \A d \in Clients :
                 request'[d].at # "idle" => stored[request'[d].turn].status # "none"
  BY <1>3, <1>4, <1>6 DEF TypeOK
<1>7. \A d \in Clients : request'[d].at # "idle" => stored[request'[d].turn].status # "none"
  <2>1. ASSUME NEW t \in Turns, CancelEnded(t)
        PROVE  \A d \in Clients :
                   request'[d].at # "idle" => stored[request'[d].turn].status # "none"
    BY <1>4, <2>1 DEF CancelEnded, coordinatorVars
  <2>2. ASSUME NEW c \in Clients, NEW t \in Turns, Cancel(c, t)
        PROVE  \A d \in Clients :
                   request'[d].at # "idle" => stored[request'[d].turn].status # "none"
    <3>1. stored[t].status # "none" /\ (JoinOrAnswer(c, t) \/ Wait(c, t, "grace"))
      BY <2>2 DEF Cancel
    <3> QED
      BY <1>5, <3>1
  <2>3. ASSUME NEW c \in Clients, CancelGraceOver(c)
        PROVE  \A d \in Clients :
                   request'[d].at # "idle" => stored[request'[d].turn].status # "none"
    <3>1. stored[request[c].turn].status # "none" /\ JoinOrAnswer(c, request[c].turn)
      BY <1>4, <2>3 DEF CancelGraceOver
    <3> QED
      BY <1>5, <3>1
  <2> QED
    BY <1>6, <2>1, <2>2, <2>3 DEF CancelStep, CancelJoined, Disconnect
<1> QED
  BY <1>1, <1>2, <1>7, TasksOnlyFlow

LEMMA FlowStep ==
    ASSUME TypeOK, LifeInv, Flow, TypeOK', [Next]_vars
    PROVE  Flow'
<1>1. CASE UNCHANGED vars
  <2>1. /\ UNCHANGED <<stored, failures, registry, live, spoken, mode, consumer>>
        /\ UNCHANGED <<task, request>>
    BY <1>1 DEF vars, storeVars, registryVars, hermesVars, coordinatorVars
  <2>2. \A c \in Clients :
            request'[c].at # "idle" => stored[request'[c].turn].status # "none"
    BY <2>1, FlowParts DEF OutcomesAreShown
  <2> QED
    BY <2>1, <2>2, TasksOnlyFlow
<1> QED
  BY <1>1, StartFlow, ConsumeFlow, RuntimeFlow, CrashFlow, ProcessFlow, CancelFlow
     DEF Next, TurnStep

LEMMA InitialFlow ==
    ASSUME Init PROVE Flow
<1>1. /\ registry = <<>> /\ mode = "down"
      /\ \A t \in Turns : /\ task[t] = NoTask /\ consumer[t] = "none" /\ spoken[t] = 0
                          /\ stored[t] = NoTurn
      /\ \A c \in Clients : request[c] = NoRequest
  BY DEF Init, StoreInit, RegistryInit, HermesInit
<1>2. /\ NoTask.at = "idle" /\ NoRequest.at = "idle"
      /\ NoTurn.status = "none" /\ NoTurn.answer = <<>>
  BY DEF NoTask, NoRequest, NoTurn
<1>3. RegistryListsStartedTurns /\ ConsumersFollowTheirTurns
  BY <1>1 DEF RegistryListsStartedTurns, ConsumersFollowTheirTurns, Owned
<1>4. BridgesSpeakInTime /\ OutcomesAreShown /\ AnswerIsWhatWasStreamed
  BY <1>1, <1>2 DEF BridgesSpeakInTime, OutcomesAreShown, AnswerIsWhatWasStreamed, Active
<1> QED
  BY <1>3, <1>4 DEF Flow, FlowInv

(***************************************************************************)
(* What is answered to a call of cancel.                                   *)
(***************************************************************************)
\* An answer names the row as it is, and is given by a step that changes nothing else
\* that it is measured by.
LEMMA CancelAnswer ==
    ASSUME TypeOK, LifeInv, Flow, CancelStep
    PROVE  CancelIsSynchronous'
<1>1. UNCHANGED <<stored, failures, registry, live, mode, consumer>>
  BY DEF CancelStep, CancelEnded, Cancel, CancelGraceOver, CancelJoined, Disconnect,
         storeVars, registryVars, hermesVars, coordinatorVars
<1>2. \A u \in Turns : Registered(u)' <=> Registered(u)
  BY <1>1 DEF Registered
<1>3. ASSUME NEW t \in Turns, stored[t].status # "none",
             stored[t].status \in Final \/ consumer[t] # "get",
             NEW status \in {stored[t].status, "error"}, Answer(t, status)
      PROVE  CancelIsSynchronous'
  <2>1. response'.turn = t /\ response'.status = status
    BY <1>3 DEF Answer
  <2> SUFFICES ASSUME mode = "up", status # "error", failures[t] = 0
               PROVE  /\ status \in Final
                      /\ Registered(t) => live[t].terminal = status
    BY <1>1, <1>2, <2>1 DEF CancelIsSynchronous
  <2>2. stored[t].status \in Status /\ status = stored[t].status
    BY <1>3 DEF TypeOK, Rows
  <2>3. stored[t].status # "running"
    BY <1>3, FlowParts DEF OutcomesAreShown, Final, Outcomes
  <2>4. status \in Final
    BY <1>3, <2>2, <2>3 DEF Status
  <2> QED
    BY <2>2, <2>4, FlowParts DEF OutcomesAreShown
<1>4. CASE Quiet
  BY <1>4 DEF Quiet, NoResponse, CancelIsSynchronous
<1>5. ASSUME NEW c \in Clients, NEW t \in Turns, stored[t].status # "none", JoinOrAnswer(c, t)
      PROVE  CancelIsSynchronous'
  BY <1>3, <1>4, <1>5 DEF JoinOrAnswer, Wait
<1>6. \A c \in Clients :
          request[c].at # "idle" =>
              request[c].turn \in Turns /\ stored[request[c].turn].status # "none"
  BY FlowParts DEF OutcomesAreShown, TypeOK, Requests, NoRequest
<1>7. ASSUME NEW t \in Turns, CancelEnded(t)
      PROVE  CancelIsSynchronous'
  <2>1. stored[t].status \in Final /\ Answer(t, stored[t].status)
    BY <1>7 DEF CancelEnded
  <2> QED
    BY <1>3, <2>1 DEF Final, Outcomes
<1>8. ASSUME NEW c \in Clients, NEW t \in Turns, Cancel(c, t)
      PROVE  CancelIsSynchronous'
  <2>1. stored[t].status # "none" /\ (JoinOrAnswer(c, t) \/ Quiet)
    BY <1>8 DEF Cancel, Wait
  <2> QED
    BY <1>4, <1>5, <2>1
<1>9. ASSUME NEW c \in Clients, CancelGraceOver(c)
      PROVE  CancelIsSynchronous'
  BY <1>5, <1>6, <1>9 DEF CancelGraceOver
<1>10. ASSUME NEW c \in Clients, CancelJoined(c)
       PROVE  CancelIsSynchronous'
  <2> DEFINE t == request[c].turn
  <2>1. t \in Turns /\ stored[t].status # "none" /\ consumer[t] # "get"
    BY <1>6, <1>10 DEF CancelJoined
  <2>2. PICK status \in {stored[t].status, "error"} : Answer(t, status)
    BY <1>10 DEF CancelJoined
  <2> QED
    BY <1>3, <2>1, <2>2
<1> QED
  BY <1>4, <1>7, <1>8, <1>9, <1>10 DEF CancelStep, Disconnect

\* Every other step answers nothing.
LEMMA CancelIsSynchronousStep ==
    ASSUME TypeOK, LifeInv, Flow, CancelIsSynchronous, [Next]_vars
    PROVE  CancelIsSynchronous'
<1>1. CASE UNCHANGED vars
  BY <1>1 DEF vars, storeVars, registryVars, coordinatorVars, CancelIsSynchronous, Registered
<1>2. CASE Quiet
  BY <1>2 DEF Quiet, NoResponse, CancelIsSynchronous
<1>3. CASE CancelStep
  BY <1>3, CancelAnswer
<1>4. ASSUME NEW t \in Turns, TurnStep(t)
      PROVE  Quiet
  BY <1>4 DEF TurnStep, Start, StartRaises, StartRefused, ConsumeProgress, ConsumeOutcome,
              CrashAfterCommit, ProcessLost, RuntimeStep
<1>5. CASE ProcessStep
  BY <1>2, <1>5 DEF ProcessStep, Startup, Shutdown, ShutdownRaises, Claim, Exit, Crash,
                    ProcessLost
<1> QED
  BY <1>1, <1>2, <1>3, <1>4, <1>5 DEF Next

LEMMA FlowHolds == Spec => [](TypeOK /\ LifeInv /\ Flow)
<1>1. Init => TypeOK /\ LifeInv /\ Flow
  BY InitialTypes, InitialLife, InitialFlow
<1>2. TypeOK /\ LifeInv /\ Flow /\ [Next]_vars => TypeOK' /\ LifeInv' /\ Flow'
  BY TypeStep, LifeStep, FlowStep
<1> QED
  BY <1>1, <1>2, PTL DEF Spec

\* Every event a consumer takes is the next one of a turn the registry still holds, so
\* that validate_next and publish cannot raise, however many turns are registered and
\* evicted meanwhile.
THEOREM EventsAreFollowed == Spec => []EventsFindTheirTurn
<1>1. Flow => EventsFindTheirTurn
  BY FlowParts DEF ConsumersFollowTheirTurns, QueueGoesOn, EventsFindTheirTurn
<1> QED
  BY <1>1, FlowHolds, PTL

\* The answer that is stored is the whole text that was streamed, in its order, even if
\* the commit raised although it was made, or the process died right after it.
THEOREM AnswersAreWhole == Spec => []AnswerIsWhatWasStreamed
<1>1. Flow => AnswerIsWhatWasStreamed
  BY FlowParts
<1> QED
  BY <1>1, FlowHolds, PTL

\* A call of cancel is answered with the outcome that is stored and was published, for
\* any number of browsers that cancel, go away and come back.
THEOREM CancelsAreSynchronous == Spec => []CancelIsSynchronous
<1>1. Init => CancelIsSynchronous
  BY DEF Init, NoResponse, CancelIsSynchronous
<1>2. TypeOK /\ LifeInv /\ Flow /\ CancelIsSynchronous /\ [Next]_vars => CancelIsSynchronous'
  BY CancelIsSynchronousStep
<1> QED
  BY <1>1, <1>2, FlowHolds, PTL DEF Spec
=============================================================================
