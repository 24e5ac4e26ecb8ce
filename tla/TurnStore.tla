------------------------------ MODULE TurnStore ------------------------------
(***************************************************************************)
(* The database of Jarvis (jarvis/state/store.py): the turns of            *)
(* conversations. It survives the web process. Every method is one         *)
(* transaction; its possible endings are given as a set, because the code  *)
(* that calls it continues differently when it raises.                     *)
(***************************************************************************)
EXTENDS RuntimeContract

CONSTANTS
    Conversations,
    NoConversation,
    MaxFaults,      \* bound: MaxFaults[t] store calls raise for t
    LostAck         \* whether a call that raises may have committed

ASSUME TurnStoreAssumption ==
    /\ NoConversation \notin Conversations
    /\ MaxFaults \in [Turns -> Nat]
    /\ LostAck \in BOOLEAN

VARIABLES
    stored,         \* the rows: stored[t] = [status, conversation, answer]
    failures        \* failures[t]: calls that raised for t so far

storeVars == <<stored, failures>>

Final == Outcomes \cup {"interrupted"}

NoTurn == [status |-> "none", conversation |-> NoConversation, answer |-> <<>>]

StoreInit ==
    /\ stored = [t \in Turns |-> NoTurn]
    /\ failures = [t \in Turns |-> 0]

\* create_turn: refused while the conversation has a running turn, by the query
\* and, were that to miss one, by the partial unique index.
MayCreate(t, c) ==
    /\ stored[t].status = "none"
    /\ \A u \in Turns :
          stored[u].conversation = c => stored[u].status # "running"

Created(c) == [status |-> "running", conversation |-> c, answer |-> <<>>]

\* How a write of `to` over `from` ends: done, rolled back, or committed although
\* the caller sees an exception.
Written(from, to) ==
    {[status |-> to, raised |-> FALSE, cost |-> 0],
     [status |-> from, raised |-> TRUE, cost |-> 1]}
    \cup (IF LostAck THEN {[status |-> to, raised |-> TRUE, cost |-> 1]} ELSE {})

\* finish_without_message: a turn that has ended is returned as it is.
Finish(status, outcome) ==
    Written(status, IF status \in Final THEN status ELSE outcome)

\* complete_turn raises StateConflictError for a turn that is not running.
Complete(status) ==
    IF status = "running" THEN Written(status, "completed")
    ELSE {[status |-> status, raised |-> TRUE, cost |-> 0]}

\* interrupt_orphaned_running_turns
Swept == [t \in Turns |-> IF stored[t].status = "running"
                          THEN [stored[t] EXCEPT !.status = "interrupted"]
                          ELSE stored[t]]
=============================================================================
