---------------------------- MODULE TurnRegistry ----------------------------
(***************************************************************************)
(* The live view of turns that browsers subscribe to                       *)
(* (jarvis/runtime/registry.py). It is memory of the web process. Turns    *)
(* are kept in the order of registration; over the limit the oldest go, as *)
(* long as they have ended. publish holds a condition that nobody keeps    *)
(* over a suspension, so it runs through in the caller's step.             *)
(***************************************************************************)
EXTENDS RuntimeContract, FiniteSets

CONSTANTS
    TurnLimit       \* turns kept

ASSUME TurnRegistryAssumption == TurnLimit \in Nat \ {0}

VARIABLES
    registry,       \* the registered turns, oldest first
    live,           \* live[t] = [seq, text, terminal]
    announced       \* history: announced[t], the outcomes ever published for t

registryVars == <<registry, live, announced>>

Blank == [seq |-> 0, text |-> <<>>, terminal |-> "none"]

RegistryInit ==
    /\ registry = <<>>
    /\ live = [t \in Turns |-> Blank]
    /\ announced = [t \in Turns |-> {}]

Registered(t) == \E i \in DOMAIN registry : registry[i] = t

\* Mutant: eviction does not look at whether the turn has ended.
OverLimit(r) == {i \in DOMAIN r : i + TurnLimit <= Len(r)}

\* The places of the list r that `register` drops: the oldest, while there are more
\* than TurnLimit and up to the first turn that has not ended.
Evicted(r) ==
    {i \in DOMAIN r : /\ i + TurnLimit <= Len(r)
                      /\ \A j \in 1..i : live[r[j]].terminal # "none"}

\* register, and perhaps a first event published at once: the view of t is `view`.
Register(t, view) ==
    LET r == Append(registry, t)
    IN  /\ registry' = SubSeq(r, Cardinality(Evicted(r)) + 1, Len(r))
        /\ live' = [u \in Turns |-> IF u = t THEN view
                                    ELSE IF \E i \in Evicted(r) : r[i] = u THEN Blank
                                    ELSE live[u]]

\* publish of an event that is no outcome; text holds its piece, if it has one.
PublishProgress(t, text) ==
    /\ live' = [live EXCEPT ![t].seq = @ + 1, ![t].text = @ \o text]
    /\ UNCHANGED <<registry, announced>>

PublishOutcome(t, outcome) ==
    /\ live' = [live EXCEPT ![t].seq = @ + 1, ![t].terminal = outcome]
    /\ announced' = [announced EXCEPT ![t] = @ \cup {outcome}]
    /\ UNCHANGED registry

\* The process is gone: only what browsers were told remains.
RegistryLost ==
    /\ registry' = <<>>
    /\ live' = [t \in Turns |-> Blank]
    /\ UNCHANGED announced
=============================================================================
