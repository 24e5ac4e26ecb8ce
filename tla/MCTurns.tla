------------------------------- MODULE MCTurns -------------------------------
(* Instances of TurnCoordinator for TLC. *)
EXTENDS TurnProperties, TLC

CONSTANTS t1, t2, work, home

Sym == Permutations({work, home})

\* The store fails for the first turn; the second is there to meet it.
Faulty(n) == [t \in Turns |-> IF t = t1 THEN n ELSE 0]
OneFault == Faulty(1)
TwoFaults == Faulty(2)
NoEvent == [t \in Turns |-> 0]
OneEvent == [t \in Turns |-> 1]
TwoEvents == [t \in Turns |-> 2]
=============================================================================
