---------------------------- MODULE MCIncremental ----------------------------
(* Small instances of IncrementalSync and, beside it, of the search that an   *)
(* Immich run makes: the initial state picks the one that moves.              *)
EXTENDS IncrementalSync, ImmichSearch, TLC

VARIABLE part

MCInit ==
    \/ part = "feed" /\ Init /\ Begin(<<>>)
    \/ part = "search" /\ SearchInit /\ Init /\ provider = "immich" /\ locked

MCNext ==
    \/ part = "feed" /\ Next /\ UNCHANGED <<searchVars, part>>
    \/ part = "search" /\ SearchNext /\ UNCHANGED <<vars, part>>

MCSpec == MCInit /\ [][MCNext]_<<vars, searchVars, part>>

WorkerSymmetry == Permutations(Worker)
=============================================================================
