--------------------------- MODULE ResourceIdentity ---------------------------
(***************************************************************************)
(* What PDI promises a reader of the World Model, whatever the order of    *)
(* Provider changes, runs, failures and races: a resource only gains       *)
(* content states, and a Source never leaves the resource it was bound to. *)
(***************************************************************************)
EXTENDS Integers, Sequences

CONSTANTS Key, Content

VARIABLES
    history,    \* the content states of each resource
    binding     \* the resource, content state and activity of each Source

Binding == [asset : Nat, content : Content, active : BOOLEAN]

Bind(k, a, c) ==
    binding' = [x \in DOMAIN binding \cup {k} |->
                  IF x = k THEN [asset |-> a, content |-> c, active |-> TRUE]
                  ELSE binding[x]]

Init ==
    /\ history \in Seq(SUBSET Content)
    /\ DOMAIN binding \subseteq Key
    /\ \A k \in DOMAIN binding : binding[k].content \in history[binding[k].asset]

\* A new Source starts a resource of its own.
NewResource(k, c) ==
    /\ k \notin DOMAIN binding
    /\ history' = Append(history, {c})
    /\ Bind(k, Len(history) + 1, c)

\* A new Source joins the resource that holds its bytes.
Join(k, a, c) ==
    /\ k \notin DOMAIN binding /\ c \in history[a]
    /\ Bind(k, a, c)
    /\ UNCHANGED history

\* A known Source is seen in a state its resource had before, or still has.
Observe(k, c) ==
    /\ k \in DOMAIN binding /\ c \in history[binding[k].asset]
    /\ Bind(k, binding[k].asset, c)
    /\ UNCHANGED history

\* A known Source is seen in a state that is new to its resource.
Advance(k, c) ==
    /\ k \in DOMAIN binding /\ c \notin history[binding[k].asset]
    /\ history' = [history EXCEPT ![binding[k].asset] = @ \cup {c}]
    /\ Bind(k, binding[k].asset, c)

\* Sources go inactive and keep resource and content.
Retire(K) ==
    /\ binding' = [k \in DOMAIN binding |->
                     [binding[k] EXCEPT !.active = @ /\ k \notin K]]
    /\ UNCHANGED history

Next ==
    \/ \E k \in Key, c \in Content :
         \/ NewResource(k, c)
         \/ \E a \in DOMAIN history : Join(k, a, c)
         \/ Observe(k, c)
         \/ Advance(k, c)
    \/ \E K \in SUBSET Key : Retire(K)

Spec == Init /\ [][Next]_<<history, binding>>
=============================================================================
