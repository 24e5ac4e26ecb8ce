----------------------------- MODULE ImmichSearch -----------------------------
(***************************************************************************)
(* One search of the Immich adapter: a fixed query read page by page, by   *)
(* offset, while assets enter, leave and move in its result.  It is read   *)
(* twice and succeeds only if both passes list the same assets in the same *)
(* order; the first pass's facts are processed as they come.               *)
(*                                                                         *)
(* An asset that left the result does not come back to it during the       *)
(* search: deletion is final, and an update moves an asset out of a window *)
(* of time that has a fixed end.                                           *)
(***************************************************************************)
EXTENDS Integers, SequencesExt

CONSTANTS
    Asset,
    PageSize,
    MaxMoves   \* bound: moves of the result during one search

ASSUME ImmichSearchAssumption ==
    /\ IsFiniteSet(Asset)
    /\ PageSize \in Nat \ {0}
    /\ MaxMoves \in Nat

VARIABLES
    result,    \* the assets the query has now, in its order
    departed,  \* the assets that left since the search began
    stayed,    \* history: the assets that were there all along
    moves,
    pass,      \* "first", "second", "complete" or "drift"
    page,      \* the page asked for next
    first,     \* first_pass_ids
    second     \* verification_ids

searchVars == <<result, departed, stayed, moves, pass, page, first, second>>
answer == <<result, departed, stayed, moves>>
search == <<pass, page, first, second>>

SearchTypeOK ==
    /\ result \in Seq(Asset) /\ first \in Seq(Asset) /\ second \in Seq(Asset)
    /\ departed \subseteq Asset /\ stayed \subseteq Asset
    /\ moves \in 0..MaxMoves
    /\ pass \in {"first", "second", "complete", "drift"}
    /\ page \in Nat \ {0}

Begin(s) ==
    /\ result = s /\ departed = {} /\ stayed = ToSet(s) /\ moves = 0
    /\ pass = "first" /\ page = 1 /\ first = <<>> /\ second = <<>>

\* Any order of any assets.
SearchInit == \E A \in SUBSET Asset : \E s \in SetToSeqs(A) : Begin(s)

Enter(a, i) ==
    /\ moves < MaxMoves /\ moves' = moves + 1
    /\ a \notin ToSet(result) \cup departed
    /\ result' = InsertAt(result, i, a)
    /\ UNCHANGED <<departed, stayed, search>>

Leave(i) ==
    /\ moves < MaxMoves /\ moves' = moves + 1
    /\ result' = RemoveAt(result, i)
    /\ departed' = departed \cup {result[i]}
    /\ stayed' = stayed \ {result[i]}
    /\ UNCHANGED search

\* An asset's date is edited, and it takes another place in the order.
Move(i, j) ==
    /\ moves < MaxMoves /\ moves' = moves + 1
    /\ result' = InsertAt(RemoveAt(result, i), j, result[i])
    /\ UNCHANGED <<departed, stayed, search>>

\* The items of the page asked for, and whether the response names a next one.
Items == SubSeq(result, (page - 1) * PageSize + 1,
                IF page * PageSize < Len(result) THEN page * PageSize
                ELSE Len(result))
HasNext == page * PageSize < Len(result)

Repeated(ids) == ToSet(Items) \cap ToSet(ids) # {}

Drift(ids) ==
    /\ Repeated(ids)
    /\ pass' = "drift"
    /\ UNCHANGED <<answer, page, first, second>>

ReadFirst ==
    /\ pass = "first"
    /\ \/ Drift(first)
       \/ /\ ~ Repeated(first)
          /\ first' = first \o Items
          /\ page' = IF HasNext THEN page + 1 ELSE 1
          /\ pass' = IF HasNext THEN "first" ELSE "second"
          /\ UNCHANGED <<answer, second>>

\* Mutant: only the number of assets is compared.
SameLength(a, b) == Len(a) = Len(b)

Same(a, b) == a = b

ReadSecond ==
    /\ pass = "second"
    /\ \/ Drift(second)
       \/ /\ ~ Repeated(second)
          /\ second' = second \o Items
          /\ page' = IF HasNext THEN page + 1 ELSE 1
          /\ pass' = IF HasNext THEN "second"
                     ELSE IF Same(first, second') THEN "complete" ELSE "drift"
          /\ UNCHANGED <<answer, first>>

\* The next search starts from whatever the query has then.
Again ==
    /\ pass \in {"complete", "drift"}
    /\ departed' = {} /\ stayed' = ToSet(result) /\ moves' = 0
    /\ pass' = "first" /\ page' = 1 /\ first' = <<>> /\ second' = <<>>
    /\ UNCHANGED result

SearchNext ==
    \/ \E a \in Asset, i \in 1..(Len(result) + 1) : Enter(a, i)
    \/ \E i \in DOMAIN result : Leave(i)
    \/ \E i, j \in DOMAIN result : Move(i, j)
    \/ ReadFirst
    \/ ReadSecond
    \/ Again

SearchSpec == SearchInit /\ [][SearchNext]_searchVars

Distinct(s) == \A i, j \in DOMAIN s : s[i] = s[j] => i = j

\* A search that completes has listed every asset that was in the result from
\* its first page to its last, and none twice, although pages shift under it:
\* what a full run may then deactivate really left, and what a window run moves
\* its checkpoint past was really seen (_search_metadata's second pass).
CompleteSearchMissesNothing ==
    pass = "complete" =>
      /\ stayed \subseteq ToSet(first)
      /\ Distinct(first)

\* The passes are lists of assets, each read from its first page, and a search that
\* completes missed none of those that stayed (_search_metadata).
SearchIsSound == SearchTypeOK /\ CompleteSearchMissesNothing

-----------------------------------------------------------------------------
(* The inductive invariant behind it.                                      *)

\* While the first pass runs it has listed as many different assets as its
\* pages hold, so that after the last page they are the whole result unless one
\* of them left; and one that left is not in the second pass.
SearchInv ==
    /\ SearchTypeOK
    /\ Distinct(result) /\ Distinct(first)
    /\ stayed \subseteq ToSet(result)
    /\ ToSet(result) \cap departed = {}
    /\ pass = "first" =>
         /\ Len(first) = (page - 1) * PageSize
         /\ ToSet(first) \subseteq ToSet(result) \cup departed
         /\ second = <<>>
    /\ pass = "second" =>
         \/ stayed \subseteq ToSet(first)
         \/ \E x \in ToSet(first) : x \in departed /\ x \notin ToSet(second)
    /\ pass = "complete" => stayed \subseteq ToSet(first)
=============================================================================
