------------------------------- MODULE MCReads -------------------------------
(* Three parts that share nothing: a query followed through its pages, with   *)
(* ties in time and title, a Resource committed late and one first observed   *)
(* after the snapshot; three streams on two permits; a text read in windows.  *)
(* The initial state picks the part that moves.                               *)
EXTENDS ResourceQuery, ResourceAccess

MCCreated == <<1, 1, 2, 1>>
MCTitle == <<1, 2, 1, 1>>
MCBelow == [p |-> {"p1", "p2", "p3"}]
MCBelowFolded == [p |-> {"p1", "p2", "p3", "P1"}]
MCMentions == {"p1"}
MCRanking == <<"l2", "l9", "l1", "l3">>
MCPathKey == [p1 |-> 1, P1 |-> 1, p2 |-> 2, p3 |-> 3, out |-> 4]
MCSafe == {"p1", "P1", "p2", "out"}
MCSize == <<1, 2, 1, 1>>

Source(locator, provider, location) ==
    [locator |-> locator, provider |-> provider, mime |-> "m1", location |-> location, active |-> TRUE]
Asset(stored, captured, sources) ==
    [stored |-> stored, said |-> TRUE, captured |-> captured, sources |-> sources]

\* Three Resources of two Providers, and one that is committed late.
Stored(provider, a, b) ==
    <<Asset(TRUE, 2, {Source("l1", provider, a)}),
      Asset(TRUE, 1, {Source("l2", provider, b), Source("l3", provider, a)}),
      Asset(TRUE, 2, {Source("l4", provider, b)}),
      Asset(FALSE, 2, {Source("l1", provider, a)})>>

Filters(provider, prefix) == [provider |-> provider, mime |-> None, prefix |-> prefix]
Query(primary, filters, sort, taken, scan, limit) ==
    [primary |-> primary, filters |-> filters, sort |-> sort, taken |-> taken,
     since |-> None, scan |-> scan, limit |-> limit]

Nextcloud == Stored("n", "p1", "p2")
Scattered == Stored("n", "p1", "out")
Immich == Stored("immich", "p1", "p2")

Cases ==
    {<<Query("recent", AnySource, "observed", None, 3, 2), Nextcloud>>,
     <<Query("recent", AnySource, "observed", None, 4, 1), Nextcloud>>,
     <<Query("recent", Filters("n", "p"), "captured", {2}, 4, 2), Nextcloud>>,
     <<Query("metadata_text", AnySource, "relevance", None, 4, 2), Scattered>>,
     <<Query("metadata_text", Filters(None, "p"), "path", None, 4, 2), Scattered>>,
     <<Query("path_tree", Filters(None, "p"), "path", None, 4, 2), Nextcloud>>,
     <<Query("observation_text", Filters("n", None), "relevance", {1, 2}, 4, 2), Nextcloud>>,
     <<Query("person_label", AnySource, "captured", None, 3, 2), Scattered>>,
     <<Query("provider_semantic", AnySource, "relevance", None, 3, 1), Immich>>,
     <<Query("provider_semantic", AnySource, "relevance", None, 5, 2), Immich>>}

\* What the theorems ask of the cases.
ASSUME CasesAreQueries == \A c \in Cases : IsQuery(c[1]) /\ c[2] \in [Resources -> Assets]

MCTexts == {<<3, 3, 3>>, <<1, 4, 2, 1>>, <<2, 1>>, <<4, 4, 4>>}

-----------------------------------------------------------------------------

Init ==
    \/ /\ \E c \in Cases : InitQuery(c[1], c[2], "client")
       /\ InitStreams("failed") /\ InitText({<<1>>}, MaxTextChanges, "idle")
    \/ /\ InitQuery(Query("recent", AnySource, "observed", None, 3, 2), Nextcloud, "over")
       /\ \/ InitStreams("new") /\ InitText({<<1>>}, MaxTextChanges, "idle")
          \/ InitStreams("failed") /\ InitText(Texts, 0, "ask")

World ==
    \/ \E r \in Resources : CommitAsset(r)
    \/ \E s \in assets[2].sources, active \in BOOLEAN, location \in {"p2", "p3", "P1"} :
           SyncSource(2, s, active, location)
    \/ \E said \in BOOLEAN, captured \in {None, 1, 2} : Restate(3, said, captured)
    \/ Tick

Next ==
    \/ (World \/ Ask \/ Service) /\ UNCHANGED <<streamVars, textVars>>
    \/ StreamNext /\ UNCHANGED <<queryVars, textVars>>
    \/ TextNext /\ UNCHANGED <<queryVars, streamVars>>

Spec == Init /\ [][Next]_<<queryVars, streamVars, textVars>> /\ QueryFairness /\ StreamFairness
=============================================================================
