--------------------------- MODULE ResourceReads ---------------------------
(* What the read side of PostgreSQLRepository answers (repository/postgres.py *)
(* from line 421), each operator one statement on the committed rows. An      *)
(* Asset keeps its creation time and its title for good; that it is visible,  *)
(* its Sources, and what has been observed of it change under the reader.     *)
(* Resources, times and titles are numbers: they are what pages order by.     *)
EXTENDS Integers, Sequences, FiniteSets, SequencesExt

CONSTANTS
    None,
    Resources,
    Locators, Providers, Mimes, Locations, Captures,    \* what Sources and statements say
    Created, Title,     \* the time the application gave each Asset; its title
    Below,              \* per prefix, the locations that begin with it
    BelowFolded,        \* and those that do when case is ignored
    TitleHits, Mentions,    \* titles and locations that hold the text searched for
    Ranking             \* the Provider's locators, most similar first

ASSUME ReadsAssumption ==
    /\ Resources \subseteq Nat /\ IsFiniteSet(Resources)
    /\ \A r \in Resources : Created[r] \in Nat /\ Title[r] \in Nat
    /\ None \notin Nat /\ None \notin Locations
    /\ Captures \subseteq Nat \cup {None}
    /\ Ranking \in Seq(Locators)
    /\ DOMAIN Below = DOMAIN BelowFolded
    /\ \A p \in DOMAIN Below : Below[p] \subseteq BelowFolded[p]

VARIABLE
    assets      \* per Resource: committed or not, observed or not, capture time, Sources

Sources == [locator : Locators, provider : Providers, mime : Mimes, location : Locations,
            active : BOOLEAN]
Assets == [stored : BOOLEAN, said : BOOLEAN, captured : Captures \cup {None},
           sources : SUBSET Sources]

-----------------------------------------------------------------------------

\* _source_filters: the prefix is matched with ILIKE.
EligibleSource(s, f) ==
    /\ s.active
    /\ f.provider # None => s.provider = f.provider
    /\ f.mime # None => s.mime = f.mime
    /\ f.prefix # None => s.location \in BelowFolded[f.prefix]

ActiveSourceExists(r, f) == \E s \in assets[r].sources : EligibleSource(s, f)

Visible(r, f, since, snapshot) ==
    /\ assets[r].stored
    /\ since <= Created[r] /\ Created[r] < snapshot
    /\ ActiveSourceExists(r, f)

Listed(f, since, snapshot) == {r \in Resources : Visible(r, f, since, snapshot)}

Searched(f, since, snapshot) ==
    {r \in Listed(f, since, snapshot) :
        \/ Title[r] \in TitleHits
        \/ \E s \in assets[r].sources : EligibleSource(s, f) /\ s.location \in Mentions}

Newer(a, b) == Created[a] > Created[b] \/ (Created[a] = Created[b] /\ a < b)
Alphabetic(a, b) == Title[a] < Title[b] \/ (Title[a] = Title[b] /\ a < b)

Before(order, a, b) == IF order = "newest" THEN Newer(a, b) ELSE Alphabetic(a, b)

\* The elements of a set, each behind all that come before it.
Ranked(set, Earlier(_, _)) ==
    [i \in 1..Cardinality(set) |->
        CHOOSE x \in set : Cardinality({y \in set : Earlier(y, x)}) = i - 1]

InOrder(found, order) == Ranked(found, LAMBDA a, b : Before(order, a, b))

FirstOf(found, order, n) ==
    LET all == InOrder(found, order)
    IN  SubSeq(all, 1, IF n < Len(all) THEN n ELSE Len(all))

\* Mutant: the position in a page of recent Resources is a time alone.
ListPageByTime(f, since, snapshot, after, n) ==
    FirstOf({r \in Listed(f, since, snapshot) : after # None => Created[r] < Created[after]}, "newest", n)

\* A page begins behind the Resource the one before ended with.
ListPage(f, since, snapshot, after, n) ==
    FirstOf({r \in Listed(f, since, snapshot) : after # None => Newer(after, r)}, "newest", n)

SearchPage(f, since, snapshot, after, n) ==
    FirstOf({r \in Searched(f, since, snapshot) : after # None => Alphabetic(after, r)}, "title", n)

AnySource == [provider |-> None, mime |-> None, prefix |-> None]

Observed == {r \in Resources :
                assets[r].stored /\ assets[r].said /\ ActiveSourceExists(r, AnySource)}

ObservationText(n) == FirstOf(Observed, "title", n)
PersonLabel(n) == FirstOf(Observed, "newest", n)

-----------------------------------------------------------------------------

\* _load_resource_summaries: statements of their own, after the Assets are read.
Summary(r) == [ref |-> r, sources |-> {s \in assets[r].sources : s.active}]

\* The Resource of each active Source the Provider gave a locator of.
Mapped(locator) ==
    {m \in UNION {{r} \X assets[r].sources : r \in Resources} :
        assets[m[1]].stored /\ m[2].active /\ m[2].provider = "immich" /\ m[2].locator = locator}

\* load_rich_filter_signals
Signal(r, f) == [match |-> ActiveSourceExists(r, f), captured |-> assets[r].captured]

\* aggregate_resources without and with group_by; a Resource counts once per bucket.
Total(f, since, until) == Cardinality(Listed(f, since, until))
BucketOf(by, r, s) ==
    CASE by = "provider" -> s.provider [] by = "day" -> Created[r] [] by = "mime_type" -> s.mime

Buckets(f, since, until, by) ==
    LET keys(r) == {BucketOf(by, r, s) : s \in {t \in assets[r].sources : EligibleSource(t, f)}}
        found == Listed(f, since, until)
    IN  [k \in UNION {keys(r) : r \in found} |-> Cardinality({r \in found : k \in keys(r)})]
=============================================================================
