---------------------------- MODULE Reads_proofs ----------------------------
(***************************************************************************)
(* Proofs about what is read: that the pages of a chain are slices of one  *)
(* selection and a complete chain is all of it, for any rows, queries and  *)
(* changes between the calls; that no permit of the resource access        *)
(* service is lost or given back twice; that the windows of a text are     *)
(* whole.                                                                  *)
(***************************************************************************)
EXTENDS ResourceQuery, ResourceAccess, SequenceLemmas, FiniteSetTheorems, TLAPS

-----------------------------------------------------------------------------
(* Queries: what a statement returns, in its order.                        *)

OrderOf(order) == {p \in Resources \X Resources : Before(order, p[1], p[2])}
Least(a, b) == IF a < b THEN a ELSE b

LEMMA ResourcesOrdered ==
  ASSUME NEW order, NEW S \in SUBSET Resources
  PROVE  Orders(S, OrderOf(order))
<1>1. IsFiniteSet(S) /\ \A r \in S : r \in Nat /\ Created[r] \in Nat /\ Title[r] \in Nat
  BY ReadsAssumption, FS_Subset
<1>2. \A a, b \in S : <<a, b>> \in OrderOf(order) <=> Before(order, a, b)
  BY DEF OrderOf
<1>3. /\ \A x \in S : ~Before(order, x, x)
      /\ \A x, y \in S : x # y => Before(order, x, y) \/ Before(order, y, x)
      /\ \A x, y, z \in S : Before(order, x, y) /\ Before(order, y, z) => Before(order, x, z)
  BY <1>1 DEF Before, Newer, Alphabetic
<1> QED
  BY <1>1, <1>2, <1>3 DEF Orders

LEMMA InOrderIs ==
  ASSUME NEW order, NEW S \in SUBSET Resources
  PROVE  Enumerates(InOrder(S, order), S, OrderOf(order))
<1> DEFINE R == OrderOf(order)
           D == 1..Cardinality(S)
           earlier(x) == {y \in S : Before(order, y, x)}
           pick(k) == CHOOSE x \in S : Cardinality(earlier(x)) = k - 1
<1>1. Orders(S, R)
  BY ResourcesOrdered
<1>2. \A x \in S : earlier(x) = Preceding(S, R, x)
  BY DEF Preceding, OrderOf
<1>3. InOrder(S, order) = [i \in D |-> pick(i)]
  BY DEF InOrder, Ranked
<1> HIDE DEF earlier
<1>4. \A i \in D : pick(i) \in S /\ Cardinality(earlier(pick(i))) = i - 1
  <2> TAKE i \in D
  <2>2. \E x \in S : Cardinality(earlier(x)) = i - 1
    BY <1>1, <1>2, RankIsTaken DEF Rank
  <2> QED
    BY <2>2
<1> HIDE DEF pick, R, D
<1>5. \A i \in D : Rank(S, R, pick(i)) = i - 1
  BY <1>2, <1>4 DEF Rank
<1> QED
  BY <1>3, <1>4, <1>5 DEF Enumerates, D, R

\* The first of them.
LEMMA FirstOfIs ==
  ASSUME NEW order, NEW S \in SUBSET Resources, NEW k \in Nat
  PROVE  LET all == InOrder(S, order)
             n == Least(k, Cardinality(S))
         IN  /\ all \in Seq(S) /\ Len(all) = Cardinality(S) /\ Cardinality(S) \in Nat /\ n \in 0..Cardinality(S)
             /\ FirstOf(S, order, k) \in Seq(S)
             /\ Len(FirstOf(S, order, k)) = n
             /\ \A i \in 1..n : FirstOf(S, order, k)[i] = all[i]
<1> DEFINE all == InOrder(S, order)
           n == Least(k, Cardinality(S))
<1>1. all \in Seq(S) /\ Len(all) = Cardinality(S) /\ Cardinality(S) \in Nat
  BY InOrderIs, ResourcesOrdered, EnumerationIs
<1>2. n \in 0..Cardinality(S) /\ n = IF k < Len(all) THEN k ELSE Len(all)
  BY <1>1 DEF Least
<1>3. FirstOf(S, order, k) = SubSeq(all, 1, n)
  BY <1>2 DEF FirstOf
<1> HIDE DEF all, n
<1>4. /\ SubSeq(all, 1, n) \in Seq(S) /\ Len(SubSeq(all, 1, n)) = n
      /\ \A j \in 1..n : SubSeq(all, 1, n)[j] = all[j]
  <2>1. 1 \in 1..(Len(all) + 1) /\ n \in 0..Len(all) /\ 1 <= n + 1 /\ n - 1 + 1 = n
        /\ \A j \in 1..n : 1 + j - 1 = j
    BY <1>1, <1>2
  <2> QED
    BY <1>1, <2>1, SubSeqIs
<1> QED
  BY <1>1, <1>2, <1>3, <1>4 DEF all, n

\* Positions of a sequence in their order.
Upwards == {p \in Nat \X Nat : p[1] < p[2]}

LEMMA IndexesIs ==
  ASSUME NEW n \in Nat, NEW S \in SUBSET (1..n)
  PROVE  /\ Orders(S, Upwards) /\ Enumerates(Indexes(S), S, Upwards)
         /\ Indexes(S) \in Seq(S) /\ Len(Indexes(S)) = Cardinality(S)
         /\ \A i, j \in DOMAIN Indexes(S) : Indexes(S)[i] = Indexes(S)[j] => i = j
         /\ \A x \in S : \E i \in DOMAIN Indexes(S) : Indexes(S)[i] = x
<1> DEFINE D == 1..Cardinality(S)
           earlier(x) == {y \in S : y < x}
           pick(k) == CHOOSE x \in S : Cardinality(earlier(x)) = k - 1
<1>1. Orders(S, Upwards)
  <2> DEFINE T == 1..n
  <2>0. IsFiniteSet(T) /\ S \in SUBSET T
    BY FS_Interval
  <2> HIDE DEF T
  <2>1. IsFiniteSet(S)
    BY <2>0, FS_Subset
  <2>2. \A x, y \in S : x \in Nat /\ (<<x, y>> \in Upwards <=> x < y)
    BY DEF Upwards
  <2> QED
    BY <2>1, <2>2 DEF Orders
<1>2. \A x \in S : earlier(x) = Preceding(S, Upwards, x)
  <2>1. \A x, y \in S : y < x <=> <<y, x>> \in Upwards
    BY DEF Upwards
  <2> QED
    BY <2>1 DEF Preceding
<1>3. Indexes(S) = [i \in D |-> pick(i)]
  BY DEF Indexes, Ranked
<1> HIDE DEF earlier
<1>4. \A i \in D : pick(i) \in S /\ Cardinality(earlier(pick(i))) = i - 1
  <2> TAKE i \in D
  <2>2. \E x \in S : Rank(S, Upwards, x) = i - 1
    BY <1>1, RankIsTaken
  <2>3. \E x \in S : Cardinality(earlier(x)) = i - 1
    BY ONLY <1>2, <2>2 DEF Rank
  <2> QED
    BY <2>3
<1> HIDE DEF pick, D
<1>5. \A i \in D : Rank(S, Upwards, pick(i)) = i - 1
  BY <1>2, <1>4 DEF Rank
<1>6. Enumerates(Indexes(S), S, Upwards)
  BY <1>3, <1>4, <1>5 DEF Enumerates, D
<1>7. Indexes(S) \in Seq(S) /\ Len(Indexes(S)) = Cardinality(S) /\ DOMAIN Indexes(S) = 1..Cardinality(S)
  <2>1. Indexes(S) \in Seq(S) /\ Len(Indexes(S)) = Cardinality(S)
    BY <1>1, <1>6, EnumerationIs
  <2> QED
    BY <2>1
<1> QED
  BY <1>1, <1>6, <1>7, EnumerationIs

-----------------------------------------------------------------------------
(* The rows of a call, before and after the selection is in order.         *)

Rows == [ref : Resources, sources : SUBSET Sources, rank : Nat, captured : Captures \cup {None}]
Chosen == [ref : Resources, sources : SUBSET Sources, rank : Nat \cup {None},
           captured : Captures \cup {None}, path : Locations \cup {None}]

\* A path is the smallest that may be shown.
LEMMA PathIs ==
  ASSUME NEW row, row.sources \in SUBSET Sources, NEW f
  PROVE  /\ PathOf(row, f) \in (Locations \cap Safe) \cup {None}
         /\ PathOf(row, f) = None <=> PathsOf(row.sources, f) = {}
<1> DEFINE paths == PathsOf(row.sources, f)
           keys == {PathKey[p] : p \in paths}
<1>1. paths \subseteq Locations \cap Safe
  BY DEF PathsOf, EligibleIn, Sources
<1>2. None \notin Locations
  BY ReadsAssumption
<1>3. CASE paths = {}
  BY <1>3 DEF PathOf
<1>4. CASE paths # {}
  <2>1. keys \in SUBSET Nat /\ keys # {}
    BY <1>1, <1>4, QueryAssumption
  <2> HIDE DEF paths
  <2>2. \E p \in paths : \A o \in paths : PathKey[p] <= PathKey[o]
    <3>1. PICK m \in keys : \A y \in keys : m <= y
      <4> HIDE DEF keys
      <4> QED BY <2>1, LeastExists
    <3>2. PICK p \in paths : m = PathKey[p]
      OBVIOUS
    <3> QED
      BY <3>1, <3>2
  <2>3. PathOf(row, f) = CHOOSE p \in paths : \A o \in paths : PathKey[p] <= PathKey[o]
    BY <1>4 DEF PathOf, paths
  <2>4. PathOf(row, f) \in paths
    BY <2>2, <2>3
  <2> QED
    BY <1>1, <1>2, <1>4, <2>4 DEF paths
<1> QED
  BY <1>3, <1>4

LEMMA CandidateIs ==
  ASSUME NEW row \in Rows
  PROVE  /\ Candidate(row) \in Chosen
         /\ Candidate(row).ref = row.ref /\ Candidate(row).sources = row.sources
         /\ Candidate(row).captured = row.captured
         /\ Candidate(row).rank = IF query.primary = "metadata_text" THEN MatchRank(row) ELSE row.rank
         /\ Candidate(row).path = ShownPath(row, Candidate(row).rank)
         /\ Candidate(row).path \in Safe \cup {None}
<1> DEFINE mentioned == [sources |-> {s \in row.sources : s.location \in Mentions}]
           rank == IF query.primary = "metadata_text" THEN MatchRank(row) ELSE row.rank
<1>1. row.sources \in SUBSET Sources /\ row.rank \in Nat
  BY DEF Rows
<1>2. mentioned.sources \in SUBSET Sources
  BY <1>1
<1>3. rank \in Nat \cup {None}
  BY <1>1 DEF MatchRank
<1> HIDE DEF mentioned, rank
<1>4. /\ PathOf(row, query.filters) \in (Locations \cap Safe) \cup {None}
      /\ PathOf(mentioned, query.filters) \in (Locations \cap Safe) \cup {None}
  BY <1>1, <1>2, PathIs
<1>5. ShownPath(row, rank) \in (Locations \cap Safe) \cup {None}
  BY <1>4 DEF ShownPath, mentioned
<1> DEFINE path == ShownPath(row, rank)
<1>6. Candidate(row) = [ref |-> row.ref, sources |-> row.sources, rank |-> rank,
                        captured |-> row.captured, path |-> path]
  BY DEF Candidate, rank
<1> HIDE DEF path
<1>7. path \in (Locations \cap Safe) \cup {None}
  BY <1>5 DEF path
<1> QED
  BY <1>3, <1>6, <1>7 DEF Rows, Chosen, rank, path

\* What tells the rows of a call apart: the Resource, or the place among the Provider's hits.
Apart(rows) ==
    \A i, j \in DOMAIN rows :
        IF query.primary = "provider_semantic" THEN rows[i].rank = rows[j].rank => i = j
                                               ELSE rows[i].ref = rows[j].ref => i = j

Shown(row) == WithSignal(Candidate(row))
KeptAt(rows) == {i \in DOMAIN rows : Kept(Candidate(rows[i]))}
Selection(rows) == {Shown(rows[i]) : i \in KeptAt(rows)}
RowOrder == {p \in Chosen \X Chosen : Precedes(p[1], p[2])}

\* A row that is kept has what the selection is ordered by.
LEMMA ShownIs ==
  ASSUME assets \in [Resources -> Assets], IsQuery(query),
         NEW row \in Rows, Kept(Candidate(row)), ~Unprojectable(row)
  PROVE  /\ Shown(row) \in Chosen
         /\ Shown(row).ref = row.ref
         /\ Shown(row).rank = Candidate(row).rank /\ Shown(row).path = Candidate(row).path
         /\ query.sort = "captured" => Shown(row).captured \in Nat
         /\ query.sort = "path" => PathKey[Shown(row).path] \in Nat
         /\ query.sort = "relevance" => Shown(row).rank \in Nat
         /\ query.primary = "provider_semantic" => Shown(row).rank = row.rank
<1> DEFINE c == Candidate(row)
           d == Shown(row)
           captured == assets[c.ref].captured
<1>1. c \in Chosen /\ c.ref = row.ref /\ c.path \in Safe \cup {None}
      /\ c.rank = IF query.primary = "metadata_text" THEN MatchRank(row) ELSE row.rank
  BY CandidateIs
<1> HIDE DEF c
<1>2. row.ref \in Resources /\ row.rank \in Nat
  BY DEF Rows
<1>3. captured \in Captures \cup {None} /\ captured \in Nat \cup {None}
  BY <1>1, <1>2, ReadsAssumption DEF Assets
<1>4. d = IF NeedsSignals(query) THEN [c EXCEPT !.captured = captured] ELSE c
  BY DEF Shown, WithSignal, c
<1>5. Kept(c)
  BY DEF c
<1> HIDE DEF captured, d
<1>6. d \in Chosen /\ d.ref = c.ref /\ d.rank = c.rank /\ d.path = c.path
      /\ (NeedsSignals(query) => d.captured = captured)
  BY <1>1, <1>3, <1>4 DEF Chosen
<1>7. ASSUME query.sort = "captured" PROVE d.captured \in Nat
  <2>1. NeedsSignals(query) /\ captured # None
    BY <1>5, <1>7 DEF NeedsSignals, Kept, SignalsMatch, captured
  <2> QED
    BY <1>3, <1>6, <2>1
<1>8. ASSUME query.sort = "path" PROVE PathKey[d.path] \in Nat
  <2>1. c.path # None
    BY <1>5, <1>8 DEF Kept
  <2> QED
    BY <1>1, <1>6, <2>1, QueryAssumption
<1>9. ASSUME query.sort = "relevance" PROVE d.rank \in Nat
  <2>1. c.rank \in Nat \cup {None}
    BY <1>1 DEF Chosen
  <2>2. query.primary = "metadata_text" => MatchRank(row) # None
    BY DEF Unprojectable
  <2> QED
    BY <1>1, <1>2, <1>6, <2>1, <2>2
<1> QED
  BY <1>1, <1>6, <1>7, <1>8, <1>9 DEF c, d

LEMMA RowsOrdered ==
  ASSUME assets \in [Resources -> Assets], IsQuery(query),
         NEW rows \in Seq(Rows), Apart(rows), \A i \in DOMAIN rows : ~Unprojectable(rows[i])
  PROVE  Orders(Selection(rows), RowOrder)
<1> DEFINE S == Selection(rows)
           K == KeptAt(rows)
<1>1. \A i \in K : i \in DOMAIN rows /\ rows[i] \in Rows /\ Kept(Candidate(rows[i]))
  BY DEF KeptAt
<1>2. \A i \in K :
        LET d == Shown(rows[i])
        IN  /\ d \in Chosen /\ d.ref = rows[i].ref
            /\ query.sort = "captured" => d.captured \in Nat
            /\ query.sort = "path" => PathKey[d.path] \in Nat
            /\ query.sort = "relevance" => d.rank \in Nat
            /\ query.primary = "provider_semantic" => d.rank = rows[i].rank
  BY <1>1, ShownIs
<1>3. IsFiniteSet(S)
  <2> DEFINE f == [i \in K |-> Shown(rows[i])]
  <2>1. f \in Surjection(K, S)
    BY DEF Surjection, Selection
  <2>2. IsFiniteSet(K)
    <3> DEFINE D == 1..Len(rows)
    <3>1. IsFiniteSet(D) /\ K \in SUBSET D
      BY <1>1, FS_Interval
    <3> HIDE DEF D, K
    <3> QED BY <3>1, FS_Subset
  <2> HIDE DEF f, K, S
  <2> QED
    BY <2>1, <2>2, FS_Surjection
<1>4. \A x \in S :
        /\ x \in Chosen /\ x.ref \in Nat /\ Created[x.ref] \in Nat
        /\ query.sort = "captured" => x.captured \in Nat
        /\ query.sort = "path" => PathKey[x.path] \in Nat
        /\ query.sort = "relevance" => x.rank \in Nat
  <2> TAKE x \in S
  <2>1. PICK i \in K : x = Shown(rows[i])
    BY DEF Selection
  <2>2. x.ref \in Resources
    BY <1>2, <2>1 DEF Chosen
  <2> QED
    BY <1>2, <2>1, <2>2, ReadsAssumption
<1>5. \A x, y \in S : /\ query.primary # "provider_semantic" /\ x.ref = y.ref => x = y
                      /\ query.primary = "provider_semantic" /\ x.rank = y.rank => x = y
  <2> TAKE x, y \in S
  <2>1. PICK i \in K : x = Shown(rows[i])
    BY DEF Selection
  <2>2. PICK j \in K : y = Shown(rows[j])
    BY DEF Selection
  <2>3. IF query.primary = "provider_semantic" THEN rows[i].rank = rows[j].rank => i = j
                                               ELSE rows[i].ref = rows[j].ref => i = j
    BY <1>1 DEF Apart
  <2> QED
    BY <1>2, <2>1, <2>2, <2>3
<1>6. query.sort \in {"observed", "captured", "path", "relevance"}
      /\ (query.primary = "provider_semantic" => query.sort = "relevance")
  BY DEF IsQuery, AllowedSorts, Paged
<1> HIDE DEF S, K
<1>7. /\ \A x \in S : ~Precedes(x, x)
      /\ \A x, y \in S : x # y => Precedes(x, y) \/ Precedes(y, x)
      /\ \A x, y, z \in S : Precedes(x, y) /\ Precedes(y, z) => Precedes(x, z)
  <2>1. CASE query.sort = "observed"
    BY <1>4, <1>5, <1>6, <2>1 DEF Precedes, Newer
  <2>2. CASE query.sort = "captured"
    BY <1>4, <1>5, <1>6, <2>2 DEF Precedes
  <2>3. CASE query.sort = "path"
    BY <1>4, <1>5, <1>6, <2>3 DEF Precedes
  <2>4. CASE query.sort = "relevance"
    BY <1>4, <1>5, <1>6, <2>4 DEF Precedes, Newer
  <2> QED
    BY <1>6, <2>1, <2>2, <2>3, <2>4
<1>8. \A x, y \in S : <<x, y>> \in RowOrder <=> Precedes(x, y)
  BY <1>4 DEF RowOrder
<1> QED
  BY <1>3, <1>7, <1>8 DEF Orders, S

-----------------------------------------------------------------------------
(* The byte bound takes a prefix of the page.                              *)

LEMMA NoBytes == Bytes(<<>>) = 0
<1> DEFINE f == [s \in SUBSET {} |-> 0]
           D == DOMAIN <<>>
           op(r, sum) == Size[r] + sum
           fn == CHOOSE g : g = [s \in SUBSET D |->
                    IF s = {} THEN 0
                    ELSE op(<<>>[CHOOSE x \in s : TRUE], g[s \ {CHOOSE x \in s : TRUE}])]
<1>1. D = {}
  OBVIOUS
<1>2. \A s \in SUBSET D : s = {}
  BY <1>1
<1>3. f = [s \in SUBSET D |->
            IF s = {} THEN 0
            ELSE op(<<>>[CHOOSE x \in s : TRUE], f[s \ {CHOOSE x \in s : TRUE}])]
  BY <1>1, <1>2
<1>4. fn = [s \in SUBSET D |->
            IF s = {} THEN 0
            ELSE op(<<>>[CHOOSE x \in s : TRUE], fn[s \ {CHOOSE x \in s : TRUE}])]
  BY <1>3
<1>5. fn[{}] = 0
  BY <1>1, <1>4
<1>6. Bytes(<<>>) = fn[D]
  BY DEF Bytes, FoldSeq, FoldFunction, FoldFunctionOnSet, MapThenFoldSet
<1> QED
  BY <1>1, <1>5, <1>6

LEMMA FittingIs ==
  ASSUME NEW S, NEW refs \in Seq(S)
  PROVE  \E n \in 0..Len(refs) : Fitting(refs) = SubSeq(refs, 1, n)
<1> DEFINE fits == {n \in 0..Len(refs) : Bytes(SubSeq(refs, 1, n)) <= MaxBytes}
           n == CHOOSE k \in fits : \A m \in fits : m <= k
<1>1. Len(refs) \in Nat /\ fits \in SUBSET (0..Len(refs))
  OBVIOUS
<1>2. SubSeq(refs, 1, 0) = <<>>
  OBVIOUS
<1>3. 0 \in fits
  <2>1. Bytes(SubSeq(refs, 1, 0)) = 0 /\ MaxBytes \in Nat
    BY <1>2, NoBytes, QueryAssumption
  <2> QED
    BY <1>1, <2>1
<1>4. Fitting(refs) = SubSeq(refs, 1, n)
  BY DEF Fitting
<1> HIDE DEF fits
<1>5. \E k \in fits : \A m \in fits : m <= k
  BY <1>1, <1>3, GreatestExists
<1>6. n \in fits
  BY <1>5
<1> QED
  BY <1>1, <1>4, <1>6

-----------------------------------------------------------------------------
(* What the calls of a chain would select as long as nothing they read     *)
(* changes.                                                                *)

Order == IF query.primary = "metadata_text" THEN "title" ELSE "newest"
Everything == Primary(query, snapshot)
Matching == Cardinality(Everything)
All == InOrder(Everything, Order)
Scanned == [i \in 1..Least(query.scan, Matching) |-> Row(All[i], 0)]
Settled ==
    LET rows == Candidates(Scanned)
    IN  <<Least(query.scan, Matching), Matching > query.scan, FALSE,
          [i \in DOMAIN rows |-> DigestKey(rows[i])]>>

\* Nothing of a Resource the snapshot could show is another.
SameRead == UNCHANGED <<query, snapshot>> /\ \A r \in Resources : Created[r] < snapshot => assets'[r] = assets[r]

LEMMA CandidatesSame ==
  ASSUME NEW rows, UNCHANGED <<query, snapshot>>,
         \A row \in Range(rows) : assets'[row.ref] = assets[row.ref]
  PROVE  Candidates(rows)' = Candidates(rows)
<1> DEFINE all == {Candidate(row) : row \in Range(rows)}
           kept == {row \in all : Kept(row)}
           signed == {WithSignal(row) : row \in kept}
<1>1. \A row : Candidate(row)' = Candidate(row)
  BY DEF Candidate, ShownPath, MatchRank
<1>2. \A row \in Range(rows) : Candidate(row).ref = row.ref
  BY DEF Candidate
<1>3. all' = all /\ \A c \in all : assets'[c.ref] = assets[c.ref]
  BY <1>1, <1>2
<1> HIDE DEF all
<1>4. \A c \in all : Kept(c)' <=> Kept(c)
  BY <1>3 DEF Kept
<1>5. kept' = kept
  BY <1>3, <1>4
<1>6. \A c \in all : WithSignal(c)' = WithSignal(c)
  BY <1>3 DEF WithSignal
<1>7. signed' = signed
  BY <1>5, <1>6
<1>8. \A a, b : Precedes(a, b)' <=> Precedes(a, b)
  BY DEF Precedes
<1> HIDE DEF signed
<1> DEFINE earlier(x) == {y \in signed : Precedes(y, x)}
           pick(i) == CHOOSE x \in signed : Cardinality(earlier(x)) = i - 1
<1>9. Candidates(rows) = [i \in 1..Cardinality(signed) |-> pick(i)]
  BY DEF Candidates, Ranked, all, signed
<1>10. \A x : earlier(x)' = earlier(x)
  BY <1>7, <1>8
<1> HIDE DEF earlier
<1>11. \A i : pick(i)' = pick(i)
  BY <1>7, <1>10
<1>12. Candidates(rows)' = [i \in 1..Cardinality(signed) |-> pick(i)]'
  BY DEF Candidates, Ranked, all, signed, earlier
<1> HIDE DEF pick
<1> QED
  BY <1>7, <1>9, <1>11, <1>12

LEMMA EverythingIs ==
  ASSUME query.primary \in Paged
  PROVE  /\ Everything \in SUBSET Resources
         /\ \A r \in Everything : Created[r] < snapshot
         /\ Matching \in Nat /\ All \in Seq(Everything) /\ Len(All) = Matching
         /\ \A i \in 1..Matching : All[i] \in Everything
<1>1. Everything \in SUBSET Resources /\ \A r \in Everything : Created[r] < snapshot
  BY DEF Everything, Primary, Paged, Listed, Searched, Visible
<1>2. Matching \in Nat /\ All \in Seq(Everything) /\ Len(All) = Matching
  BY <1>1, InOrderIs, ResourcesOrdered, EnumerationIs DEF All, Matching
<1>3. \A i \in 1..Matching : All[i] \in Everything
  <2> HIDE DEF Everything, All, Matching
  <2> QED
    BY <1>2
<1> QED
  BY <1>1, <1>2, <1>3

LEMMA SettledStays ==
  ASSUME query.primary \in Paged, IsQuery(query), SameRead
  PROVE  /\ Everything' = Everything /\ Matching' = Matching /\ All' = All
         /\ \A i \in 1..Matching : Row(All[i], 0)' = Row(All[i], 0)
         /\ Scanned' = Scanned /\ Settled' = Settled
<1>1. query' = query /\ snapshot' = snapshot
  BY DEF SameRead
<1>2. \A f, since : \A r \in Resources : Visible(r, f, since, snapshot)' <=> Visible(r, f, since, snapshot)
  BY DEF SameRead, Visible, ActiveSourceExists
<1>3. \A f, since : Listed(f, since, snapshot)' = Listed(f, since, snapshot)
  BY <1>2 DEF Listed
<1>4. \A f, since : Searched(f, since, snapshot)' = Searched(f, since, snapshot)
  <2> TAKE f, since
  <2>1. \A r \in Listed(f, since, snapshot) : assets'[r] = assets[r]
    BY DEF SameRead, Listed, Visible
  <2> QED
    BY <1>3, <2>1 DEF Searched
<1>5. Everything' = Everything
  BY <1>1, <1>3, <1>4 DEF Everything, Primary, Paged
<1>6. Order' = Order
  BY <1>1 DEF Order
<1>7. Matching' = Matching
  BY <1>5 DEF Matching
<1>8. All' = All
  BY <1>5, <1>6 DEF All
<1>9. \A i \in 1..Matching :
          assets'[All[i]] = assets[All[i]] /\ Row(All[i], 0)' = Row(All[i], 0)
  <2> TAKE i \in 1..Matching
  <2>1. All[i] \in Resources /\ Created[All[i]] < snapshot
    BY EverythingIs
  <2>2. assets'[All[i]] = assets[All[i]]
    BY <2>1 DEF SameRead
  <2> QED
    BY <1>8, <2>2 DEF Row, Summary
<1> DEFINE k == Least(query.scan, Matching)
           rows == Candidates(Scanned)
<1>10. k \in 0..Matching /\ k' = k
  BY <1>1, <1>7, EverythingIs DEF IsQuery, Least
<1>11. Scanned' = Scanned /\ \A row \in Range(Scanned) : assets'[row.ref] = assets[row.ref]
  <2>1. Scanned = [i \in 1..k |-> Row(All[i], 0)] /\ Scanned' = [i \in 1..k' |-> Row(All[i], 0)']
    BY DEF Scanned, k
  <2>2. \A i \in 1..k : Row(All[i], 0).ref = All[i]
    BY DEF Row
  <2>3. \A i \in 1..k : i \in 1..Matching
    BY <1>10, EverythingIs
  <2> QED
    BY <1>9, <1>10, <2>1, <2>2, <2>3 DEF Range
<1>12. rows' = rows
  <2>1. PICK seen : seen = Scanned
    OBVIOUS
  <2>2. \A row \in Range(seen) : assets'[row.ref] = assets[row.ref]
    BY <1>11, <2>1
  <2>3. Candidates(seen)' = Candidates(seen)
    BY <1>1, <2>2, CandidatesSame
  <2>4. Candidates(Scanned)' = Candidates(seen)'
    BY <1>11, <2>1 DEF Candidates
  <2> QED
    BY <2>1, <2>3, <2>4
<1>13. Settled = <<k, Matching > query.scan, FALSE, [i \in DOMAIN rows |-> DigestKey(rows[i])]>>
       /\ Settled' = <<k', Matching' > query'.scan, FALSE,
                       [i \in DOMAIN rows' |-> DigestKey(rows[i])']>>
  BY DEF Settled, k
<1>14. \A i : DigestKey(rows[i])' = DigestKey(rows[i])
  BY <1>1, <1>12 DEF DigestKey
<1> QED
  BY <1>1, <1>5, <1>7, <1>8, <1>9, <1>10, <1>11, <1>12, <1>13, <1>14

-----------------------------------------------------------------------------
(* What the variables of a call hold.                                      *)

QueryTypes ==
    /\ assets \in [Resources -> Assets]
    /\ IsQuery(query)
    /\ pc \in {"client", "select", "load", "refine", "answer", "reply", "over"}
    /\ ids \in IF query.primary = "provider_semantic" THEN Seq(Locators) ELSE Seq(Resources)
    /\ position \in Resources \cup {None} /\ timedOut \in BOOLEAN
    /\ pc \in {"select", "load", "refine", "answer"} => found \in Seq(Rows)
    /\ pc = "refine" => query.primary \notin Paged
    /\ pc \in {"select", "load"} /\ query.primary \in Paged => Len(found) < query.scan

LEMMA RowIs ==
  ASSUME assets \in [Resources -> Assets], NEW r \in Resources, NEW n \in Nat
  PROVE  Row(r, n) \in Rows /\ Row(r, n).ref = r /\ Row(r, n).rank = n
<1>1. assets[r].sources \in SUBSET Sources
  BY DEF Assets
<1> QED
  BY <1>1 DEF Row, Summary, Rows

LEMMA PageSizeIs ==
  ASSUME QueryTypes, pc \in {"select", "load"}, query.primary \in Paged
  PROVE  /\ Len(found) \in Nat /\ PageSize \in Nat \ {0} /\ Len(found) + PageSize <= query.scan
         /\ query.scan \in Nat
  BY QueryAssumption DEF QueryTypes, PageSize, IsQuery

\* A page is what its statement finds behind the position.
LEMMA ReadPageIs ==
  ASSUME QueryTypes, ReadPage
  PROVE  LET behind == {r \in Everything : position # None => Before(Order, position, r)}
         IN  behind \in SUBSET Resources /\ ids' = FirstOf(behind, Order, PageSize + 1)
<1> DEFINE behind == {r \in Everything : position # None => Before(Order, position, r)}
<1>1. query.primary \in Paged
  BY DEF ReadPage
<1>2. behind \in SUBSET Resources
  BY <1>1, EverythingIs
<1>3. CASE query.primary = "metadata_text"
  <2>1. Everything = Searched(query.filters, Since(query, snapshot), snapshot) /\ Order = "title"
    BY <1>3 DEF Everything, Primary, Order
  <2>2. \A r : Before(Order, position, r) <=> Alphabetic(position, r)
    BY <2>1 DEF Before
  <2>3. behind = {r \in Searched(query.filters, Since(query, snapshot), snapshot) :
                     position # None => Alphabetic(position, r)}
    BY <2>1, <2>2
  <2>4. ids' = TextPage(Since(query, snapshot))
    BY <1>3 DEF ReadPage
  <2> HIDE DEF behind
  <2> QED
    BY <1>2, <2>1, <2>3, <2>4 DEF TextPage, SearchPage, behind
<1>4. CASE query.primary \in {"recent", "path_tree"}
  <2>1. Everything = Listed(query.filters, Since(query, snapshot), snapshot) /\ Order = "newest"
    BY <1>4 DEF Everything, Primary, Order
  <2>2. \A r : Before(Order, position, r) <=> Newer(position, r)
    BY <2>1 DEF Before
  <2>3. behind = {r \in Listed(query.filters, Since(query, snapshot), snapshot) :
                     position # None => Newer(position, r)}
    BY <2>1, <2>2
  <2>4. ids' = RecentPage(Since(query, snapshot))
    BY <1>4 DEF ReadPage
  <2> HIDE DEF behind
  <2> QED
    BY <1>2, <2>1, <2>3, <2>4 DEF RecentPage, ListPage, behind
<1> QED
  BY <1>1, <1>2, <1>3, <1>4 DEF Paged

LEMMA LoadPageIs ==
  ASSUME QueryTypes, LoadPage
  PROVE  LET n == Least(Len(ids), PageSize)
         IN  /\ ids \in Seq(Resources) /\ n \in 0..Len(ids)
             /\ found' \in Seq(Rows) /\ Len(found') = Len(found) + n
             /\ \A i \in 1..Len(found) : found'[i] = found[i]
             /\ \A j \in 1..n : found'[Len(found) + j] = Row(ids[j], 0)
             /\ more' = (Len(ids) > PageSize)
             /\ more' => n = PageSize
             /\ position' = IF more' THEN ids[n] ELSE None
<1> DEFINE n == Least(Len(ids), PageSize)
           page == SubSeq(ids, 1, IF Len(ids) < PageSize THEN Len(ids) ELSE PageSize)
           rows == [i \in DOMAIN page |-> Row(page[i], 0)]
<1>1. ids \in Seq(Resources) /\ found \in Seq(Rows) /\ PageSize \in Nat \ {0}
  BY PageSizeIs DEF QueryTypes, LoadPage, Paged
<1>2. n \in 0..Len(ids) /\ Len(ids) \in Nat /\ (Len(ids) > PageSize => n = PageSize)
      /\ n = IF Len(ids) < PageSize THEN Len(ids) ELSE PageSize
  BY <1>1 DEF Least
<1> HIDE DEF n
<1>3. page \in Seq(Resources) /\ Len(page) = n /\ \A j \in 1..n : page[j] = ids[j]
  <2>1. page = SubSeq(ids, 1, n)
    BY <1>2
  <2> HIDE DEF page
  <2>2. 1 \in 1..(Len(ids) + 1) /\ 1 <= n + 1 /\ n - 1 + 1 = n /\ \A j \in 1..n : 1 + j - 1 = j
    BY <1>2
  <2> QED
    BY <1>1, <1>2, <2>1, <2>2, SubSeqIs
<1> HIDE DEF page
<1>4. rows \in Seq(Rows) /\ Len(rows) = n /\ \A j \in 1..n : rows[j] = Row(ids[j], 0)
  <2>1. DOMAIN page = 1..n
    BY <1>3
  <2>2. \A j \in 1..n : Row(page[j], 0) \in Rows
    BY <1>3, RowIs DEF QueryTypes
  <2> QED
    BY <1>2, <1>3, <2>1, <2>2
<1>5. found' = found \o rows /\ more' = (Len(ids) > PageSize) /\ position' = Cursor(page, more')
  BY DEF LoadPage, page
<1> HIDE DEF rows
<1>6. /\ found' \in Seq(Rows) /\ Len(found') = Len(found) + n
      /\ \A i \in 1..Len(found) : found'[i] = found[i]
      /\ \A j \in 1..n : found'[Len(found) + j] = Row(ids[j], 0)
  BY <1>1, <1>4, <1>5, ConcatIs
<1>7. position' = IF more' THEN ids[n] ELSE None
  <2>1. CASE more'
    <3>0. Len(ids) > PageSize
      BY <1>5, <2>1
    <3>1. n \in 1..n
      BY <1>1, <1>2, <3>0
    <3> QED
      BY <1>3, <1>5, <2>1, <3>1 DEF Cursor, Last
  <2>2. CASE ~more'
    BY <1>5, <2>2 DEF Cursor
  <2> QED
    BY <2>1, <2>2
<1> QED
  BY <1>1, <1>2, <1>5, <1>6, <1>7 DEF n

\* A prefix, as long as the sequence has elements.
LEMMA PrefixIs ==
  ASSUME NEW S, NEW s \in Seq(S), NEW k \in Nat
  PROVE  LET head == SubSeq(s, 1, IF Len(s) < k THEN Len(s) ELSE k)
             n == Least(Len(s), k)
         IN  /\ head \in Seq(S) /\ Len(head) = n /\ n \in 0..Len(s)
             /\ \A j \in 1..n : head[j] = s[j]
<1> DEFINE n == Least(Len(s), k)
<1>1. n \in 0..Len(s) /\ Len(s) \in Nat /\ n = IF Len(s) < k THEN Len(s) ELSE k
  BY DEF Least
<1> HIDE DEF n
<1>2. 1 \in 1..(Len(s) + 1) /\ 1 <= n + 1 /\ n - 1 + 1 = n /\ \A j \in 1..n : 1 + j - 1 = j
  BY <1>1
<1>3. SubSeq(s, 1, n) \in Seq(S) /\ Len(SubSeq(s, 1, n)) = n /\ \A j \in 1..n : SubSeq(s, 1, n)[j] = s[j]
  BY <1>1, <1>2, SubSeqIs
<1> QED
  BY <1>1, <1>3 DEF n

LEMMA ReadPrimaryTypes ==
  ASSUME QueryTypes, ReadPrimary
  PROVE  ids' \in IF query.primary = "provider_semantic" THEN Seq(Locators) ELSE Seq(Resources)
<1> DEFINE k == CandidateLimit
<1>1. k \in Nat
  BY QueryAssumption DEF QueryTypes, IsQuery, CandidateLimit
<1>2. Observed \in SUBSET Resources
  BY DEF Observed
<1>3. CASE query.primary = "observation_text"
  <2>1. ids' = FirstOf(Observed, "title", k)
    BY <1>3 DEF ReadPrimary, ObservationText
  <2> HIDE DEF k
  <2>2. FirstOf(Observed, "title", k) \in Seq(Observed)
    BY <1>1, <1>2, FirstOfIs
  <2> QED
    BY <1>2, <1>3, <2>1, <2>2
<1>4. CASE query.primary = "person_label"
  <2>1. ids' = FirstOf(Observed, "newest", k)
    BY <1>4 DEF ReadPrimary, PersonLabel
  <2> HIDE DEF k
  <2>2. FirstOf(Observed, "newest", k) \in Seq(Observed)
    BY <1>1, <1>2, FirstOfIs
  <2> QED
    BY <1>2, <1>4, <2>1, <2>2
<1>5. CASE query.primary = "provider_semantic"
  <2>1. ids' = SubSeq(Ranking, 1, IF Len(Ranking) < k THEN Len(Ranking) ELSE k)
    BY <1>5 DEF ReadPrimary
  <2> HIDE DEF k
  <2>2. SubSeq(Ranking, 1, IF Len(Ranking) < k THEN Len(Ranking) ELSE k) \in Seq(Locators)
    BY <1>1, PrefixIs, ReadsAssumption
  <2> QED
    BY <1>5, <2>1, <2>2
<1> QED
  BY <1>3, <1>4, <1>5 DEF QueryTypes, IsQuery, ReadPrimary

LEMMA MapHitsIs ==
  ASSUME QueryTypes, MapHits, pc' = "refine"
  PROVE  LET known == Indexes({i \in DOMAIN ids : Mapped(ids[i]) # {}})
         IN  /\ ids \in Seq(Locators) /\ known \in Seq(DOMAIN ids)
             /\ \A k \in 1..Len(known) : Mapped(ids[known[k]]) # {}
             /\ \A i \in DOMAIN ids : \A m, n \in Mapped(ids[i]) : m = n
             /\ found' \in Seq(Rows) /\ Len(found') = Len(known)
             /\ \A k \in 1..Len(known) :
                    /\ found'[k].rank = known[k]
                    /\ found'[k].sources = Summary(found'[k].ref).sources
                    /\ \E m \in Mapped(ids[known[k]]) : found'[k].ref = m[1]
<1> DEFINE T == {i \in DOMAIN ids : Mapped(ids[i]) # {}}
           known == Indexes(T)
           resource(i) == (CHOOSE m \in Mapped(ids[i]) : TRUE)[1]
<1>1. ids \in Seq(Locators) /\ Len(ids) \in Nat /\ DOMAIN ids = 1..Len(ids)
  BY DEF QueryTypes, MapHits
<1>2. ~\E i \in DOMAIN ids : \E m, n \in Mapped(ids[i]) : m # n
  BY DEF MapHits, Fail
<1>3. found' = [k \in DOMAIN known |-> Row(resource(known[k]), known[k])]
  BY <1>2 DEF MapHits
<1>4. \A i \in T : i \in Nat \ {0} /\ \E m \in Mapped(ids[i]) : resource(i) = m[1] /\ m[1] \in Resources
  <2> TAKE i \in T
  <2>1. i \in Nat \ {0}
    BY <1>1
  <2>2. \A m \in Mapped(ids[i]) : m[1] \in Resources
    BY DEF Mapped
  <2>3. PICK hit : hit = CHOOSE m \in Mapped(ids[i]) : TRUE
    OBVIOUS
  <2>4. hit \in Mapped(ids[i]) /\ resource(i) = hit[1]
    BY <2>3
  <2> HIDE DEF T, resource
  <2> QED
    BY <2>1, <2>2, <2>4
<1>5. T \in SUBSET (1..Len(ids))
  BY <1>1
<1> HIDE DEF T, resource
<1>6. known \in Seq(T) /\ Len(known) = Cardinality(T)
  BY <1>1, <1>5, IndexesIs
<1> HIDE DEF known
<1>7. \A k \in 1..Len(known) : known[k] \in T
  BY <1>6
<1>8. DOMAIN known = 1..Len(known) /\ Len(known) \in Nat
  BY <1>6
<1>9. \A k \in 1..Len(known) :
         LET row == Row(resource(known[k]), known[k])
         IN  /\ row \in Rows /\ row.rank = known[k] /\ row.ref = resource(known[k])
             /\ row.sources = Summary(row.ref).sources
  <2> TAKE k \in 1..Len(known)
  <2>1. resource(known[k]) \in Resources /\ known[k] \in Nat
    BY <1>4, <1>7
  <2> QED
    BY <2>1, RowIs DEF QueryTypes, Row
<1>10. found' \in Seq(Rows) /\ Len(found') = Len(known)
  BY <1>3, <1>8, <1>9
<1>11. \A k \in 1..Len(known) :
           /\ Mapped(ids[known[k]]) # {}
           /\ found'[k].rank = known[k]
           /\ found'[k].sources = Summary(found'[k].ref).sources
           /\ \E m \in Mapped(ids[known[k]]) : found'[k].ref = m[1]
  BY <1>3, <1>4, <1>7, <1>8, <1>9 DEF T
<1>12. known \in Seq(DOMAIN ids)
  <2> DEFINE D == DOMAIN ids
  <2>1. T \subseteq D
    BY DEF T
  <2> HIDE DEF D
  <2>2. known \in Seq(D)
    BY <1>6, <2>1
  <2> QED
    BY <2>2 DEF D
<1> QED
  BY <1>1, <1>2, <1>10, <1>11, <1>12 DEF known, T

LEMMA LoadCandidatesIs ==
  ASSUME QueryTypes, LoadCandidates
  PROVE  /\ ids \in Seq(Resources) /\ found' \in Seq(Rows) /\ Len(found') = Len(ids)
         /\ \A i \in 1..Len(ids) : found'[i] = Row(ids[i], i)
<1>1. ids \in Seq(Resources) /\ Len(ids) \in Nat /\ DOMAIN ids = 1..Len(ids)
  BY DEF QueryTypes, LoadCandidates
<1>2. found' = [i \in 1..Len(ids) |-> Row(ids[i], i)]
  BY <1>1 DEF LoadCandidates
<1>3. \A i \in 1..Len(ids) : Row(ids[i], i) \in Rows
  BY <1>1, RowIs DEF QueryTypes
<1> QED
  BY <1>1, <1>2, <1>3

\* What a rich selection keeps of a row.
Keeps(row) ==
    /\ query.filters # AnySource => ActiveSourceExists(row.ref, query.filters)
    /\ SignalsMatch(query, assets[row.ref].captured)
Signed(row) ==
    [row EXCEPT !.captured = IF NeedsSignals(query) THEN assets[row.ref].captured ELSE None]

LEMMA SignedIs ==
  ASSUME assets \in [Resources -> Assets], NEW row \in Rows
  PROVE  /\ Signed(row) \in Rows /\ Signed(row).ref = row.ref /\ Signed(row).rank = row.rank
         /\ Signed(row).sources = row.sources
<1> DEFINE captured == IF NeedsSignals(query) THEN assets[row.ref].captured ELSE None
<1>1. captured \in Captures \cup {None}
  BY DEF Rows, Assets
<1>2. Signed(row) = [row EXCEPT !.captured = captured]
  BY DEF Signed
<1> HIDE DEF captured
<1> QED
  BY <1>1, <1>2 DEF Rows

LEMMA RefineIs ==
  ASSUME QueryTypes, Refine
  PROVE  LET kept == Indexes({i \in DOMAIN found : Keeps(found[i])})
         IN  /\ found \in Seq(Rows) /\ found' \in Seq(Rows) /\ Len(found') = Len(kept)
             /\ kept \in Seq({i \in DOMAIN found : Keeps(found[i])})
             /\ \A i, j \in DOMAIN kept : kept[i] = kept[j] => i = j
             /\ \A i \in DOMAIN found : Keeps(found[i]) => \E k \in DOMAIN kept : kept[k] = i
             /\ \A k \in 1..Len(kept) : found'[k] = Signed(found[kept[k]])
<1> DEFINE T == {i \in DOMAIN found : Keeps(found[i])}
           kept == Indexes(T)
<1>1. found \in Seq(Rows) /\ Len(found) \in Nat /\ DOMAIN found = 1..Len(found)
  <2>1. pc = "refine"
    BY DEF Refine
  <2>2. found \in Seq(Rows)
    BY <2>1 DEF QueryTypes
  <2> QED
    BY <2>2
<1>2. found' = [i \in DOMAIN kept |-> Signed(found[kept[i]])]
  BY DEF Refine, Keeps, Signed, Signal
<1>3. T \in SUBSET (1..Len(found)) /\ \A i \in T : found[i] \in Rows
  BY <1>1
<1>4. \A i \in DOMAIN found : Keeps(found[i]) => i \in T
  OBVIOUS
<1> HIDE DEF T
<1>5. /\ kept \in Seq(T) /\ Len(kept) = Cardinality(T)
      /\ \A i, j \in DOMAIN kept : kept[i] = kept[j] => i = j
      /\ \A x \in T : \E i \in DOMAIN kept : kept[i] = x
  BY <1>1, <1>3, IndexesIs
<1> HIDE DEF kept
<1>6. DOMAIN kept = 1..Len(kept) /\ Len(kept) \in Nat /\ \A k \in 1..Len(kept) : kept[k] \in T
  BY <1>5
<1>7. \A k \in 1..Len(kept) : Signed(found[kept[k]]) \in Rows
  BY <1>3, <1>6, SignedIs DEF QueryTypes
<1>8. found' \in Seq(Rows) /\ Len(found') = Len(kept)
      /\ \A k \in 1..Len(kept) : found'[k] = Signed(found[kept[k]])
  BY <1>2, <1>6, <1>7
<1> QED
  BY <1>1, <1>4, <1>5, <1>8 DEF T, kept

LEMMA SelectionIs ==
  ASSUME NEW rows \in Seq(Rows)
  PROVE  /\ IsFiniteSet(Selection(rows))
         /\ DOMAIN Candidates(rows) = 1..Len(Candidates(rows)) /\ Len(Candidates(rows)) \in Nat
<1> DEFINE S == Selection(rows)
           K == KeptAt(rows)
           C == Candidates(rows)
           n == Cardinality(S)
<1>1. IsFiniteSet(S)
  <2> DEFINE f == [i \in K |-> Shown(rows[i])]
  <2>1. f \in Surjection(K, S)
    BY DEF Surjection, Selection
  <2>2. IsFiniteSet(K)
    <3> DEFINE D == 1..Len(rows)
    <3>1. IsFiniteSet(D) /\ K \in SUBSET D
      BY FS_Interval DEF KeptAt
    <3> HIDE DEF D, K
    <3> QED BY <3>1, FS_Subset
  <2> HIDE DEF f, K, S
  <2> QED
    BY <2>1, <2>2, FS_Surjection
<1> DEFINE signed == {WithSignal(row) : row \in {c \in {Candidate(row) : row \in Range(rows)} : Kept(c)}}
<1>2. signed = S
  BY DEF Selection, KeptAt, Shown, Range
<1>3. DOMAIN C = 1..Cardinality(signed)
  BY DEF Candidates, Ranked
<1> HIDE DEF S, C, signed
<1>4. n \in Nat
  BY <1>1, FS_CardinalityType
<1>5. DOMAIN C = 1..n
  BY <1>2, <1>3
<1>6. Len(C) = n
  BY <1>4, <1>5
<1> HIDE DEF n
<1>7. DOMAIN C = 1..Len(C) /\ Len(C) \in Nat
  BY <1>4, <1>5, <1>6
<1> QED
  BY <1>1, <1>7 DEF S, C

LEMMA ChangeTypes ==
  ASSUME QueryTypes, NEW r \in Resources, NEW asset \in Assets, Change(r, asset)
  PROVE  QueryTypes'
<1>1. assets' \in [Resources -> Assets]
  BY DEF QueryTypes, Change
<1>2. UNCHANGED <<query, pc, ids, found, position, timedOut>>
  BY DEF Change, scanVars
<1> QED
  BY <1>1, <1>2 DEF QueryTypes

\* The changes of the world, one at a time.
LEMMA ChangesAre ==
  ASSUME QueryTypes, NEW r \in Resources,
         \/ CommitAsset(r)
         \/ \E s \in assets[r].sources, active \in BOOLEAN, location \in Locations :
                SyncSource(r, s, active, location)
         \/ \E said \in BOOLEAN, captured \in Captures \cup {None} : Restate(r, said, captured)
  PROVE  \E asset \in Assets : Change(r, asset)
<1>1. assets[r] \in Assets
  BY DEF QueryTypes
<1>2. CASE CommitAsset(r)
  <2>1. [assets[r] EXCEPT !.stored = TRUE] \in Assets
    BY <1>1 DEF Assets
  <2> QED
    BY <1>2, <2>1 DEF CommitAsset
<1>3. ASSUME NEW s \in assets[r].sources, NEW active \in BOOLEAN, NEW location \in Locations,
             SyncSource(r, s, active, location)
      PROVE  \E asset \in Assets : Change(r, asset)
  <2> DEFINE moved == [s EXCEPT !.active = active, !.location = location]
             asset == [assets[r] EXCEPT !.sources = (@ \ {s}) \cup {moved}]
  <2>1. moved \in Sources
    BY <1>1 DEF Assets, Sources
  <2> HIDE DEF moved
  <2>2. asset \in Assets
    BY <1>1, <2>1 DEF Assets
  <2>3. Change(r, asset)
    BY <1>3 DEF SyncSource, moved
  <2> QED
    BY <2>2, <2>3
<1>4. ASSUME NEW said \in BOOLEAN, NEW captured \in Captures \cup {None}, Restate(r, said, captured)
      PROVE  \E asset \in Assets : Change(r, asset)
  <2>1. [assets[r] EXCEPT !.said = said, !.captured = captured] \in Assets
    BY <1>1 DEF Assets
  <2> QED
    BY <1>4, <2>1 DEF Restate
<1> QED
  BY <1>2, <1>3, <1>4

LEMMA TypesInit ==
  ASSUME NEW c, IsQuery(c[1]), c[2] \in [Resources -> Assets], InitQuery(c[1], c[2], "client")
  PROVE  QueryTypes
<1>1. /\ assets = c[2] /\ query = c[1] /\ pc = "client" /\ ids = <<>> /\ position = None
      /\ timedOut \in BOOLEAN
  BY DEF InitQuery
<1> QED
  BY <1>1 DEF QueryTypes

LEMMA TypesNext ==
  ASSUME QueryTypes, [QueryNext]_queryVars
  PROVE  QueryTypes'
<1>1. CASE UNCHANGED queryVars
  BY <1>1 DEF queryVars, QueryTypes
<1>2. ASSUME NEW r \in Resources,
             \/ CommitAsset(r)
             \/ \E s \in assets[r].sources, active \in BOOLEAN, location \in Locations :
                    SyncSource(r, s, active, location)
             \/ \E said \in BOOLEAN, captured \in Captures \cup {None} : Restate(r, said, captured)
      PROVE  QueryTypes'
  BY <1>2, ChangesAre, ChangeTypes
<1>3. CASE Tick
  BY <1>3 DEF Tick, QueryTypes, scanVars
<1>4. CASE Ask
  <2>1. /\ UNCHANGED <<assets, query>> /\ pc' = "select" /\ ids' = <<>> /\ found' = <<>>
        /\ position' = None /\ timedOut' \in BOOLEAN
    BY <1>4 DEF Ask
  <2> QED
    BY <2>1 DEF QueryTypes, IsQuery
<1>5. CASE TimeOut
  <2>1. UNCHANGED <<assets, query, ids, found, position>> /\ timedOut' \in BOOLEAN /\ pc' = "answer" /\ pc \in {"select", "answer"}
    BY <1>5 DEF TimeOut
  <2> QED
    BY <2>1 DEF QueryTypes
<1>6. CASE ReadPage
  <2>1. UNCHANGED <<assets, query, found, position, timedOut>> /\ pc = "select" /\ pc' = "load"
        /\ query.primary \in Paged
    BY <1>6 DEF ReadPage, worldVars
  <2>2. ids' \in Seq(Resources)
    <3> DEFINE behind == {r \in Everything : position # None => Before(Order, position, r)}
    <3>1. behind \in SUBSET Resources /\ ids' = FirstOf(behind, Order, PageSize + 1)
      BY <1>6, ReadPageIs
    <3> HIDE DEF behind
    <3>2. PageSize + 1 \in Nat
      BY <2>1, PageSizeIs
    <3>3. FirstOf(behind, Order, PageSize + 1) \in Seq(behind)
      BY <3>1, <3>2, FirstOfIs
    <3> QED
      BY <3>1, <3>3
  <2>3. query.primary # "provider_semantic"
    BY <2>1 DEF Paged
  <2> QED
    BY <2>1, <2>2, <2>3 DEF QueryTypes
<1>7. CASE LoadPage
  <2>1. UNCHANGED <<assets, query, timedOut>> /\ pc = "load" /\ query.primary \in Paged /\ ids' = <<>>
        /\ pc' = IF more' /\ Len(found') < query.scan THEN "select" ELSE "answer"
    BY <1>7 DEF LoadPage, worldVars
  <2> DEFINE n == Least(Len(ids), PageSize)
  <2>2. /\ ids \in Seq(Resources) /\ n \in 0..Len(ids) /\ found' \in Seq(Rows)
        /\ position' = IF more' THEN ids[n] ELSE None
        /\ more' => n = PageSize
    BY <1>7, LoadPageIs
  <2> HIDE DEF n
  <2>3. position' \in Resources \cup {None}
    <3>1. PageSize \in Nat \ {0}
      BY <2>1, PageSizeIs
    <3> QED
      BY <2>2, <3>1
  <2> QED
    BY <2>1, <2>2, <2>3 DEF QueryTypes
<1>8. CASE ReadPrimary
  <2>1. UNCHANGED <<assets, query, found, position, timedOut>> /\ pc = "select" /\ pc' = "load"
        /\ query.primary \notin Paged
    BY <1>8 DEF ReadPrimary, worldVars
  <2> QED
    BY <1>8, <2>1, ReadPrimaryTypes DEF QueryTypes
<1>9. CASE MapHits
  <2>1. CASE pc' = "refine"
    <3>1. UNCHANGED <<assets, query, ids, position, timedOut>> /\ query.primary \notin Paged
      BY <1>9, <2>1 DEF MapHits, Fail, worldVars, Paged
    <3>2. found' \in Seq(Rows)
      BY <1>9, <2>1, MapHitsIs
    <3> QED
      BY <2>1, <3>1, <3>2 DEF QueryTypes
  <2>2. CASE pc' # "refine"
    <3>1. UNCHANGED <<assets, query, ids, position, timedOut>> /\ pc' = "over"
      BY <1>9, <2>2 DEF MapHits, Fail, worldVars, scanVars
    <3> QED
      BY <3>1 DEF QueryTypes
  <2> QED
    BY <2>1, <2>2
<1>10. CASE LoadCandidates
  <2>1. UNCHANGED <<assets, query, ids, position, timedOut>> /\ pc' = "refine" /\ query.primary \notin Paged
    BY <1>10 DEF LoadCandidates, worldVars, Paged
  <2> QED
    BY <1>10, <2>1, LoadCandidatesIs DEF QueryTypes
<1>11. CASE Refine
  <2>1. UNCHANGED <<assets, query, ids, position, timedOut>> /\ pc' = "answer"
    BY <1>11 DEF Refine, worldVars
  <2> QED
    BY <1>11, <2>1, RefineIs DEF QueryTypes
<1>12. CASE Select
  <2>1. UNCHANGED <<assets, query, ids, position, timedOut>> /\ pc' = "reply"
    BY <1>12 DEF Select, worldVars
  <2> QED
    BY <2>1 DEF QueryTypes
<1>13. CASE Answer
  <2>1. UNCHANGED <<assets, query>> /\ pc' \in {"client", "over"} /\ ids' = <<>> /\ position' = None
        /\ timedOut' \in BOOLEAN
    BY <1>13 DEF Answer, AnswerPage, Give, worldVars
  <2> QED
    BY <2>1 DEF QueryTypes
<1>14. CASE SelectionChanged \/ ProjectionError
  <2>1. UNCHANGED <<assets, query, ids, position, timedOut>> /\ pc' = "over"
    BY <1>14 DEF SelectionChanged, ProjectionError, Fail, worldVars, scanVars
  <2> QED
    BY <2>1 DEF QueryTypes
<1> QED
  BY <1>1, <1>2, <1>3, <1>4, <1>5, <1>6, <1>7, <1>8, <1>9, <1>10, <1>11, <1>12, <1>13, <1>14
     DEF QueryNext, Service

-----------------------------------------------------------------------------
(* The pages of a chain.                                                   *)

Calling == {"select", "load", "refine", "answer", "reply"}

\* The absent value is no digest.
NoneIsNoDigest == \A a, b, c, d : None # <<a, b, c, d>>

Continues ==
    /\ token.digest # None
    /\ token.snapshot = snapshot /\ token.offset = Len(delivered)
    /\ DOMAIN token.digest[4] = DOMAIN chosen
    /\ \A i \in DOMAIN chosen : token.digest[4][i].ref = chosen[i]

ChainInv ==
    /\ QueryTypes
    /\ pc = "reply" => DOMAIN found = 1..Len(found) /\ Len(found) \in Nat
    /\ chosen \in Seq(Range(chosen)) /\ Len(delivered) \in 0..Len(chosen)
    /\ delivered = SubSeq(chosen, 1, Len(delivered))
    /\ token = NoToken \/ Continues
    /\ token = NoToken /\ pc # "over" => delivered = <<>>
    /\ pc \in Calling => /\ expected = token.digest
                         /\ offset = IF token = NoToken THEN 0 ELSE token.offset

\* The steps between two answers leave the client alone.
LEMMA ClientWaits ==
  ASSUME ChainInv, QueryTypes', UNCHANGED <<token, delivered, chosen, snapshot>>,
         pc' = "reply" => DOMAIN found' = 1..Len(found') /\ Len(found') \in Nat,
         pc = "over" => pc' = "over",
         pc' \in Calling => pc \in Calling /\ UNCHANGED <<expected, offset>>
  PROVE  ChainInv'
  BY DEF ChainInv, Continues

LEMMA ClientFails ==
  ASSUME ChainInv, QueryTypes', token' = NoToken, pc' = "over", UNCHANGED <<delivered, chosen>>
  PROVE  ChainInv'
  BY DEF ChainInv, Calling

\* The client has what comes before the next position, of the selection of the first answer.
LEMMA AnswerGives ==
  ASSUME NoneIsNoDigest, ChainInv, Answer
  PROVE  LET R == [i \in 1..Len(found) |-> found[i].ref]
             next == offset + Len(Fitting(Page))
         IN  /\ Len(found) \in Nat /\ DOMAIN found = 1..Len(found)
             /\ R \in Seq(Range(R)) /\ Len(R) = Len(found)
             /\ chosen' = R /\ next \in 0..Len(found)
             /\ delivered' = SubSeq(R, 1, next) /\ Len(delivered') = next
<1> DEFINE L == Len(found)
           R == [i \in 1..L |-> found[i].ref]
           S == Range(R)
           end == IF offset + query.limit < L THEN offset + query.limit ELSE L
           kept == Fitting(Page)
           next == offset + Len(kept)
<1>1. pc = "reply" /\ SameSelection /\ L \in Nat /\ DOMAIN found = 1..L
  BY DEF Answer, ChainInv
<1>2. /\ expected = token.digest
      /\ offset = IF token = NoToken THEN 0 ELSE token.offset
      /\ token = NoToken => delivered = <<>>
      /\ token # NoToken => Continues
  BY <1>1 DEF ChainInv, Calling
<1>3. R \in Seq(S) /\ Len(R) = L /\ R = [i \in DOMAIN found |-> found[i].ref]
  BY <1>1 DEF Range
<1>4. token # NoToken => chosen = R
  <2>1. ASSUME token # NoToken PROVE chosen = R
    <3>1. expected # None
      BY <1>2, <2>1 DEF Continues
    <3>2. DigestOf(found) = token.digest
      BY <1>1, <1>2, <3>1 DEF SameSelection
    <3>3. token.digest[4] = [i \in DOMAIN found |-> DigestKey(found[i])]
      BY <3>2 DEF DigestOf
    <3>4. \A i \in DOMAIN found : token.digest[4][i].ref = found[i].ref
      BY <3>3 DEF DigestKey
    <3>5. DOMAIN chosen = 1..L /\ \A i \in 1..L : chosen[i] = R[i]
      BY <1>1, <1>2, <2>1, <3>3, <3>4 DEF Continues
    <3>6. chosen \in Seq(Range(chosen))
      BY DEF ChainInv
    <3> QED
      BY <1>1, <3>5, <3>6
  <2> QED
    BY <2>1
<1>5. chosen' = R
  <2>1. chosen' = IF expected = None THEN [i \in DOMAIN found |-> found[i].ref] ELSE chosen
    BY DEF Answer, AnswerPage, Give
  <2>2. token = NoToken => expected = None
    BY <1>2 DEF NoToken
  <2>3. token # NoToken => expected # None
    BY <1>2 DEF Continues
  <2> QED
    BY <1>3, <1>4, <2>1, <2>2, <2>3
<1>6. offset \in 0..L /\ Len(delivered) = offset /\ delivered = SubSeq(R, 1, offset)
  <2>1. CASE token = NoToken
    BY <1>1, <1>2, <2>1
  <2>2. CASE token # NoToken
    BY <1>2, <1>3, <1>4, <2>2 DEF Continues, ChainInv
  <2> QED
    BY <2>1, <2>2
<1>7. end \in offset..L
  BY <1>1, <1>6 DEF ChainInv, QueryTypes, IsQuery
<1>8. Page \in Seq(S) /\ Len(Page) = end - offset /\ \A i \in 1..(end - offset) : Page[i] = R[offset + i]
  <2>1. Page = [i \in 1..(end - offset) |-> found[offset + i].ref]
    BY DEF Page
  <2> HIDE DEF end
  <2>2. end - offset \in Nat /\ \A i \in 1..(end - offset) : offset + i \in 1..L
    BY <1>1, <1>6, <1>7
  <2>3. \A i \in 1..(end - offset) : found[offset + i].ref = R[offset + i] /\ R[offset + i] \in S
    BY <1>3, <2>2 DEF Range
  <2> DEFINE m == end - offset
  <2>4. m \in Nat /\ Page = [i \in 1..m |-> found[offset + i].ref]
        /\ \A i \in 1..m : found[offset + i].ref = R[offset + i] /\ R[offset + i] \in S
    BY <2>1, <2>2, <2>3
  <2> HIDE DEF m, R, S
  <2>5. Page \in Seq(S) /\ Len(Page) = m /\ \A i \in 1..m : Page[i] = R[offset + i]
    BY <2>4
  <2> QED
    BY <2>5 DEF m
<1> HIDE DEF end, S, R
<1>9. PICK n \in 0..Len(Page) : kept = SubSeq(Page, 1, n)
  BY <1>8, FittingIs
<1>10. kept \in Seq(S) /\ Len(kept) = n /\ \A i \in 1..n : kept[i] = R[offset + i]
  <2>1. 1 \in 1..(Len(Page) + 1) /\ 1 <= n + 1 /\ n - 1 + 1 = n /\ \A j \in 1..n : 1 + j - 1 = j
        /\ j \in 1..(end - offset)
    BY <1>7, <1>8, <1>9
  <2>2. SubSeq(Page, 1, n) \in Seq(S) /\ Len(SubSeq(Page, 1, n)) = n
        /\ \A j \in 1..n : SubSeq(Page, 1, n)[j] = Page[j]
    BY <1>8, <2>1, SubSeqIs
  <2> QED
    BY <1>8, <1>9, <2>1, <2>2
<1> HIDE DEF kept
<1>11. next \in 0..L /\ next = offset + n
  BY <1>1, <1>6, <1>7, <1>8, <1>9, <1>10
<1>12. delivered' = delivered \o kept
  BY DEF Answer, AnswerPage, Give, kept
<1>13. delivered' = SubSeq(R, 1, next) /\ Len(delivered') = next
  <2>1. /\ delivered \in Seq(S)
        /\ \A i \in 1..offset : delivered[i] = R[i]
    <3>1. 1 \in 1..(Len(R) + 1) /\ offset \in 0..Len(R) /\ 1 <= offset + 1 /\ offset - 1 + 1 = offset
          /\ \A j \in 1..offset : 1 + j - 1 = j
      BY <1>1, <1>3, <1>6
    <3>2. SubSeq(R, 1, offset) \in Seq(S) /\ \A j \in 1..offset : SubSeq(R, 1, offset)[j] = R[j]
      BY <1>3, <3>1, SubSeqIs
    <3> QED
      BY <1>6, <3>2
  <2>2. /\ delivered' \in Seq(S) /\ Len(delivered') = next
        /\ \A j \in 1..offset : delivered'[j] = R[j]
        /\ \A j \in 1..n : delivered'[offset + j] = R[offset + j]
    <3>1. /\ delivered \o kept \in Seq(S) /\ Len(delivered \o kept) = offset + n
          /\ \A j \in 1..offset : (delivered \o kept)[j] = delivered[j]
          /\ \A j \in 1..n : (delivered \o kept)[offset + j] = kept[j]
      <4>1. delivered \in Seq(S) /\ kept \in Seq(S) /\ Len(delivered) = offset /\ Len(kept) = n
        BY <1>6, <1>10, <2>1
      <4>2. delivered \o kept \in Seq(S) /\ Len(delivered \o kept) = offset + n
        BY <4>1, ConcatIs
      <4>3. \A j \in 1..offset : (delivered \o kept)[j] = delivered[j]
        BY <4>1, ConcatIs
      <4>4. \A j \in 1..n : (delivered \o kept)[offset + j] = kept[j]
        BY <4>1, ConcatIs
      <4> QED
        BY <4>2, <4>3, <4>4
    <3> QED
      BY <1>10, <1>11, <1>12, <2>1, <3>1
  <2>3. \A i \in 1..next : delivered'[i] = R[i]
    <3> TAKE i \in 1..next
    <3>1. i \in 1..offset \/ (i - offset \in 1..n /\ offset + (i - offset) = i)
      BY <1>6, <1>9, <1>11
    <3> QED
      BY <2>2, <3>1
  <2> HIDE DEF next
  <2>4. /\ SubSeq(R, 1, next) \in Seq(S) /\ Len(SubSeq(R, 1, next)) = next
        /\ \A j \in 1..next : SubSeq(R, 1, next)[j] = R[j]
    <3>1. 1 \in 1..(Len(R) + 1) /\ next \in 0..Len(R) /\ 1 <= next + 1 /\ next - 1 + 1 = next
          /\ \A j \in 1..next : 1 + j - 1 = j
      BY <1>1, <1>3, <1>11
    <3>2. SubSeq(R, 1, next) \in Seq(S)
      BY <1>3, <3>1, SubSeqIs
    <3>3. Len(SubSeq(R, 1, next)) = next
      BY <1>3, <3>1, SubSeqIs
    <3>4. \A j \in 1..next : SubSeq(R, 1, next)[j] = R[j]
      BY <1>3, <3>1, SubSeqIs
    <3> QED
      BY <3>2, <3>3, <3>4
  <2> QED
    BY <2>2, <2>3, <2>4
<1> QED
  BY <1>1, <1>3, <1>5, <1>11, <1>13 DEF kept, S, R

LEMMA AnswerKeepsChain ==
  ASSUME NoneIsNoDigest, ChainInv, QueryTypes', Answer
  PROVE  ChainInv'
<1> DEFINE L == Len(found)
           R == [i \in 1..L |-> found[i].ref]
           next == offset + Len(Fitting(Page))
<1>1. L \in Nat /\ DOMAIN found = 1..L
  BY AnswerGives
<1>2. R \in Seq(Range(R)) /\ Len(R) = L
  BY AnswerGives
<1>3. /\ chosen' = R /\ next \in 0..L
      /\ delivered' = SubSeq(R, 1, next) /\ Len(delivered') = next
  BY AnswerGives
<1> HIDE DEF R
<1>4. \/ token' = NoToken /\ pc' = "over"
      \/ token' = NextToken(DigestOf(found), next) /\ pc' = "client"
  BY DEF Answer, AnswerPage, Give
<1>5. UNCHANGED snapshot
  BY DEF Answer, callVars
<1>6. chosen' \in Seq(Range(chosen')) /\ Len(delivered') \in 0..Len(chosen')
      /\ delivered' = SubSeq(chosen', 1, Len(delivered'))
  BY <1>2, <1>3
<1>7. CASE token' = NextToken(DigestOf(found), next) /\ pc' = "client"
  <2> DEFINE D == DigestOf(found)
  <2>1. token'.digest = D /\ token'.snapshot = snapshot /\ token'.offset = next
    BY <1>7 DEF NextToken
  <2>2. D # None /\ D[4] = [i \in DOMAIN found |-> DigestKey(found[i])]
    BY DEF DigestOf, NoneIsNoDigest
  <2>3. token' # NoToken
    BY <2>1, <2>2 DEF NoToken
  <2>4. \A i \in DOMAIN found : D[4][i].ref = R[i]
    BY <1>1, <2>2 DEF DigestKey, R
  <2>5. DOMAIN D[4] = DOMAIN R
    BY <1>1, <2>2 DEF R
  <2> HIDE DEF D
  <2>6. Continues'
    BY <1>1, <1>2, <1>3, <1>5, <2>1, <2>2, <2>4, <2>5 DEF Continues
  <2> QED
    BY <1>6, <1>7, <2>3, <2>6 DEF ChainInv, Calling
<1> QED
  BY <1>4, <1>6, <1>7 DEF ChainInv, Calling

LEMMA ChainInit ==
  ASSUME NEW c, IsQuery(c[1]), c[2] \in [Resources -> Assets], InitQuery(c[1], c[2], "client")
  PROVE  ChainInv
<1>1. QueryTypes
  BY TypesInit
<1>2. token = NoToken /\ delivered = <<>> /\ chosen = <<>> /\ pc = "client"
  BY DEF InitQuery
<1>3. SubSeq(<<>>, 1, 0) = <<>> /\ <<>> \in Seq(Range(<<>>)) /\ Len(<<>>) = 0
  OBVIOUS
<1> QED
  BY <1>1, <1>2, <1>3 DEF ChainInv, Calling

LEMMA ChainNext ==
  ASSUME NoneIsNoDigest, ChainInv, [QueryNext]_queryVars
  PROVE  ChainInv'
<1>0. QueryTypes /\ QueryTypes'
  BY TypesNext DEF ChainInv
<1>1. CASE UNCHANGED queryVars
  <2>1. UNCHANGED <<token, delivered, chosen, snapshot, found, pc, expected, offset>>
    BY <1>1 DEF queryVars
  <2> QED
    BY <1>0, <2>1, ClientWaits DEF ChainInv
<1>2. ASSUME NEW r \in Resources,
             \/ CommitAsset(r)
             \/ \E s \in assets[r].sources, active \in BOOLEAN, location \in Locations :
                    SyncSource(r, s, active, location)
             \/ \E said \in BOOLEAN, captured \in Captures \cup {None} : Restate(r, said, captured)
      PROVE  ChainInv'
  <2>1. PICK asset \in Assets : Change(r, asset)
    BY <1>0, <1>2, ChangesAre
  <2>2. UNCHANGED <<token, delivered, chosen, snapshot, found, pc, expected, offset>>
    BY <2>1 DEF Change, callVars, scanVars, clientVars
  <2> QED
    BY <1>0, <2>2, ClientWaits DEF ChainInv
<1>3. CASE Tick
  <2>1. UNCHANGED <<token, delivered, chosen, snapshot, found, pc, expected, offset>>
    BY <1>3 DEF Tick, callVars, scanVars, clientVars
  <2> QED
    BY <1>0, <2>1, ClientWaits DEF ChainInv
<1>4. CASE Ask
  <2>1. /\ pc = "client" /\ pc' = "select" /\ UNCHANGED <<token, delivered, chosen>>
        /\ snapshot' = CallTime /\ expected' = token.digest
        /\ offset' = IF token = NoToken THEN 0 ELSE token.offset
    BY <1>4 DEF Ask, clientVars
  <2>2. token # NoToken => snapshot' = snapshot
    BY <2>1 DEF CallTime, ChainInv, Continues
  <2>3. token' = NoToken \/ Continues'
    BY <2>1, <2>2 DEF ChainInv, Continues
  <2> QED
    BY <1>0, <2>1, <2>3 DEF ChainInv, Calling
<1>5. CASE TimeOut \/ ReadPage \/ LoadPage \/ ReadPrimary \/ LoadCandidates \/ Refine
  <2>1. UNCHANGED <<token, delivered, chosen, snapshot, expected, offset>>
    BY <1>5 DEF TimeOut, ReadPage, LoadPage, ReadPrimary, LoadCandidates, Refine, clientVars, callVars
  <2>2. pc \in Calling /\ pc' \in Calling \ {"reply"}
    BY <1>5 DEF TimeOut, ReadPage, LoadPage, ReadPrimary, LoadCandidates, Refine, Calling
  <2>3. pc # "over" /\ pc' # "reply"
    BY <2>2 DEF Calling
  <2> QED
    BY <1>0, <2>1, <2>2, <2>3, ClientWaits
<1>6. CASE MapHits
  <2>1. CASE pc' = "refine"
    <3>1. UNCHANGED <<token, delivered, chosen, snapshot, expected, offset>> /\ pc = "load"
      BY <1>6, <2>1 DEF MapHits, Fail, clientVars, callVars
    <3> QED
      BY <1>0, <2>1, <3>1, ClientWaits DEF Calling
  <2>2. CASE pc' # "refine"
    <3>1. token' = NoToken /\ pc' = "over" /\ UNCHANGED <<delivered, chosen>>
      BY <1>6, <2>2 DEF MapHits, Fail
    <3> QED
      BY <1>0, <3>1, ClientFails
  <2> QED
    BY <2>1, <2>2
<1>7. CASE SelectionChanged \/ ProjectionError
  <2>1. token' = NoToken /\ pc' = "over" /\ UNCHANGED <<delivered, chosen>>
    BY <1>7 DEF SelectionChanged, ProjectionError, Fail
  <2> QED
    BY <1>0, <2>1, ClientFails
<1>8. CASE Select
  <2>1. UNCHANGED <<token, delivered, chosen, snapshot, expected, offset>>
        /\ pc = "answer" /\ pc' = "reply" /\ found' = Candidates(found)
    BY <1>8 DEF Select, clientVars, callVars
  <2>2. found \in Seq(Rows)
    BY <1>0, <2>1 DEF QueryTypes
  <2>3. DOMAIN found' = 1..Len(found') /\ Len(found') \in Nat
    BY <2>1, <2>2, SelectionIs
  <2> QED
    BY <1>0, <2>1, <2>3, ClientWaits DEF Calling
<1>9. CASE Answer
  BY <1>0, <1>9, AnswerKeepsChain
<1> QED
  BY <1>1, <1>2, <1>3, <1>4, <1>5, <1>6, <1>7, <1>8, <1>9 DEF QueryNext, Service

-----------------------------------------------------------------------------
(* A chain of which nothing that it reads changes.                         *)

\* What of all that is selected the pages of a call have brought so far.
Behind(n) == IF n = 0 THEN None ELSE All[n]

Quiet ==
    query.primary \in Paged /\ ~stirred =>
        /\ status # "changed"
        /\ token # NoToken => token.digest = Settled
        /\ pc \in Calling => ~timedOut
        /\ pc \in {"select", "load"} => /\ Len(found) <= Matching /\ position = Behind(Len(found))
                                        /\ \A i \in 1..Len(found) : found[i] = Row(All[i], 0)
        /\ pc = "load" => /\ Len(ids) = Least(PageSize + 1, Matching - Len(found))
                          /\ \A i \in 1..Len(ids) : ids[i] = All[Len(found) + i]
        /\ pc = "answer" => /\ found = Scanned /\ scanned = Least(query.scan, Matching)
                            /\ more = (Matching > query.scan)
        /\ pc = "reply" => DigestOf(found) = Settled

QuietInv ==
    /\ ChainInv
    /\ status = "changed" => pc = "over"
    /\ Quiet

LEMMA QuietStays ==
  ASSUME QuietInv, SameRead,
         UNCHANGED <<status, token, pc, timedOut, found, position, ids, scanned, more>>,
         ~stirred' => ~stirred
  PROVE  Quiet' /\ (status' = "changed" => pc' = "over")
<1>1. query' = query /\ snapshot' = snapshot /\ IsQuery(query)
  BY DEF SameRead, QuietInv, ChainInv, QueryTypes
<1>2. status' = "changed" => pc' = "over"
  BY DEF QuietInv
<1>3. ASSUME query.primary \in Paged, ~stirred PROVE Quiet'
  <2>1. /\ Matching' = Matching /\ All' = All /\ Settled' = Settled /\ Scanned' = Scanned
        /\ \A i \in 1..Matching : Row(All[i], 0)' = Row(All[i], 0)
    BY <1>1, <1>3, SettledStays
  <2>3. PageSize' = PageSize
    BY <1>1 DEF PageSize
  <2>4. DigestOf(found)' = DigestOf(found)
    BY <1>1 DEF DigestOf, DigestKey
  <2>5. pc \in {"select", "load"} => \A i \in 1..Len(found') : found'[i] = Row(All[i], 0)'
    <3>1. pc \in {"select", "load"} => /\ Len(found) \in Nat /\ Len(found) <= Matching /\ Matching \in Nat
                                      /\ \A i \in 1..Len(found) : found[i] = Row(All[i], 0)
      BY <1>3, PageSizeIs, EverythingIs DEF QuietInv, ChainInv, Quiet
    <3> QED
      BY <2>1, <3>1
  <2>6. Behind(Len(found))' = Behind(Len(found))
    BY <2>1 DEF Behind
  <2> QED
    BY <1>1, <1>3, <2>1, <2>3, <2>4, <2>5, <2>6 DEF QuietInv, Quiet
<1> QED
  BY <1>1, <1>2, <1>3 DEF Quiet

\* The rows behind the position are the rest of all there are.
LEMMA QuietReadPage ==
  ASSUME QuietInv, ReadPage
  PROVE  Quiet' /\ (status' = "changed" => pc' = "over")
<1> DEFINE L == Len(found)
           behind == {r \in Everything : position # None => Before(Order, position, r)}
           k == PageSize + 1
<1>1. /\ pc = "select" /\ pc' = "load" /\ query.primary \in Paged
      /\ UNCHANGED <<assets, query, snapshot, status, token, timedOut, found, position, scanned, more, stirred>>
  BY DEF ReadPage, worldVars, callVars, clientVars
<1>2. QueryTypes /\ QueryTypes'
  <2>1. QueryTypes
    BY DEF QuietInv, ChainInv
  <2> QED
    BY <2>1, TypesNext DEF QueryNext, Service
<1>3. status' # "changed"
  BY <1>1 DEF QuietInv
<1>4. L \in Nat /\ PageSize \in Nat /\ k \in Nat /\ behind \in SUBSET Resources /\ ids' = FirstOf(behind, Order, k)
  <2>1. L \in Nat /\ PageSize \in Nat
    BY <1>1, <1>2, PageSizeIs
  <2>2. behind \in SUBSET Resources /\ ids' = FirstOf(behind, Order, k)
    BY <1>2, ReadPageIs
  <2> QED
    BY <2>1, <2>2
<1>5. Matching \in Nat /\ Everything \in SUBSET Resources
  BY <1>1, EverythingIs
<1>6. ASSUME ~stirred
      PROVE  /\ Len(ids') = Least(k, Matching - L)
             /\ \A i \in 1..Len(ids') : ids'[i] = All[L + i]
  <2> DEFINE R == OrderOf(Order)
             rest == InOrder(behind, Order)
             m == Cardinality(behind)
  <2>1. L <= Matching /\ position = Behind(L)
    BY <1>1, <1>6 DEF QuietInv, Quiet
  <2>2. /\ Orders(Everything, R) /\ Enumerates(All, Everything, R)
        /\ Orders(behind, R) /\ Enumerates(rest, behind, R)
    BY <1>4, <1>5, ResourcesOrdered, InOrderIs DEF All
  <2>3. /\ m \in Nat /\ Len(ids') = Least(k, m) /\ Least(k, m) \in 0..m
        /\ \A i \in 1..Least(k, m) : ids'[i] = rest[i]
    <3> HIDE DEF k, behind
    <3> QED
      BY <1>4, FirstOfIs
  <2>4. m = Matching - L /\ \A i \in 1..m : rest[i] = All[L + i]
    <3>1. CASE L = 0
      <4>1. behind = Everything
        BY <2>1, <3>1 DEF Behind
      <4> HIDE DEF behind
      <4>2. rest = All /\ m = Matching
        BY <4>1 DEF All, Matching
      <4> QED
        BY <1>4, <1>5, <2>3, <3>1, <4>2
    <3>2. CASE L # 0
      <4>1. position = All[L] /\ L \in 1..Matching
        BY <1>4, <1>5, <2>1, <3>2 DEF Behind
      <4>2. All[L] \in Everything /\ position # None
        BY <1>1, <1>5, <4>1, EverythingIs, ReadsAssumption
      <4>3. behind = {x \in Everything : <<All[L], x>> \in R}
        BY <1>5, <4>1, <4>2 DEF OrderOf
      <4>4. L \in 1..Cardinality(Everything)
        BY <4>1 DEF Matching
      <4> HIDE DEF behind, R, rest, L
      <4>5. Cardinality(behind) = Cardinality(Everything) - L
        BY ONLY <2>2, <4>3, <4>4, RestIs
      <4>6. \A i \in 1..Cardinality(behind) : rest[i] = All[L + i]
        BY ONLY <2>2, <4>3, <4>4, RestIs
      <4> QED
        BY <4>5, <4>6 DEF Matching
    <3> QED
      BY <3>1, <3>2
  <2> HIDE DEF m, rest, behind
  <2> QED
    BY <2>3, <2>4
<1>7. PageSize' = PageSize
  BY <1>1 DEF PageSize
<1>8. SameRead
  BY <1>1 DEF SameRead
<1>9. ASSUME ~stirred PROVE Quiet'
  <2>1. IsQuery(query)
    BY <1>2 DEF QueryTypes
  <2>2. /\ Matching' = Matching /\ All' = All /\ Settled' = Settled
        /\ \A i \in 1..Matching : Row(All[i], 0)' = Row(All[i], 0)
    BY <1>1, <1>8, <2>1, SettledStays
  <2>3. /\ L <= Matching /\ position = Behind(L) /\ \A i \in 1..L : found[i] = Row(All[i], 0)
        /\ ~timedOut /\ (token # NoToken => token.digest = Settled)
    BY <1>1, <1>9 DEF QuietInv, Quiet, Calling
  <2>4. \A i \in 1..L : found[i] = Row(All[i], 0)'
    BY <1>4, <1>5, <2>2, <2>3
  <2>5. Behind(Len(found))' = Behind(L)
    BY <1>1, <2>2 DEF Behind
  <2>6. Len(ids') = Least(PageSize' + 1, Matching' - Len(found'))
        /\ \A i \in 1..Len(ids') : ids'[i] = All'[Len(found') + i]
    BY <1>1, <1>6, <1>7, <1>9, <2>2
  <2> HIDE DEF k
  <2> QED
    BY <1>1, <1>3, <2>2, <2>3, <2>4, <2>5, <2>6 DEF Quiet
<1> QED
  BY <1>1, <1>3, <1>9 DEF Quiet

LEMMA QuietLoadPage ==
  ASSUME QuietInv, LoadPage
  PROVE  Quiet' /\ (status' = "changed" => pc' = "over")
<1> DEFINE L == Len(found)
           n == Least(Len(ids), PageSize)
<1>1. /\ pc = "load" /\ query.primary \in Paged
      /\ UNCHANGED <<assets, query, snapshot, status, token, timedOut, stirred>>
      /\ scanned' = Len(found') /\ pc' = IF more' /\ Len(found') < query.scan THEN "select" ELSE "answer"
  BY DEF LoadPage, worldVars, callVars, clientVars
<1>2. QueryTypes /\ IsQuery(query)
  BY DEF QuietInv, ChainInv, QueryTypes
<1>3. status' # "changed"
  BY <1>1 DEF QuietInv
<1>4. L \in Nat /\ PageSize \in Nat \ {0} /\ L + PageSize <= query.scan /\ query.scan \in Nat
      /\ (PageSize = PageLimit \/ PageSize = query.scan - L)
  BY <1>1, <1>2, PageSizeIs DEF PageSize
<1>5. Matching \in Nat
  BY <1>1, EverythingIs
<1>6. /\ ids \in Seq(Resources) /\ n \in 0..Len(ids)
      /\ found' \in Seq(Rows) /\ Len(found') = L + n
      /\ \A i \in 1..L : found'[i] = found[i]
      /\ \A j \in 1..n : found'[L + j] = Row(ids[j], 0)
      /\ more' = (Len(ids) > PageSize)
      /\ more' => n = PageSize
      /\ position' = IF more' THEN ids[n] ELSE None
  BY <1>2, LoadPageIs
<1>7. SameRead
  BY <1>1 DEF SameRead
<1>8. ASSUME ~stirred PROVE Quiet'
  <2>1. /\ Matching' = Matching /\ All' = All /\ Settled' = Settled /\ Scanned' = Scanned
        /\ \A i \in 1..Matching : Row(All[i], 0)' = Row(All[i], 0)
    BY <1>1, <1>2, <1>7, SettledStays
  <2>2. /\ L <= Matching /\ \A i \in 1..L : found[i] = Row(All[i], 0)
        /\ Len(ids) = Least(PageSize + 1, Matching - L)
        /\ \A i \in 1..Len(ids) : ids[i] = All[L + i]
        /\ ~timedOut /\ (token # NoToken => token.digest = Settled)
    BY <1>1, <1>8 DEF QuietInv, Quiet, Calling
  <2>3. /\ n = Least(PageSize, Matching - L)
        /\ (Len(ids) > PageSize) <=> (Matching > L + PageSize)
        /\ L + n <= Matching /\ n \in Nat
    BY <1>4, <1>5, <2>2 DEF Least
  <2> HIDE DEF n
  <2>4. \A i \in 1..(L + n) : found'[i] = Row(All[i], 0)
    <3> TAKE i \in 1..(L + n)
    <3>1. i \in 1..L \/ (i - L \in 1..n /\ L + (i - L) = i)
      BY <1>4, <2>3
    <3>2. n <= Len(ids)
      BY <1>6
    <3>3. CASE i \in 1..L
      BY <1>6, <2>2, <3>3
    <3>4. CASE i - L \in 1..n /\ L + (i - L) = i
      <4>1. i - L \in 1..Len(ids)
        BY <1>6, <2>3, <3>2, <3>4
      <4> QED
        BY <1>6, <2>2, <3>4, <4>1
    <3> QED
      BY <3>1, <3>3, <3>4
  <2>5. \A i \in 1..Len(found') : found'[i] = Row(All[i], 0)'
    <3>1. \A i \in 1..(L + n) : i \in 1..Matching
      BY <1>4, <1>5, <2>3
    <3> QED
      BY <1>6, <2>1, <2>4, <3>1
  <2>6. ASSUME pc' = "select" PROVE position' = Behind(Len(found))' /\ Len(found') <= Matching'
    <3>1. more' /\ n = PageSize /\ n \in 1..Len(ids)
      BY <1>1, <1>4, <1>6, <2>6
    <3>2. position' = All[L + n]
      BY <1>6, <2>2, <3>1
    <3>3. L + n # 0
      BY <1>4, <3>1
    <3> QED
      BY <1>6, <2>1, <2>3, <3>2, <3>3 DEF Behind
  <2>7. ASSUME pc' = "answer"
        PROVE  /\ found' = Scanned' /\ scanned' = Least(query.scan, Matching)'
               /\ more' = (Matching' > query'.scan)
    <3>1. ~(Len(ids) > PageSize) \/ L + n >= query.scan
      <4>1. ~(more' /\ Len(found') < query.scan)
        BY <1>1, <2>7
      <4>2. more' <=> Len(ids) > PageSize
        BY <1>6
      <4> QED
        BY <1>4, <1>6, <2>3, <4>1, <4>2
    <3>2. L + n = Least(query.scan, Matching) /\ ((Len(ids) > PageSize) <=> (Matching > query.scan))
      BY <1>4, <1>5, <2>3, <3>1 DEF Least
    <3>3. found' = Scanned
      <4>1. Scanned = [i \in 1..(L + n) |-> Row(All[i], 0)]
        BY <3>2 DEF Scanned
      <4> QED
        BY <1>6, <2>4, <4>1
    <3>4. scanned' = Least(query.scan, Matching)'
      BY <1>1, <1>6, <2>1, <3>2
    <3>5. more' = (Matching > query.scan)
      BY <1>6, <3>2
    <3> QED
      BY <1>1, <2>1, <3>3, <3>4, <3>5
  <2>8. pc' \in {"select", "answer"}
    BY <1>1
  <2> QED
    BY <1>1, <1>3, <2>1, <2>2, <2>5, <2>6, <2>7, <2>8 DEF Quiet
<1> QED
  BY <1>1, <1>3, <1>8 DEF Quiet

\* The digest of a selection is the one of all that the chain would select.
LEMMA QuietSelect ==
  ASSUME QuietInv, Select
  PROVE  Quiet' /\ (status' = "changed" => pc' = "over")
<1>1. /\ pc = "answer" /\ pc' = "reply" /\ found' = Candidates(found)
      /\ UNCHANGED <<assets, query, snapshot, status, token, timedOut, scanned, more, stirred>>
  BY DEF Select, worldVars, callVars, clientVars
<1>2. IsQuery(query) /\ status' # "changed"
  BY <1>1 DEF QuietInv, ChainInv, QueryTypes
<1>3. SameRead
  BY <1>1 DEF SameRead
<1>4. ASSUME query.primary \in Paged, ~stirred PROVE Quiet'
  <2> DEFINE rows == Candidates(Scanned)
  <2>1. Settled' = Settled
    BY <1>2, <1>3, <1>4, SettledStays
  <2>2. /\ found = Scanned /\ scanned = Least(query.scan, Matching) /\ more = (Matching > query.scan)
        /\ ~timedOut /\ timedOut \in BOOLEAN /\ (token # NoToken => token.digest = Settled)
    BY <1>1, <1>4 DEF QuietInv, ChainInv, QueryTypes, Quiet, Calling
  <2>3. found' = rows
    BY <1>1, <2>2
  <2>4. Settled = <<Least(query.scan, Matching), Matching > query.scan, FALSE,
                    [i \in DOMAIN rows |-> DigestKey(rows[i])]>>
    BY DEF Settled
  <2> HIDE DEF rows
  <2>5. DigestOf(found)' = <<scanned', more', timedOut', [i \in DOMAIN found' |-> DigestKey(found'[i])]>>
    BY <1>1 DEF DigestOf, DigestKey
  <2>6. timedOut = FALSE
    BY <2>2
  <2>7. DigestOf(found)' = Settled
    BY <1>1, <2>2, <2>3, <2>4, <2>5, <2>6
  <2> QED
    BY <1>1, <1>2, <1>4, <2>1, <2>2, <2>7 DEF Quiet, Calling
<1> QED
  BY <1>1, <1>2, <1>4 DEF Quiet

LEMMA ReasonIs == PartialReason # "changed" /\ "serialized_byte_limit" # "changed"
<1>1. None # "changed"
  BY QueryAssumption
<1> QED
  BY <1>1 DEF PartialReason

LEMMA QuietAnswer ==
  ASSUME NoneIsNoDigest, QuietInv, Answer
  PROVE  Quiet' /\ (status' = "changed" => pc' = "over")
<1>1. /\ pc = "reply" /\ pc' \in {"client", "over"}
      /\ UNCHANGED <<assets, query, snapshot, stirred>>
      /\ token' = NoToken \/ token'.digest = DigestOf(found)
  BY DEF Answer, AnswerPage, Give, NextToken, worldVars, callVars
<1>2. status' # "changed"
  BY ReasonIs DEF Answer, AnswerPage, Give
<1>3. IsQuery(query) /\ SameRead
  BY <1>1 DEF QuietInv, ChainInv, QueryTypes, SameRead
<1>4. ASSUME query.primary \in Paged, ~stirred PROVE Quiet'
  <2>1. Settled' = Settled /\ DigestOf(found) = Settled
    BY <1>1, <1>3, <1>4, SettledStays DEF QuietInv, Quiet
  <2> QED
    BY <1>1, <1>2, <2>1 DEF Quiet, Calling
<1> QED
  BY <1>1, <1>2, <1>4 DEF Quiet

\* The first call of a chain begins with nothing, the others with what the first would select.
LEMMA QuietAsk ==
  ASSUME QuietInv, Ask
  PROVE  Quiet' /\ (status' = "changed" => pc' = "over")
<1>1. /\ pc = "client" /\ pc' = "select" /\ UNCHANGED <<assets, query, status, token>>
      /\ found' = <<>> /\ position' = None /\ timedOut' = FALSE
      /\ snapshot' = CallTime
      /\ token # NoToken => UNCHANGED stirred
  BY DEF Ask, clientVars
<1>2. IsQuery(query) /\ status' # "changed"
  BY <1>1 DEF QuietInv, ChainInv, QueryTypes
<1>3. ASSUME query.primary \in Paged PROVE Len(found') <= Matching' /\ position' = Behind(Len(found))'
  <2>1. Everything' \in SUBSET Resources
    BY <1>1, <1>3 DEF Everything, Primary, Paged, Listed, Searched
  <2>2. Matching' \in Nat
    BY <2>1, FS_Subset, FS_CardinalityType, ReadsAssumption DEF Matching
  <2> QED
    BY <1>1, <2>2 DEF Behind
<1>4. ASSUME query.primary \in Paged, ~stirred', token # NoToken PROVE token'.digest = Settled'
  <2>1. SameRead
    BY <1>1, <1>4 DEF SameRead, CallTime, QuietInv, ChainInv, Continues
  <2>2. Settled' = Settled
    BY <1>2, <1>4, <2>1, SettledStays
  <2> QED
    BY <1>1, <1>4, <2>2 DEF QuietInv, Quiet
<1> QED
  BY <1>1, <1>2, <1>3, <1>4 DEF Quiet

LEMMA QuietFails ==
  ASSUME QuietInv, Fail("ambiguous") \/ Fail("projection")
  PROVE  Quiet' /\ (status' = "changed" => pc' = "over")
<1>1. status' # "changed" /\ token' = NoToken /\ pc' = "over"
  BY DEF Fail
<1> QED
  BY <1>1 DEF Quiet, Calling

\* A quiet chain comes to the same selection in every call.
LEMMA QuietRefusal ==
  ASSUME QuietInv, SelectionChanged
  PROVE  Quiet' /\ (status' = "changed" => pc' = "over")
<1>1. /\ pc = "reply" /\ ~SameSelection /\ pc' = "over" /\ UNCHANGED <<query, stirred>>
  BY DEF SelectionChanged, Fail, worldVars
<1>2. ~(query.primary \in Paged /\ ~stirred)
  <2> SUFFICES ASSUME query.primary \in Paged, ~stirred PROVE FALSE
    OBVIOUS
  <2>1. DigestOf(found) = Settled /\ (token # NoToken => token.digest = Settled)
    BY <1>1 DEF QuietInv, Quiet
  <2>2. expected = token.digest
    BY <1>1 DEF QuietInv, ChainInv, Calling
  <2>3. token = NoToken => expected = None
    BY <2>2 DEF NoToken
  <2> QED
    BY <1>1, <2>1, <2>2, <2>3 DEF SameSelection
<1> QED
  BY <1>1, <1>2 DEF Quiet

LEMMA QuietNext ==
  ASSUME NoneIsNoDigest, QuietInv, [QueryNext]_queryVars
  PROVE  QuietInv'
<1>0. ChainInv /\ ChainInv' /\ QueryTypes
  BY ChainNext DEF QuietInv, ChainInv
<1> DEFINE Goal == Quiet' /\ (status' = "changed" => pc' = "over")
<1> SUFFICES Goal
  BY <1>0 DEF QuietInv
<1>1. CASE UNCHANGED queryVars
  <2>1. SameRead /\ UNCHANGED <<status, token, pc, timedOut, found, position, ids, scanned, more, stirred>>
    BY <1>1 DEF queryVars, SameRead
  <2> QED
    BY <2>1, QuietStays
<1>2. ASSUME NEW r \in Resources,
             \/ CommitAsset(r)
             \/ \E s \in assets[r].sources, active \in BOOLEAN, location \in Locations :
                    SyncSource(r, s, active, location)
             \/ \E said \in BOOLEAN, captured \in Captures \cup {None} : Restate(r, said, captured)
      PROVE  Goal
  <2>1. PICK asset \in Assets : Change(r, asset)
    BY <1>0, <1>2, ChangesAre
  <2>2. /\ UNCHANGED <<query, snapshot, status, token, pc, timedOut, found, position, ids, scanned, more>>
        /\ assets' = [assets EXCEPT ![r] = asset]
        /\ stirred' = (stirred \/ Created[r] < snapshot)
        /\ pc # "over"
    BY <2>1 DEF Change, callVars, scanVars, clientVars
  <2>3. CASE stirred'
    <3>1. status' # "changed"
      BY <2>2 DEF QuietInv
    <3> QED
      BY <2>3, <3>1 DEF Quiet
  <2>4. CASE ~stirred'
    <3>1. ~stirred /\ ~(Created[r] < snapshot)
      BY <2>2, <2>4
    <3>2. SameRead
      BY <1>0, <2>2, <3>1 DEF SameRead, QueryTypes
    <3> QED
      BY <2>2, <3>1, <3>2, QuietStays
  <2> QED
    BY <2>3, <2>4
<1>3. CASE Tick
  <2>1. SameRead /\ UNCHANGED <<status, token, pc, timedOut, found, position, ids, scanned, more, stirred>>
    BY <1>3 DEF Tick, SameRead, callVars, scanVars, clientVars
  <2> QED
    BY <2>1, QuietStays
<1>4. CASE Ask
  BY <1>4, QuietAsk
<1>5. CASE TimeOut
  <2>1. stirred' = TRUE /\ status' = status /\ pc # "over"
    BY <1>5 DEF TimeOut, clientVars
  <2> QED
    BY <2>1 DEF Quiet, QuietInv
<1>6. CASE ReadPage
  BY <1>6, QuietReadPage
<1>7. CASE LoadPage
  BY <1>7, QuietLoadPage
<1>8. CASE ReadPrimary \/ LoadCandidates \/ Refine
  <2>1. query' = query /\ query.primary \notin Paged /\ status' = status /\ pc # "over"
    BY <1>0, <1>8 DEF ReadPrimary, LoadCandidates, Refine, clientVars, QueryTypes, Paged
  <2> QED
    BY <2>1 DEF Quiet, QuietInv
<1>9. CASE MapHits
  <2>1. query' = query /\ query.primary \notin Paged
    BY <1>9 DEF MapHits, Fail, Paged
  <2>2. status' # "changed"
    BY <1>9 DEF MapHits, Fail, clientVars, QuietInv
  <2> QED
    BY <2>1, <2>2 DEF Quiet
<1>10. CASE ProjectionError
  BY <1>10, QuietFails DEF ProjectionError
<1>11. CASE Select
  BY <1>11, QuietSelect
<1>12. CASE Answer
  BY <1>12, QuietAnswer
<1>13. CASE SelectionChanged
  BY <1>13, QuietRefusal
<1> QED
  BY <1>1, <1>2, <1>3, <1>4, <1>5, <1>6, <1>7, <1>8, <1>9, <1>10, <1>11, <1>12, <1>13
     DEF QueryNext, Service

LEMMA QuietInit ==
  ASSUME NEW c, IsQuery(c[1]), c[2] \in [Resources -> Assets], InitQuery(c[1], c[2], "client")
  PROVE  QuietInv
<1>1. ChainInv
  BY ChainInit
<1>2. status = None /\ pc = "client" /\ token = NoToken /\ None # "changed"
  BY QueryAssumption DEF InitQuery
<1> QED
  BY <1>1, <1>2 DEF QuietInv, Quiet, Calling

\* PagesAreOneSelection, for every instance and every set of accepted queries: the pages of a
\* chain follow one another through the selection of the first answer, and a continuation over the
\* catalog (recent, metadata_text, path_tree) is refused only because something it reads changed.
THEOREM PagesFollowOneSelection ==
  ASSUME NoneIsNoDigest, NEW cases,
         \A c \in cases : IsQuery(c[1]) /\ c[2] \in [Resources -> Assets]
  PROVE  QuerySpec(cases) => []PagesAreOneSelection
<1>1. (\E c \in cases : InitQuery(c[1], c[2], "client")) => QuietInv
  BY QuietInit
<1>2. QuietInv /\ [QueryNext]_queryVars => QuietInv'
  BY QuietNext
<1>3. QuietInv => PagesAreOneSelection
  <2> SUFFICES ASSUME QuietInv PROVE PagesAreOneSelection
    OBVIOUS
  <2>1. chosen \in Seq(Range(chosen)) /\ Len(delivered) \in 0..Len(chosen)
        /\ delivered = SubSeq(chosen, 1, Len(delivered))
    BY DEF QuietInv, ChainInv
  <2>2. IsPrefix(delivered, chosen)
    <3> DEFINE n == Len(delivered)
               S == Range(chosen)
    <3>1. chosen \in Seq(S) /\ n \in 0..Len(chosen) /\ Len(chosen) \in Nat /\ n <= Len(chosen)
      BY <2>1
    <3>2. delivered = SubSeq(chosen, 1, n)
      BY <2>1
    <3> HIDE DEF S
    <3>3. delivered \in Seq(S)
      BY <3>1, <3>2
    <3>4. SubSeq(delivered, 1, n) = delivered
      BY <3>3
    <3> QED
      BY <3>1, <3>2, <3>4 DEF IsPrefix
  <2> QED
    BY <2>2 DEF PagesAreOneSelection, QuietInv, Quiet
<1> QED
  BY <1>1, <1>2, <1>3, PTL DEF QuerySpec

-----------------------------------------------------------------------------
(* The selection in order: every row that is kept, once.                   *)

LEMMA CandidatesAre ==
  ASSUME assets \in [Resources -> Assets], IsQuery(query),
         NEW rows \in Seq(Rows), Apart(rows), \A i \in DOMAIN rows : ~Unprojectable(rows[i])
  PROVE  LET C == Candidates(rows)
         IN  /\ \A k \in DOMAIN C : \E i \in KeptAt(rows) : C[k].ref = rows[i].ref
             /\ \A i \in KeptAt(rows) : \E k \in DOMAIN C : C[k].ref = rows[i].ref
             /\ query.primary # "provider_semantic" =>
                    \A j, k \in DOMAIN C : C[j].ref = C[k].ref => j = k
<1> DEFINE S == Selection(rows)
           C == Candidates(rows)
           signed == {WithSignal(row) : row \in {c \in {Candidate(row) : row \in Range(rows)} : Kept(c)}}
           D == 1..Cardinality(S)
           earlier(x) == {y \in S : Precedes(y, x)}
           pick(k) == CHOOSE x \in S : Cardinality(earlier(x)) = k - 1
<1>1. Orders(S, RowOrder)
  BY RowsOrdered
<1>2. \A i \in KeptAt(rows) : Shown(rows[i]) \in Chosen /\ Shown(rows[i]).ref = rows[i].ref
                              /\ i \in DOMAIN rows
  BY ShownIs DEF KeptAt
<1>3. signed = S
  BY DEF Selection, KeptAt, Shown, Range
<1>4. \A x \in S : x \in Chosen /\ \E i \in KeptAt(rows) : x = Shown(rows[i]) /\ x.ref = rows[i].ref
  BY <1>2 DEF Selection
<1>5. \A x \in S : earlier(x) = Preceding(S, RowOrder, x)
  BY <1>4 DEF Preceding, RowOrder
<1>6. C = [k \in 1..Cardinality(signed) |->
              CHOOSE x \in signed : Cardinality({y \in signed : Precedes(y, x)}) = k - 1]
  BY DEF Candidates, Ranked
<1> HIDE DEF signed
<1>7. C = [k \in D |-> pick(k)]
  BY <1>3, <1>6
<1> HIDE DEF earlier
<1>8. \A k \in D : pick(k) \in S /\ Cardinality(earlier(pick(k))) = k - 1
  <2> TAKE k \in D
  <2>1. \E x \in S : Rank(S, RowOrder, x) = k - 1
    BY <1>1, RankIsTaken
  <2>2. \E x \in S : Cardinality(earlier(x)) = k - 1
    BY ONLY <1>5, <2>1 DEF Rank
  <2> QED
    BY <2>2
<1> HIDE DEF pick, D
<1>9. \A k \in D : Rank(S, RowOrder, pick(k)) = k - 1
  BY <1>5, <1>8 DEF Rank
<1>10. Enumerates(C, S, RowOrder)
  BY <1>7, <1>8, <1>9 DEF Enumerates, D
<1>11. /\ \A j, k \in D : C[j] = C[k] => j = k
       /\ \A x \in S : \E k \in D : C[k] = x
  BY <1>1, <1>10, EnumerationIs DEF D
<1>12. DOMAIN C = D /\ \A k \in D : C[k] \in S
  BY <1>7, <1>8
<1>13. \A k \in DOMAIN C : \E i \in KeptAt(rows) : C[k].ref = rows[i].ref
  BY <1>4, <1>12
<1>14. \A i \in KeptAt(rows) : \E k \in DOMAIN C : C[k].ref = rows[i].ref
  BY <1>2, <1>11, <1>12 DEF Selection
<1>15. ASSUME query.primary # "provider_semantic", NEW j \in DOMAIN C, NEW k \in DOMAIN C,
              C[j].ref = C[k].ref
       PROVE  j = k
  <2>1. PICK i \in KeptAt(rows) : C[j] = Shown(rows[i]) /\ C[j].ref = rows[i].ref
    BY <1>4, <1>12
  <2>2. PICK h \in KeptAt(rows) : C[k] = Shown(rows[h]) /\ C[k].ref = rows[h].ref
    BY <1>4, <1>12
  <2>3. i = h
    BY <1>2, <1>15, <2>1, <2>2 DEF Apart
  <2> QED
    BY <1>11, <1>12, <2>1, <2>2, <2>3
<1> QED
  BY <1>13, <1>14, <1>15 DEF C

-----------------------------------------------------------------------------
(* What the query selects, and where a row of it comes from.               *)

HitBy(r, locator) ==
    assets[r].stored /\ \E s \in assets[r].sources :
                            s.active /\ s.provider = "immich" /\ s.locator = locator

Origin(r) ==
    IF query.primary = "provider_semantic" THEN \E i \in DOMAIN Ranking : HitBy(r, Ranking[i])
    ELSE IF query.primary \in Paged THEN r \in Everything
    ELSE r \in Observed

LEMMA MappedIs ==
  ASSUME NEW locator
  PROVE  /\ \A m \in Mapped(locator) : m[1] \in Resources /\ HitBy(m[1], locator)
         /\ \A r \in Resources : HitBy(r, locator) => \E m \in Mapped(locator) : m[1] = r
<1>1. ASSUME NEW m \in Mapped(locator) PROVE m[1] \in Resources /\ HitBy(m[1], locator)
  <2>1. PICK r \in Resources : m \in {r} \X assets[r].sources
    BY DEF Mapped
  <2>2. m[1] = r /\ m[2] \in assets[r].sources
    BY <2>1
  <2> QED
    BY <2>2 DEF Mapped, HitBy
<1>2. ASSUME NEW r \in Resources, HitBy(r, locator) PROVE \E m \in Mapped(locator) : m[1] = r
  <2>1. PICK s \in assets[r].sources : s.active /\ s.provider = "immich" /\ s.locator = locator
    BY <1>2 DEF HitBy
  <2> DEFINE m == <<r, s>>
  <2>2. m \in {r} \X assets[r].sources /\ m[1] = r /\ m[2] = s
    OBVIOUS
  <2> HIDE DEF m
  <2>3. m \in Mapped(locator)
    BY <1>2, <2>1, <2>2 DEF Mapped, HitBy
  <2> QED
    BY <2>2, <2>3
<1> QED
  BY <1>1, <1>2

Answers(r) ==
    /\ r \in Listed(query.filters, Since(query, snapshot), snapshot)
    /\ Origin(r)
    /\ SignalsMatch(query, assets[r].captured)
    /\ query.sort = "path" => PathOf(Summary(r), query.filters) # None

LEMMA SelectedIs ==
  IsQuery(query) => \A r : r \in Selected(query, snapshot) <=> Answers(r)
<1> SUFFICES ASSUME IsQuery(query) PROVE \A r : r \in Selected(query, snapshot) <=> Answers(r)
  OBVIOUS
<1> DEFINE L == Listed(query.filters, Since(query, snapshot), snapshot)
<1>1. \A r : r \in Primary(query, snapshot) <=> r \in L /\ Origin(r)
  <2>1. CASE query.primary \in {"recent", "path_tree"}
    BY <2>1 DEF Primary, Origin, Paged, Everything
  <2>2. CASE query.primary = "metadata_text"
    BY <2>2 DEF Primary, Origin, Paged, Everything, Searched
  <2>3. CASE query.primary \in {"observation_text", "person_label"}
    BY <2>3 DEF Primary, Origin, Paged
  <2>4. CASE query.primary = "provider_semantic"
    <3>1. Primary(query, snapshot) = {r \in L : \E i \in DOMAIN Ranking : \E m \in Mapped(Ranking[i]) : m[1] = r}
      BY <2>4 DEF Primary
    <3>2. \A r \in L : r \in Resources
      BY DEF Listed
    <3>3. \A r \in L : (\E i \in DOMAIN Ranking : \E m \in Mapped(Ranking[i]) : m[1] = r)
                       <=> (\E i \in DOMAIN Ranking : HitBy(r, Ranking[i]))
      BY <3>2, MappedIs
    <3> QED
      BY <2>4, <3>1, <3>3 DEF Origin
  <2> QED
    BY <2>1, <2>2, <2>3, <2>4 DEF IsQuery, Paged
<1> QED
  BY <1>1 DEF Selected, Answers

LEMMA ListedStays ==
  ASSUME SameRead
  PROVE  \A f, since : /\ Listed(f, since, snapshot)' = Listed(f, since, snapshot)
                       /\ Searched(f, since, snapshot)' = Searched(f, since, snapshot)
<1>1. snapshot' = snapshot
  BY DEF SameRead
<1>2. \A f, since : \A r \in Resources : Visible(r, f, since, snapshot)' <=> Visible(r, f, since, snapshot)
  BY DEF SameRead, Visible, ActiveSourceExists
<1>3. \A f, since : Listed(f, since, snapshot)' = Listed(f, since, snapshot)
  BY <1>2 DEF Listed
<1>4. \A f, since : Searched(f, since, snapshot)' = Searched(f, since, snapshot)
  <2> TAKE f, since
  <2>1. \A r \in Listed(f, since, snapshot) : assets'[r] = assets[r]
    BY DEF SameRead, Listed, Visible
  <2> QED
    BY <1>3, <2>1 DEF Searched
<1> QED
  BY <1>3, <1>4

LEMMA SelectedIsNext ==
  (IsQuery(query) => \A r : r \in Selected(query, snapshot) <=> Answers(r))'
BY SelectedIs, PTL

\* What the snapshot could show stays as it is.
LEMMA OriginStays ==
  ASSUME SameRead
  PROVE  /\ query.primary \in Paged => Everything' = Everything
         /\ \A r \in Resources : Created[r] < snapshot =>
                /\ Origin(r)' <=> Origin(r)
                /\ Summary(r)' = Summary(r)
                /\ r \in Observed' <=> r \in Observed
                /\ \A f : ActiveSourceExists(r, f)' <=> ActiveSourceExists(r, f)
<1>1. query' = query /\ snapshot' = snapshot
  BY DEF SameRead
<1>2. query.primary \in Paged => Everything' = Everything
  BY <1>1, ListedStays DEF Everything, Primary, Paged
<1>3. ASSUME NEW r \in Resources, Created[r] < snapshot
      PROVE  /\ Origin(r)' <=> Origin(r)
             /\ Summary(r)' = Summary(r)
             /\ r \in Observed' <=> r \in Observed
             /\ \A f : ActiveSourceExists(r, f)' <=> ActiveSourceExists(r, f)
  <2>1. assets'[r] = assets[r]
    BY <1>3 DEF SameRead
  <2>2. \A f : ActiveSourceExists(r, f)' <=> ActiveSourceExists(r, f)
    BY <2>1 DEF ActiveSourceExists
  <2>3. \A l : HitBy(r, l)' <=> HitBy(r, l)
    BY <2>1 DEF HitBy
  <2>4. Summary(r)' = Summary(r)
    BY <2>1 DEF Summary
  <2>5. r \in Observed' <=> r \in Observed
    BY <2>1, <2>2 DEF Observed
  <2>6. Origin(r)' <=> Origin(r)
    BY <1>1, <1>2, <2>3, <2>5 DEF Origin
  <2> QED
    BY <2>2, <2>4, <2>5, <2>6
<1> QED
  BY <1>2, <1>3

LEMMA SelectedStays ==
  ASSUME SameRead, IsQuery(query)
  PROVE  Selected(query, snapshot)' = Selected(query, snapshot)
<1>1. query' = query /\ snapshot' = snapshot /\ IsQuery(query)'
  BY DEF SameRead
<1>2. \A r : Answers(r)' <=> Answers(r)
  <2> TAKE r
  <2>1. CASE r \in Listed(query.filters, Since(query, snapshot), snapshot)
    <3>1. r \in Resources /\ Created[r] < snapshot
      BY <2>1 DEF Listed, Visible
    <3>2. assets'[r] = assets[r]
      BY <3>1 DEF SameRead
    <3>3. Origin(r)' <=> Origin(r)
      BY <3>1, OriginStays
    <3>4. Summary(r)' = Summary(r)
      BY <3>1, OriginStays
    <3> QED
      BY <1>1, <2>1, <3>2, <3>3, <3>4, ListedStays DEF Answers
  <2>2. CASE r \notin Listed(query.filters, Since(query, snapshot), snapshot)
    BY <1>1, <2>2, ListedStays DEF Answers
  <2> QED
    BY <2>1, <2>2
<1>3. \A r : r \in Selected(query, snapshot)' <=> r \in Selected(query, snapshot)
  BY <1>1, <1>2, SelectedIs, SelectedIsNext
<1> QED
  BY <1>3

-----------------------------------------------------------------------------
(* What a chain must not lose, and must not invent.                        *)

Rich == {"observation_text", "person_label"}
Held == {"select", "load", "refine", "answer"}
Refs(rows) == {rows[i].ref : i \in DOMAIN rows}
Ahead(r) == position # None => Before(Order, position, r)

SteadyInv ==
    pc \in Calling \/ (pc = "client" /\ token # NoToken) =>
        /\ steady \subseteq Selected(query, snapshot)
        /\ ~stirred => steady = Selected(query, snapshot)

\* Rows come in the order of the pages, each once.
OrderInv ==
    /\ pc \in {"select", "load"} /\ query.primary \in Paged =>
           /\ \A i, j \in DOMAIN found : i < j => Before(Order, found[i].ref, found[j].ref)
           /\ position = IF Len(found) = 0 THEN None ELSE found[Len(found)].ref
    /\ pc = "load" /\ query.primary \in Paged =>
           /\ \A i, j \in DOMAIN ids : i < j => Before(Order, ids[i], ids[j])
           /\ \A j \in DOMAIN ids : Ahead(ids[j])
    /\ pc = "load" /\ query.primary \in Rich => \A i, j \in DOMAIN ids : ids[i] = ids[j] => i = j
    /\ pc \in {"refine", "answer"} => Apart(found)
    /\ pc = "reply" /\ query.primary # "provider_semantic" =>
           \A i, j \in DOMAIN found : found[i].ref = found[j].ref => i = j

\* Every steady Resource was found, or is still ahead.
CoverInv ==
    /\ pc = "select" /\ query.primary \in Paged => \A r \in steady : r \in Refs(found) \/ Ahead(r)
    /\ pc = "load" /\ query.primary \in Paged =>
           \A r \in steady : \/ r \in Refs(found)
                             \/ \E j \in DOMAIN ids : j <= PageSize /\ ids[j] = r
                             \/ Len(ids) > PageSize /\ Before(Order, ids[PageSize], r)
    /\ pc = "load" /\ query.primary \in Rich /\ ~more => steady \subseteq Range(ids)
    /\ pc = "load" /\ query.primary = "provider_semantic" =>
           Range(ids) \subseteq Range(Ranking) /\ (~more => ids = Ranking)
    /\ pc \in {"refine", "answer", "reply"} /\ ~more /\ ~timedOut => steady \subseteq Refs(found)
    /\ pc \in Held /\ query.sort = "path" =>
           \A i \in DOMAIN found : found[i].ref \in steady => PathOf(found[i], query.filters) # None

\* As long as nothing that it reads changes, a chain finds nothing else.
GenuineInv ==
    ~stirred =>
        /\ pc = "load" /\ query.primary \in Paged => Range(ids) \subseteq Everything
        /\ pc = "load" /\ query.primary \in Rich =>
               \A r \in Range(ids) : Created[r] < snapshot => r \in Observed
        /\ pc \in Held => \A i \in DOMAIN found, r \in Resources :
               found[i].ref = r /\ Created[r] < snapshot =>
                   Origin(r) /\ found[i].sources = Summary(r).sources
        /\ pc = "answer" /\ query.primary \notin Paged /\ query.filters # AnySource =>
               \A i \in DOMAIN found, r \in Resources :
                   found[i].ref = r /\ Created[r] < snapshot => ActiveSourceExists(r, query.filters)
        /\ pc = "reply" => Refs(found) \subseteq Selected(query, snapshot)

DoneInv ==
    Whole => /\ steady \subseteq Range(delivered)
             /\ query.primary # "provider_semantic" => IsInjective(delivered)
             /\ ~stirred => Range(delivered) = Selected(query, snapshot)

CallInv == SteadyInv /\ OrderInv /\ CoverInv /\ GenuineInv
CompleteInv == ChainInv /\ CallInv /\ DoneInv

\* A change of the world leaves the calls alone, and takes away from what is steady.
LEMMA WorldMoves ==
  ASSUME ChainInv, CallInv,
         UNCHANGED <<query, snapshot, pc, token, ids, found, position, more, timedOut>>,
         steady' = steady \cap Selected(query, snapshot)' \/ (SameRead /\ steady' = steady),
         ~stirred' => ~stirred /\ SameRead
  PROVE  CallInv'
<1>1. QueryTypes /\ IsQuery(query)
  BY DEF ChainInv, QueryTypes
<1>2. steady' \subseteq steady
  OBVIOUS
<1>3. SteadyInv'
  <2>1. SameRead => Selected(query, snapshot)' = Selected(query, snapshot)
    BY <1>1, SelectedStays
  <2> QED
    BY <2>1 DEF SteadyInv, CallInv
<1>4. OrderInv'
  BY DEF CallInv, OrderInv, Order, Ahead, Apart
<1>5. CoverInv'
  BY <1>2 DEF CallInv, CoverInv, Order, Ahead, PageSize, Refs
<1>6. ASSUME ~stirred' PROVE GenuineInv'
  <2>1. ~stirred /\ SameRead
    BY <1>6
  <2>2. query.primary \in Paged => Everything' = Everything
    BY <2>1, OriginStays
  <2>3. \A r \in Resources : Created[r] < snapshot =>
            /\ Origin(r)' <=> Origin(r)
            /\ Summary(r)' = Summary(r)
            /\ r \in Observed' <=> r \in Observed
            /\ \A f : ActiveSourceExists(r, f)' <=> ActiveSourceExists(r, f)
    BY <2>1, OriginStays
  <2>4. Selected(query, snapshot)' = Selected(query, snapshot)
    BY <1>1, <2>1, SelectedStays
  <2>6. pc = "load" /\ query.primary \in Rich => \A r \in Range(ids) : r \in Resources
    BY <1>1 DEF QueryTypes, Rich, Range
  <2>7. (pc = "load" /\ query.primary \in Paged => Range(ids) \subseteq Everything)'
    BY <2>1, <2>2 DEF CallInv, GenuineInv
  <2>8. (pc = "load" /\ query.primary \in Rich =>
             \A r \in Range(ids) : Created[r] < snapshot => r \in Observed)'
    BY <2>1, <2>3, <2>6 DEF CallInv, GenuineInv
  <2>9. (pc \in Held => \A i \in DOMAIN found, r \in Resources :
             found[i].ref = r /\ Created[r] < snapshot =>
                 Origin(r) /\ found[i].sources = Summary(r).sources)'
    BY <2>1, <2>3 DEF CallInv, GenuineInv
  <2>10. (pc = "answer" /\ query.primary \notin Paged /\ query.filters # AnySource =>
              \A i \in DOMAIN found, r \in Resources :
                  found[i].ref = r /\ Created[r] < snapshot => ActiveSourceExists(r, query.filters))'
    BY <2>1, <2>3 DEF CallInv, GenuineInv
  <2>11. (pc = "reply" => Refs(found) \subseteq Selected(query, snapshot))'
    BY <2>1, <2>4 DEF CallInv, GenuineInv, Refs
  <2> QED
    BY <2>7, <2>8, <2>9, <2>10, <2>11 DEF GenuineInv
<1> QED
  BY <1>3, <1>4, <1>5, <1>6 DEF CallInv, GenuineInv

LEMMA OrderIrreflexive ==
  ASSUME NEW order, NEW a \in Resources, NEW b \in Resources, Before(order, a, b)
  PROVE  a # b
BY ReadsAssumption DEF Before, Newer, Alphabetic

LEMMA BeforeTransitive ==
  ASSUME NEW order, NEW a \in Resources, NEW b \in Resources, NEW c \in Resources,
         Before(order, a, b), Before(order, b, c)
  PROVE  Before(order, a, c)
<1>1. \A r \in {a, b, c} : r \in Nat /\ Created[r] \in Nat /\ Title[r] \in Nat
  BY ReadsAssumption
<1>2. CASE order = "newest"
  BY <1>1, <1>2 DEF Before, Newer
<1>3. CASE order # "newest"
  BY <1>1, <1>3 DEF Before, Alphabetic
<1> QED
  BY <1>2, <1>3

LEMMA SortedIsApart ==
  ASSUME NEW rows \in Seq(Rows), query.primary \in Paged,
         \A i, j \in DOMAIN rows : i < j => Before(Order, rows[i].ref, rows[j].ref)
  PROVE  Apart(rows)
<1>1. \A i \in DOMAIN rows : i \in Nat /\ rows[i].ref \in Resources
  <2>1. \A i \in DOMAIN rows : i \in Nat /\ rows[i] \in Rows
    OBVIOUS
  <2> QED
    BY <2>1 DEF Rows
<1>2. ASSUME NEW i \in DOMAIN rows, NEW j \in DOMAIN rows, rows[i].ref = rows[j].ref
      PROVE  i = j
  <2>1. ~(i < j) /\ ~(j < i)
    BY <1>1, <1>2, OrderIrreflexive
  <2> QED
    BY <1>1, <2>1
<1>3. query.primary # "provider_semantic"
  BY DEF Paged
<1> QED
  BY <1>2, <1>3 DEF Apart

\* A step of the service reads the world as it is.
LEMMA SteadyStays ==
  ASSUME ChainInv, SteadyInv, pc \in Calling, UNCHANGED <<assets, query, snapshot, steady>>,
         stirred' = stirred \/ stirred' = TRUE
  PROVE  SteadyInv' /\ SameRead /\ Selected(query, snapshot)' = Selected(query, snapshot)
<1>1. IsQuery(query) /\ SameRead
  BY DEF ChainInv, QueryTypes, SameRead
<1>2. Selected(query, snapshot)' = Selected(query, snapshot)
  BY <1>1, SelectedStays
<1> QED
  BY <1>1, <1>2 DEF SteadyInv

LEMMA CallAsk ==
  ASSUME ChainInv, CallInv, Ask
  PROVE  CallInv'
<1>1. /\ pc = "client" /\ pc' = "select" /\ UNCHANGED <<assets, query, token>>
      /\ found' = <<>> /\ position' = None /\ snapshot' = CallTime
      /\ IF token = NoToken THEN steady' = Selected(query, now) /\ stirred' = FALSE
                            ELSE UNCHANGED <<steady, stirred>>
  BY DEF Ask, clientVars
<1>2. SteadyInv'
  <2>1. CASE token = NoToken
    <3>1. snapshot' = now /\ steady' = Selected(query, now)
      BY <1>1, <2>1 DEF CallTime
    <3>2. Selected(query, snapshot)' = Selected(query, now)
      BY <1>1, <3>1 DEF Selected, Primary, Listed, Searched, Observed, Visible, ActiveSourceExists,
                        Mapped, Summary
    <3> QED
      BY <3>1, <3>2 DEF SteadyInv
  <2>2. CASE token # NoToken
    <3>1. SameRead /\ UNCHANGED <<steady, stirred>> /\ IsQuery(query)
      BY <1>1, <2>2 DEF SameRead, CallTime, ChainInv, Continues, QueryTypes
    <3>2. Selected(query, snapshot)' = Selected(query, snapshot)
      BY <3>1, SelectedStays
    <3> QED
      BY <1>1, <2>2, <3>1, <3>2 DEF CallInv, SteadyInv
  <2> QED
    BY <2>1, <2>2
<1>3. OrderInv'
  BY <1>1 DEF OrderInv
<1>4. CoverInv'
  BY <1>1 DEF CoverInv, Ahead
<1>5. GenuineInv'
  BY <1>1 DEF GenuineInv
<1> QED
  BY <1>2, <1>3, <1>4, <1>5 DEF CallInv

LEMMA CallTimeOut ==
  ASSUME ChainInv, CallInv, TimeOut
  PROVE  CallInv'
<1>1. /\ pc = "answer" \/ (pc = "select" /\ query.primary \in Paged)
      /\ pc' = "answer" /\ timedOut' = TRUE /\ stirred' = TRUE
      /\ UNCHANGED <<assets, query, snapshot, steady, found>>
  BY DEF TimeOut, callVars
<1>2. SteadyInv'
  BY <1>1, SteadyStays DEF CallInv, Calling
<1>3. OrderInv'
  <2>1. found \in Seq(Rows)
    BY <1>1 DEF ChainInv, QueryTypes
  <2>2. Apart(found)
    BY <1>1, <2>1, SortedIsApart DEF CallInv, OrderInv
  <2> QED
    BY <1>1, <2>2 DEF OrderInv, Apart
<1>4. CoverInv'
  BY <1>1 DEF CallInv, CoverInv, Held
<1>5. GenuineInv'
  BY <1>1 DEF GenuineInv
<1> QED
  BY <1>2, <1>3, <1>4, <1>5 DEF CallInv

LEMMA CallReadPage ==
  ASSUME ChainInv, CallInv, ReadPage
  PROVE  CallInv'
<1> DEFINE behind == {r \in Everything : position # None => Before(Order, position, r)}
           R == OrderOf(Order)
           rest == InOrder(behind, Order)
           m == Cardinality(behind)
           k == PageSize + 1
           n == Least(k, m)
<1>1. /\ pc = "select" /\ pc' = "load" /\ query.primary \in Paged
      /\ UNCHANGED <<assets, query, snapshot, steady, stirred, found, position, more, timedOut>>
  BY DEF ReadPage, worldVars, callVars
<1>2. QueryTypes /\ IsQuery(query)
  BY DEF ChainInv, QueryTypes
<1>3. SteadyInv' /\ SameRead
  BY <1>1, SteadyStays DEF CallInv, Calling
<1>4. PageSize \in Nat \ {0} /\ k \in Nat /\ PageSize' = PageSize /\ Order' = Order /\ Everything' = Everything
  <2>1. PageSize \in Nat \ {0}
    BY <1>1, <1>2, PageSizeIs
  <2>2. Everything' = Everything
    BY <1>1, <1>3, OriginStays
  <2> QED
    BY <1>1, <2>1, <2>2 DEF PageSize, Order
<1>5. behind \in SUBSET Resources /\ ids' = FirstOf(behind, Order, k)
  BY <1>2, ReadPageIs
<1>6. \A r \in behind : r \in Everything /\ Ahead(r)
  BY DEF Ahead
<1>7. \A r \in Everything : Ahead(r) => r \in behind
  BY DEF Ahead
<1> HIDE DEF behind, R, k
<1>8. Orders(behind, R) /\ Enumerates(rest, behind, R)
  BY <1>5, ResourcesOrdered, InOrderIs DEF R
<1> HIDE DEF rest
<1>9. /\ m \in Nat /\ n \in 0..m /\ ids' \in Seq(behind) /\ Len(ids') = n
      /\ \A i \in 1..n : ids'[i] = rest[i]
  BY <1>4, <1>5, FirstOfIs DEF rest
<1>10. /\ \A i, j \in 1..m : <<rest[i], rest[j]>> \in R <=> i < j
       /\ \A r \in behind : \E i \in 1..m : rest[i] = r
  BY <1>8, EnumerationIs
<1>11. \A a, b : <<a, b>> \in R => Before(Order, a, b)
  BY DEF R, OrderOf
<1>12. DOMAIN ids' = 1..n /\ \A i \in 1..n : i \in 1..m /\ ids'[i] \in behind
  BY <1>9
<1> HIDE DEF m, n
<1>13. OrderInv'
  <2>1. \A i, j \in DOMAIN ids' : i < j => Before(Order, ids'[i], ids'[j])
    BY <1>9, <1>10, <1>11, <1>12
  <2>2. \A j \in DOMAIN ids' : Ahead(ids'[j])
    BY <1>6, <1>12
  <2>3. query.primary \notin Rich
    BY <1>1 DEF Paged, Rich
  <2> QED
    BY <1>1, <1>4, <2>1, <2>2, <2>3 DEF CallInv, OrderInv, Ahead
<1>14. CoverInv'
  <2>1. ASSUME NEW r \in steady
        PROVE  \/ r \in Refs(found)
               \/ \E j \in DOMAIN ids' : j <= PageSize /\ ids'[j] = r
               \/ Len(ids') > PageSize /\ Before(Order, ids'[PageSize], r)
    <3>1. r \in Everything
      BY <1>1 DEF CallInv, SteadyInv, Calling, Selected, Everything
    <3>2. CASE r \in Refs(found)
      BY <3>2
    <3>3. CASE r \notin Refs(found)
      <4>1. PICK i \in 1..m : rest[i] = r
        BY <1>1, <1>7, <1>10, <3>1, <3>3 DEF CallInv, CoverInv
      <4>2. CASE i <= PageSize
        <5>1. i \in 1..n
          BY <1>4, <1>9, <4>2 DEF n, k, Least
        <5> QED
          BY <1>9, <1>12, <4>1, <4>2, <5>1
      <4>3. CASE i > PageSize
        <5>1. n = PageSize + 1 /\ PageSize \in 1..n /\ PageSize \in 1..m
          BY <1>4, <1>9, <4>3 DEF n, k, Least
        <5>2. Before(Order, rest[PageSize], r)
          BY <1>10, <1>11, <4>1, <4>3, <5>1
        <5>3. Len(ids') > PageSize
          BY <1>4, <1>9, <5>1
        <5> QED
          BY <1>9, <5>1, <5>2, <5>3
      <4> QED
        BY <1>4, <4>2, <4>3
    <3> QED
      BY <3>2, <3>3
  <2>2. query.primary \notin Rich /\ query.primary # "provider_semantic"
    BY <1>1 DEF Paged, Rich
  <2> QED
    BY <1>1, <1>4, <2>1, <2>2 DEF CallInv, CoverInv, Held, Refs
<1>15. GenuineInv'
  <2>1. Range(ids') \subseteq Everything
    BY <1>6, <1>12 DEF Range
  <2>2. query.primary \notin Rich /\ query.primary # "provider_semantic"
    BY <1>1 DEF Paged, Rich
  <2>3. \A r \in Resources : Created[r] < snapshot =>
            (Origin(r)' <=> Origin(r)) /\ Summary(r)' = Summary(r)
    BY <1>3, OriginStays
  <2> QED
    BY <1>1, <1>4, <2>1, <2>2, <2>3 DEF CallInv, GenuineInv, Held
<1> QED
  BY <1>3, <1>13, <1>14, <1>15 DEF CallInv

\* The path of a row is that of the summary it was made of.
LEMMA PathOfRow ==
  ASSUME NEW row, NEW other, row.sources = other.sources, NEW f
  PROVE  PathOf(row, f) = PathOf(other, f)
BY DEF PathOf

LEMMA SteadyAnswers ==
  ASSUME ChainInv, SteadyInv, pc \in Calling
  PROVE  \A r \in steady : Answers(r) /\ r \in Resources /\ Created[r] < snapshot
<1>1. IsQuery(query) /\ steady \subseteq Selected(query, snapshot)
  BY DEF ChainInv, QueryTypes, SteadyInv
<1>2. \A r \in steady : Answers(r)
  BY <1>1, SelectedIs
<1> QED
  BY <1>2 DEF Answers, Listed, Visible

LEMMA CallLoadPage ==
  ASSUME ChainInv, CallInv, LoadPage
  PROVE  CallInv'
<1> DEFINE n == Least(Len(ids), PageSize)
           L == Len(found)
<1>1. /\ pc = "load" /\ pc' \in {"select", "answer"} /\ (pc' = "select" => more') /\ query.primary \in Paged
      /\ UNCHANGED <<assets, query, snapshot, steady, stirred, timedOut>>
  BY DEF LoadPage, worldVars, callVars
<1>2. QueryTypes /\ PageSize \in Nat \ {0} /\ found \in Seq(Rows) /\ L \in Nat /\ DOMAIN found = 1..L
  <2>1. QueryTypes /\ found \in Seq(Rows)
    BY <1>1 DEF ChainInv, QueryTypes
  <2>2. PageSize \in Nat \ {0}
    BY <1>1, <2>1, PageSizeIs
  <2> QED
    BY <2>1, <2>2
<1>3. /\ ids \in Seq(Resources) /\ n \in 0..Len(ids)
      /\ found' \in Seq(Rows) /\ Len(found') = L + n
      /\ \A i \in 1..L : found'[i] = found[i]
      /\ \A j \in 1..n : found'[L + j] = Row(ids[j], 0)
      /\ more' = (Len(ids) > PageSize)
      /\ more' => n = PageSize
      /\ position' = IF more' THEN ids[n] ELSE None
  BY <1>2, LoadPageIs
<1>4. SteadyInv' /\ SameRead
  BY <1>1, SteadyStays DEF CallInv, Calling
<1>5. Order' = Order
  BY <1>1 DEF Order
<1>6. Len(ids) \in Nat /\ DOMAIN ids = 1..Len(ids) /\ \A j \in 1..n : j \in DOMAIN ids /\ j \in Nat
  BY <1>3
<1>7. \A j \in 1..n : found'[L + j].ref = ids[j] /\ found'[L + j].sources = Summary(ids[j]).sources
  <2> TAKE j \in 1..n
  <2>1. found'[L + j] = Row(ids[j], 0)
    BY <1>3
  <2>2. Row(ids[j], 0).ref = ids[j] /\ Row(ids[j], 0).sources = Summary(ids[j]).sources
    BY DEF Row
  <2> QED
    BY <2>1, <2>2
<1>8. DOMAIN found' = 1..(L + n) /\ n \in Nat
  BY <1>3, <1>6
<1>9. \A i \in DOMAIN found' : \/ i \in DOMAIN found /\ found'[i] = found[i]
                               \/ \E j \in 1..n : i = L + j
  <2> TAKE i \in DOMAIN found'
  <2>1. i \in 1..L \/ (i - L \in 1..n /\ i = L + (i - L))
    BY <1>2, <1>8
  <2> QED
    BY <1>2, <1>3, <2>1
<1>10. \A r \in steady : Answers(r) /\ r \in Resources /\ Created[r] < snapshot
  BY <1>1, SteadyAnswers DEF CallInv, Calling
<1>11. query.primary # "provider_semantic" /\ query.primary \notin Rich
  BY <1>1 DEF Paged, Rich
<1>12. /\ \A i, j \in DOMAIN found : i < j => Before(Order, found[i].ref, found[j].ref)
       /\ position = IF L = 0 THEN None ELSE found[L].ref
       /\ \A i, j \in DOMAIN ids : i < j => Before(Order, ids[i], ids[j])
       /\ \A j \in DOMAIN ids : Ahead(ids[j])
  BY <1>1 DEF CallInv, OrderInv
<1>13. /\ \A i \in 1..L : found[i].ref \in Resources
       /\ \A j \in 1..n : ids[j] \in Resources
  <2>1. \A i \in 1..L : found[i] \in Rows
    BY <1>2
  <2> QED
    BY <1>3, <1>6, <2>1 DEF Rows
<1> HIDE DEF n, L
<1>14. \A i \in 1..L, j \in 1..n : Before(Order, found[i].ref, ids[j])
  <2> TAKE i \in 1..L, j \in 1..n
  <2>1. L # 0 /\ L \in 1..L /\ (i = L \/ i < L)
    BY <1>2
  <2>2. position = found[L].ref /\ found[L].ref \in Resources
    BY <1>12, <1>13, <2>1
  <2>3. Before(Order, found[L].ref, ids[j])
    BY <1>6, <1>12, <1>13, <2>2, ReadsAssumption DEF Ahead
  <2>4. i < L => Before(Order, found[i].ref, found[L].ref)
    BY <1>2, <1>12, <2>1
  <2> QED
    BY <1>13, <2>1, <2>2, <2>3, <2>4, BeforeTransitive
<1>15. ASSUME NEW i \in DOMAIN found', NEW j \in DOMAIN found', i < j
       PROVE  Before(Order, found'[i].ref, found'[j].ref)
  <2>1. CASE i \in 1..L /\ j \in 1..L
    BY <1>2, <1>3, <1>12, <1>15, <2>1
  <2>2. CASE i \in 1..L /\ j \notin 1..L
    <3>1. PICK k \in 1..n : j = L + k
      BY <1>2, <1>9, <2>2
    <3> QED
      BY <1>3, <1>7, <1>14, <2>2, <3>1
  <2>3. CASE i \notin 1..L
    <3>1. PICK h \in 1..n : i = L + h
      BY <1>2, <1>9, <2>3
    <3>2. j \notin 1..L
      BY <1>2, <1>6, <1>8, <1>15, <3>1
    <3>3. PICK k \in 1..n : j = L + k
      BY <1>2, <1>9, <3>2
    <3>4. h < k
      BY <1>2, <1>6, <1>15, <3>1, <3>3
    <3> QED
      BY <1>6, <1>7, <1>12, <3>1, <3>3, <3>4
  <2> QED
    BY <2>1, <2>2, <2>3
<1>16. OrderInv'
  <2>1. more' => position' = IF Len(found') = 0 THEN None ELSE found'[Len(found')].ref
    <3>1. ASSUME more' PROVE n \in 1..n /\ L + n # 0 /\ position' = ids[n]
      BY <1>2, <1>3, <1>8, <3>1
    <3> QED
      BY <1>3, <1>7, <3>1
  <2>2. Apart(found')
    BY <1>1, <1>3, <1>15, SortedIsApart
  <2>3. Apart(found)'
    BY <1>1, <2>2 DEF Apart
  <2> QED
    BY <1>1, <1>5, <1>15, <2>1, <2>3 DEF OrderInv
<1>17. ASSUME NEW r \in steady
       PROVE  r \in Refs(found)' \/ (more' /\ Ahead(r)')
  <2>1. CASE r \in Refs(found)
    <3>1. PICK i \in DOMAIN found : found[i].ref = r
      BY <2>1 DEF Refs
    <3>2. i \in DOMAIN found' /\ found'[i] = found[i]
      BY <1>2, <1>3, <1>8
    <3> QED
      BY <3>1, <3>2 DEF Refs
  <2>2. ASSUME NEW j \in DOMAIN ids, j <= PageSize, ids[j] = r
        PROVE  r \in Refs(found)'
    <3>1. j \in 1..n
      <4>1. j \in 1..Len(ids) /\ n = IF Len(ids) < PageSize THEN Len(ids) ELSE PageSize
        BY <1>6 DEF n, Least
      <4> HIDE DEF n
      <4> QED
        BY ONLY <1>2, <1>6, <2>2, <4>1
    <3>2. L + j \in DOMAIN found' /\ found'[L + j].ref = r
      BY <1>2, <1>6, <1>7, <1>8, <2>2, <3>1
    <3> QED
      BY <3>2 DEF Refs
  <2>3. CASE Len(ids) > PageSize /\ Before(Order, ids[PageSize], r)
    <3>1. more' /\ position' = ids[PageSize]
      BY <1>3, <2>3
    <3> QED
      BY <1>5, <2>3, <3>1 DEF Ahead
  <2>4. \/ r \in Refs(found)
        \/ \E j \in DOMAIN ids : j <= PageSize /\ ids[j] = r
        \/ Len(ids) > PageSize /\ Before(Order, ids[PageSize], r)
    BY <1>1 DEF CallInv, CoverInv
  <2> QED
    BY <2>1, <2>2, <2>3, <2>4
<1>18. ASSUME query.sort = "path", NEW i \in DOMAIN found', found'[i].ref \in steady
       PROVE  PathOf(found'[i], query.filters) # None
  <2>1. CASE i \in DOMAIN found /\ found'[i] = found[i]
    BY <1>1, <1>18, <2>1 DEF CallInv, CoverInv, Held
  <2>2. ASSUME NEW j \in 1..n, i = L + j
        PROVE  PathOf(found'[i], query.filters) # None
    <3>1. found'[i].sources = Summary(ids[j]).sources /\ ids[j] \in steady
      BY <1>7, <1>18, <2>2
    <3>2. PathOf(Summary(ids[j]), query.filters) # None
      BY <1>10, <1>18, <3>1 DEF Answers
    <3> QED
      BY <3>1, <3>2, PathOfRow
  <2> QED
    BY <1>9, <2>1, <2>2
<1>19. CoverInv'
  <2>1. (pc \in Held /\ query.sort = "path" =>
           \A i \in DOMAIN found : found[i].ref \in steady => PathOf(found[i], query.filters) # None)'
    <3>1. \A row, f : PathOf(row, f)' = PathOf(row, f)
      BY DEF PathOf, PathsOf, EligibleIn
    <3> QED
      BY <1>1, <1>18, <3>1 DEF PathOf, PathsOf, EligibleIn
  <2>2. (pc = "select" /\ query.primary \in Paged => \A r \in steady : r \in Refs(found) \/ Ahead(r))'
    BY <1>1, <1>17
  <2>3. (pc \in {"refine", "answer", "reply"} /\ ~more /\ ~timedOut => steady \subseteq Refs(found))'
    BY <1>1, <1>17
  <2> QED
    BY <1>1, <2>1, <2>2, <2>3 DEF CoverInv
<1>20. ASSUME ~stirred PROVE GenuineInv'
  <2>1. \A r \in Resources : Created[r] < snapshot => (Origin(r)' <=> Origin(r)) /\ Summary(r)' = Summary(r)
    BY <1>4, OriginStays
  <2>2. Range(ids) \subseteq Everything
    BY <1>1, <1>20 DEF CallInv, GenuineInv
  <2>3. ASSUME NEW i \in DOMAIN found', NEW r \in Resources, found'[i].ref = r, Created[r] < snapshot
        PROVE  Origin(r) /\ found'[i].sources = Summary(r).sources
    <3>1. CASE i \in DOMAIN found /\ found'[i] = found[i]
      BY <1>1, <1>20, <2>3, <3>1 DEF CallInv, GenuineInv, Held
    <3>2. ASSUME NEW j \in 1..n, i = L + j
          PROVE  Origin(r) /\ found'[i].sources = Summary(r).sources
      <4>1. r = ids[j] /\ r \in Everything
        BY <1>6, <1>7, <2>2, <2>3, <3>2 DEF Range
      <4> QED
        BY <1>1, <1>7, <1>11, <3>2, <4>1 DEF Origin
    <3> QED
      BY <1>9, <3>1, <3>2
  <2> QED
    BY <1>1, <1>11, <1>20, <2>1, <2>3 DEF GenuineInv
<1> QED
  BY <1>1, <1>4, <1>16, <1>19, <1>20 DEF CallInv, GenuineInv

LEMMA CallOver ==
  ASSUME pc' = "over"
  PROVE  CallInv'
BY DEF CallInv, SteadyInv, OrderInv, CoverInv, GenuineInv, Calling, Held

\* A page that had room for more.
Short(s, k) == ~(Len(s) >= k)

LEMMA AllOfThem ==
  ASSUME NEW order, NEW S \in SUBSET Resources, NEW k \in Nat, NEW s, s = FirstOf(S, order, k)
  PROVE  /\ s \in Seq(S)
         /\ \A i, j \in DOMAIN s : s[i] = s[j] => i = j
         /\ Short(s, k) => S \subseteq Range(s)
<1> DEFINE R == OrderOf(order)
           all == InOrder(S, order)
           m == Cardinality(S)
           n == Least(k, m)
<1>1. /\ m \in Nat /\ n \in 0..m /\ s \in Seq(S) /\ Len(s) = n
      /\ \A i \in 1..n : s[i] = all[i]
  BY FirstOfIs
<1>2. Orders(S, R) /\ Enumerates(all, S, R)
  BY ResourcesOrdered, InOrderIs
<1>3. n = IF k < m THEN k ELSE m
  BY DEF Least
<1> HIDE DEF all, R, m, n
<1>4. /\ \A i, j \in 1..m : all[i] = all[j] => i = j
      /\ \A r \in S : \E i \in 1..m : all[i] = r
  BY <1>2, EnumerationIs DEF m
<1>5. DOMAIN s = 1..n /\ \A i \in 1..n : i \in 1..m
  BY <1>1
<1>6. \A i, j \in DOMAIN s : s[i] = s[j] => i = j
  BY <1>1, <1>4, <1>5
<1>7. ASSUME Short(s, k) PROVE S \subseteq Range(s)
  <2>1. n = m
    BY <1>1, <1>3, <1>7 DEF Short
  <2> QED
    BY <1>1, <1>4, <1>5, <2>1 DEF Range
<1> QED
  BY <1>1, <1>6, <1>7

LEMMA CallReadPrimary ==
  ASSUME ChainInv, CallInv, ReadPrimary
  PROVE  CallInv'
<1> DEFINE k == CandidateLimit
<1>1. /\ pc = "select" /\ pc' = "load" /\ query.primary \notin Paged
      /\ UNCHANGED <<assets, query, snapshot, steady, stirred, found, position, timedOut>>
      /\ more' = (Len(ids') >= k)
  BY DEF ReadPrimary, worldVars, callVars
<1>2. QueryTypes /\ IsQuery(query) /\ k \in Nat
  BY QueryAssumption DEF ChainInv, QueryTypes, IsQuery, CandidateLimit
<1>3. SteadyInv' /\ SameRead
  BY <1>1, SteadyStays DEF CallInv, Calling
<1>4. \A r \in steady : Answers(r) /\ r \in Resources /\ Created[r] < snapshot
  BY <1>1, SteadyAnswers DEF CallInv, Calling
<1>5. ASSUME query.primary \in Rich
      PROVE  \E order : ids' = FirstOf(Observed, order, k)
  <2>1. CASE query.primary = "observation_text"
    BY <2>1 DEF ReadPrimary, ObservationText
  <2>2. CASE query.primary = "person_label"
    BY <2>2 DEF ReadPrimary, PersonLabel
  <2> QED
    BY <1>5, <2>1, <2>2 DEF Rich
<1> HIDE DEF k
<1>6. query.primary \in Rich =>
          /\ ids' \in Seq(Observed)
          /\ \A i, j \in DOMAIN ids' : ids'[i] = ids'[j] => i = j
          /\ ~more' => Observed \subseteq Range(ids')
  <2>1. ASSUME query.primary \in Rich PROVE ids' \in Seq(Observed)
          /\ (\A i, j \in DOMAIN ids' : ids'[i] = ids'[j] => i = j)
          /\ (~more' => Observed \subseteq Range(ids'))
    <3>1. PICK order : ids' = FirstOf(Observed, order, k)
      BY <1>5, <2>1
    <3>2. PICK s : s = ids'
      OBVIOUS
    <3>3. Observed \in SUBSET Resources
      BY DEF Observed
    <3>4. k \in Nat /\ s = FirstOf(Observed, order, k)
      BY <1>2, <3>1, <3>2
    <3>5. /\ s \in Seq(Observed)
          /\ \A i, j \in DOMAIN s : s[i] = s[j] => i = j
          /\ Short(s, k) => Observed \subseteq Range(s)
      BY ONLY <3>3, <3>4, AllOfThem
    <3> QED
      BY <1>1, <3>2, <3>5 DEF Short
  <2> QED
    BY <2>1
<1>7. query.primary = "provider_semantic" =>
          Range(ids') \subseteq Range(Ranking) /\ (~more' => ids' = Ranking)
  <2>1. ASSUME query.primary = "provider_semantic"
        PROVE  Range(ids') \subseteq Range(Ranking) /\ (~more' => ids' = Ranking)
    <3> DEFINE n == Least(Len(Ranking), k)
    <3>1. ids' = SubSeq(Ranking, 1, IF Len(Ranking) < k THEN Len(Ranking) ELSE k)
      BY <2>1 DEF ReadPrimary, k
    <3>2. Ranking \in Seq(Locators)
      BY ReadsAssumption
    <3>3. /\ ids' \in Seq(Locators) /\ Len(ids') = n /\ n \in 0..Len(Ranking)
          /\ \A j \in 1..n : ids'[j] = Ranking[j]
      BY <1>2, <3>1, <3>2, PrefixIs
    <3>4. n = IF Len(Ranking) < k THEN Len(Ranking) ELSE k
      BY DEF Least
    <3> HIDE DEF n
    <3>5. DOMAIN ids' = 1..n /\ DOMAIN Ranking = 1..Len(Ranking) /\ \A j \in 1..n : j \in DOMAIN Ranking
      BY <3>2, <3>3
    <3>6. Range(ids') \subseteq Range(Ranking)
      BY <3>3, <3>5 DEF Range
    <3>7. ASSUME ~more' PROVE ids' = Ranking
      <4>0. ~(n >= k)
        BY <1>1, <3>3, <3>7
      <4>1. n \in Nat /\ Len(Ranking) \in Nat
        BY <3>2, <3>3
      <4>2. n = Len(Ranking)
        BY ONLY <1>2, <3>4, <4>0, <4>1
      <4> QED
        BY <3>2, <3>3, <3>5, <4>2
    <3> QED
      BY <3>6, <3>7
  <2> QED
    BY <2>1
<1>8. OrderInv'
  BY <1>1, <1>6 DEF OrderInv
<1>9. CoverInv'
  <2>1. query.primary \in Rich /\ ~more' => steady \subseteq Range(ids')
    BY <1>4, <1>6 DEF Answers, Origin, Rich, Paged
  <2> QED
    BY <1>1, <1>7, <2>1 DEF CallInv, CoverInv, Held, Rich
<1>10. ASSUME ~stirred PROVE GenuineInv'
  <2>1. \A r \in Resources : Created[r] < snapshot =>
            /\ Origin(r)' <=> Origin(r)
            /\ Summary(r)' = Summary(r)
            /\ r \in Observed' <=> r \in Observed
    BY <1>3, OriginStays
  <2>2. query.primary \in Rich => \A r \in Range(ids') : r \in Observed /\ r \in Resources
    BY <1>6 DEF Range, Observed
  <2> QED
    BY <1>1, <1>10, <2>1, <2>2 DEF CallInv, GenuineInv, Held
<1> QED
  BY <1>1, <1>3, <1>8, <1>9, <1>10 DEF CallInv, GenuineInv

LEMMA CallMapHits ==
  ASSUME ChainInv, CallInv, MapHits, pc' # "over"
  PROVE  CallInv'
<1> DEFINE T == {i \in DOMAIN ids : Mapped(ids[i]) # {}}
           known == Indexes(T)
<1>1. /\ pc = "load" /\ pc' = "refine" /\ query.primary = "provider_semantic"
      /\ UNCHANGED <<assets, query, snapshot, steady, stirred, position, more, timedOut>>
  BY DEF MapHits, Fail, worldVars, callVars
<1>2. QueryTypes /\ query.sort # "path"
  BY <1>1 DEF ChainInv, QueryTypes, IsQuery, AllowedSorts
<1>3. SteadyInv' /\ SameRead
  BY <1>1, SteadyStays DEF CallInv, Calling
<1>4. \A r \in steady : Answers(r) /\ r \in Resources /\ Created[r] < snapshot
  BY <1>1, SteadyAnswers DEF CallInv, Calling
<1>5. /\ ids \in Seq(Locators) /\ known \in Seq(DOMAIN ids)
      /\ \A i \in DOMAIN ids : \A m, n \in Mapped(ids[i]) : m = n
      /\ found' \in Seq(Rows) /\ Len(found') = Len(known)
      /\ \A k \in 1..Len(known) :
             /\ found'[k].rank = known[k]
             /\ found'[k].sources = Summary(found'[k].ref).sources
             /\ \E m \in Mapped(ids[known[k]]) : found'[k].ref = m[1]
  BY <1>1, <1>2, MapHitsIs
<1>6. /\ \A i, j \in DOMAIN known : known[i] = known[j] => i = j
      /\ \A x \in T : \E i \in DOMAIN known : known[i] = x
  <2>1. T \in SUBSET (1..Len(ids)) /\ Len(ids) \in Nat
    BY <1>5
  <2> HIDE DEF T
  <2> QED
    BY <2>1, IndexesIs
<1>7. DOMAIN known = 1..Len(known) /\ DOMAIN found' = 1..Len(known)
      /\ \A k \in 1..Len(known) : known[k] \in DOMAIN ids
  <2> DEFINE D == DOMAIN ids
  <2> HIDE DEF D, known
  <2>1. known \in Seq(D)
    BY <1>5 DEF D
  <2>2. DOMAIN known = 1..Len(known) /\ \A k \in 1..Len(known) : known[k] \in D
    BY <2>1
  <2> QED
    BY <1>5, <2>2 DEF D
<1>8. \A i \in DOMAIN ids : Mapped(ids[i]) # {} => i \in T
  OBVIOUS
<1> HIDE DEF known, T
<1>9. OrderInv'
  <2>1. Apart(found)'
    BY <1>1, <1>5, <1>6, <1>7 DEF Apart
  <2> QED
    BY <1>1, <2>1 DEF OrderInv
<1>10. ASSUME ~more, NEW r \in steady
       PROVE  r \in Refs(found)'
  <2>1. ids = Ranking
    BY <1>1, <1>10 DEF CallInv, CoverInv
  <2>2. PICK i \in DOMAIN ids : HitBy(r, ids[i])
    BY <1>1, <1>4, <2>1 DEF Answers, Origin
  <2>3. PICK m \in Mapped(ids[i]) : m[1] = r
    BY <1>4, <2>2, MappedIs
  <2>4. PICK k \in DOMAIN known : known[k] = i
    BY <1>6, <1>8, <2>3
  <2>5. found'[k].ref = r
    BY <1>5, <1>7, <2>3, <2>4
  <2> QED
    BY <1>7, <2>4, <2>5 DEF Refs
<1>11. CoverInv'
  BY <1>1, <1>2, <1>10 DEF CoverInv
<1>12. ASSUME ~stirred PROVE GenuineInv'
  <2>1. \A r \in Resources : Created[r] < snapshot => (Origin(r)' <=> Origin(r)) /\ Summary(r)' = Summary(r)
    BY <1>3, OriginStays
  <2>2. ASSUME NEW i \in DOMAIN found', NEW r \in Resources, found'[i].ref = r
        PROVE  Origin(r) /\ found'[i].sources = Summary(r).sources
    <3>1. PICK m \in Mapped(ids[known[i]]) : r = m[1]
      BY <1>5, <1>7, <2>2
    <3>2. HitBy(r, ids[known[i]]) /\ known[i] \in DOMAIN ids
      BY <1>7, <3>1, MappedIs
    <3>3. ids[known[i]] \in Range(Ranking)
      BY <1>1, <3>2 DEF CallInv, CoverInv, Range
    <3>4. \E j \in DOMAIN Ranking : ids[known[i]] = Ranking[j]
      BY <3>3 DEF Range
    <3> QED
      BY <1>1, <1>5, <1>7, <2>2, <3>2, <3>4 DEF Origin
  <2> QED
    BY <1>1, <2>1, <2>2 DEF GenuineInv
<1> QED
  BY <1>1, <1>3, <1>9, <1>11, <1>12 DEF CallInv, GenuineInv

LEMMA CallLoadCandidates ==
  ASSUME ChainInv, CallInv, LoadCandidates
  PROVE  CallInv'
<1>1. /\ pc = "load" /\ pc' = "refine" /\ query.primary \in Rich
      /\ UNCHANGED <<assets, query, snapshot, steady, stirred, ids, position, more, timedOut>>
  BY DEF LoadCandidates, worldVars, callVars, Rich
<1>2. QueryTypes /\ query.primary \notin Paged /\ query.primary # "provider_semantic"
  BY <1>1 DEF ChainInv, Rich, Paged
<1>3. SteadyInv' /\ SameRead
  BY <1>1, SteadyStays DEF CallInv, Calling
<1>4. \A r \in steady : Answers(r) /\ r \in Resources /\ Created[r] < snapshot
  BY <1>1, SteadyAnswers DEF CallInv, Calling
<1>5. /\ ids \in Seq(Resources) /\ found' \in Seq(Rows) /\ Len(found') = Len(ids)
      /\ \A i \in 1..Len(ids) : found'[i] = Row(ids[i], i)
  BY <1>2, LoadCandidatesIs
<1>6. DOMAIN ids = 1..Len(ids) /\ DOMAIN found' = 1..Len(ids)
  BY <1>5
<1>7. \A i \in DOMAIN found' : /\ i \in DOMAIN ids /\ ids[i] \in Resources
                               /\ found'[i].ref = ids[i] /\ found'[i].sources = Summary(ids[i]).sources
  <2> TAKE i \in DOMAIN found'
  <2>1. found'[i] = Row(ids[i], i) /\ i \in DOMAIN ids /\ ids[i] \in Resources
    BY <1>5, <1>6
  <2>2. Row(ids[i], i).ref = ids[i] /\ Row(ids[i], i).sources = Summary(ids[i]).sources
    BY DEF Row
  <2> QED
    BY <2>1, <2>2
<1>8. OrderInv'
  <2>1. \A i, j \in DOMAIN ids : ids[i] = ids[j] => i = j
    BY <1>1 DEF CallInv, OrderInv
  <2>2. Apart(found)'
    BY <1>1, <1>2, <1>7, <2>1 DEF Apart
  <2> QED
    BY <1>1, <2>2 DEF OrderInv
<1>9. CoverInv'
  <2>1. ASSUME ~more, NEW r \in steady PROVE r \in Refs(found)'
    <3>1. r \in Range(ids)
      BY <1>1, <2>1 DEF CallInv, CoverInv
    <3>2. PICK i \in DOMAIN ids : ids[i] = r
      BY <3>1 DEF Range
    <3> QED
      BY <1>6, <1>7, <3>2 DEF Refs
  <2>2. ASSUME query.sort = "path", NEW i \in DOMAIN found', found'[i].ref \in steady
        PROVE  PathOf(found'[i], query.filters) # None
    <3>1. PathOf(Summary(ids[i]), query.filters) # None
      BY <1>4, <1>7, <2>2 DEF Answers
    <3> QED
      BY <1>7, <3>1, PathOfRow
  <2>3. (pc \in Held /\ query.sort = "path" =>
           \A i \in DOMAIN found : found[i].ref \in steady => PathOf(found[i], query.filters) # None)'
    BY <1>1, <2>2 DEF PathOf, PathsOf, EligibleIn
  <2> QED
    BY <1>1, <2>1, <2>3 DEF CoverInv
<1>10. ASSUME ~stirred PROVE GenuineInv'
  <2>1. \A r \in Resources : Created[r] < snapshot => (Origin(r)' <=> Origin(r)) /\ Summary(r)' = Summary(r)
    BY <1>3, OriginStays
  <2>2. ASSUME NEW i \in DOMAIN found', NEW r \in Resources, found'[i].ref = r, Created[r] < snapshot
        PROVE  Origin(r) /\ found'[i].sources = Summary(r).sources
    <3>1. r = ids[i] /\ r \in Range(ids)
      BY <1>7, <2>2 DEF Range
    <3>2. r \in Observed
      BY <1>1, <1>10, <2>2, <3>1 DEF CallInv, GenuineInv
    <3> QED
      BY <1>2, <1>7, <3>1, <3>2 DEF Origin
  <2> QED
    BY <1>1, <2>1, <2>2 DEF GenuineInv
<1> QED
  BY <1>1, <1>3, <1>8, <1>9, <1>10 DEF CallInv, GenuineInv

LEMMA CallRefine ==
  ASSUME ChainInv, CallInv, Refine
  PROVE  CallInv'
<1> DEFINE T == {i \in DOMAIN found : Keeps(found[i])}
           kept == Indexes(T)
<1>1. /\ pc = "refine" /\ pc' = "answer"
      /\ UNCHANGED <<assets, query, snapshot, steady, stirred, ids, position, more, timedOut>>
  BY DEF Refine, worldVars, callVars
<1>2. QueryTypes /\ query.primary \notin Paged
  BY <1>1 DEF ChainInv, QueryTypes
<1>3. SteadyInv' /\ SameRead
  BY <1>1, SteadyStays DEF CallInv, Calling
<1>4. \A r \in steady : Answers(r) /\ r \in Resources /\ Created[r] < snapshot
  BY <1>1, SteadyAnswers DEF CallInv, Calling
<1>5. /\ found \in Seq(Rows) /\ found' \in Seq(Rows) /\ Len(found') = Len(kept)
      /\ kept \in Seq(T)
      /\ \A i, j \in DOMAIN kept : kept[i] = kept[j] => i = j
      /\ \A i \in DOMAIN found : Keeps(found[i]) => \E k \in DOMAIN kept : kept[k] = i
      /\ \A k \in 1..Len(kept) : found'[k] = Signed(found[kept[k]])
  BY <1>2, RefineIs
<1> HIDE DEF kept
<1>6. \A k \in 1..Len(kept) : kept[k] \in DOMAIN found /\ Keeps(found[kept[k]])
  <2> HIDE DEF T
  <2>1. \A k \in 1..Len(kept) : kept[k] \in T
    BY <1>5
  <2> QED
    BY <2>1 DEF T
<1>7. DOMAIN kept = 1..Len(kept) /\ DOMAIN found' = DOMAIN kept
  <2>1. DOMAIN kept = 1..Len(kept)
    <3> HIDE DEF T
    <3> QED BY <1>5
  <2> QED
    BY <1>5, <2>1
<1> HIDE DEF T
<1>8. \A k \in DOMAIN found' :
          /\ kept[k] \in DOMAIN found /\ Keeps(found[kept[k]])
          /\ found'[k].ref = found[kept[k]].ref /\ found'[k].rank = found[kept[k]].rank
          /\ found'[k].sources = found[kept[k]].sources
  <2> TAKE k \in DOMAIN found'
  <2>1. kept[k] \in DOMAIN found /\ Keeps(found[kept[k]]) /\ found'[k] = Signed(found[kept[k]])
    BY <1>5, <1>6, <1>7
  <2>2. found[kept[k]] \in Rows
    BY <1>5, <2>1
  <2> QED
    BY <1>2, <2>1, <2>2, SignedIs DEF QueryTypes
<1>9. OrderInv'
  <2>1. Apart(found)
    BY <1>1 DEF CallInv, OrderInv
  <2>2. ASSUME NEW i \in DOMAIN found', NEW j \in DOMAIN found',
               IF query.primary = "provider_semantic" THEN found'[i].rank = found'[j].rank
                                                      ELSE found'[i].ref = found'[j].ref
        PROVE  i = j
    <3>1. kept[i] = kept[j]
      BY <1>8, <2>1, <2>2 DEF Apart
    <3> QED
      BY <1>5, <1>7, <3>1
  <2>3. Apart(found)'
    BY <1>1, <2>2 DEF Apart
  <2> QED
    BY <1>1, <2>3 DEF OrderInv
<1>10. CoverInv'
  <2>1. ASSUME ~more, ~timedOut, NEW r \in steady PROVE r \in Refs(found)'
    <3>1. r \in Refs(found)
      BY <1>1, <2>1 DEF CallInv, CoverInv
    <3>2. PICK i \in DOMAIN found : found[i].ref = r
      BY <3>1 DEF Refs
    <3>3. Keeps(found[i])
      BY <1>4, <3>2 DEF Keeps, Answers, Listed, Visible
    <3>4. PICK k \in DOMAIN kept : kept[k] = i
      BY <1>5, <3>3
    <3> QED
      BY <1>7, <1>8, <3>2, <3>4 DEF Refs
  <2>2. ASSUME query.sort = "path", NEW k \in DOMAIN found', found'[k].ref \in steady
        PROVE  PathOf(found'[k], query.filters) # None
    <3>1. PathOf(found[kept[k]], query.filters) # None
      BY <1>1, <1>8, <2>2 DEF CallInv, CoverInv, Held
    <3> QED
      BY <1>8, <3>1, PathOfRow
  <2>3. (pc \in Held /\ query.sort = "path" =>
           \A i \in DOMAIN found : found[i].ref \in steady => PathOf(found[i], query.filters) # None)'
    BY <1>1, <2>2 DEF PathOf, PathsOf, EligibleIn
  <2> QED
    BY <1>1, <2>1, <2>3 DEF CoverInv
<1>11. ASSUME ~stirred PROVE GenuineInv'
  <2>1. \A r \in Resources : Created[r] < snapshot =>
            /\ Origin(r)' <=> Origin(r)
            /\ Summary(r)' = Summary(r)
            /\ \A f : ActiveSourceExists(r, f)' <=> ActiveSourceExists(r, f)
    BY <1>3, OriginStays
  <2>2. ASSUME NEW k \in DOMAIN found', NEW r \in Resources, found'[k].ref = r, Created[r] < snapshot
        PROVE  /\ Origin(r) /\ found'[k].sources = Summary(r).sources
               /\ query.filters # AnySource => ActiveSourceExists(r, query.filters)
    <3>1. found[kept[k]].ref = r /\ kept[k] \in DOMAIN found /\ Keeps(found[kept[k]])
      BY <1>8, <2>2
    <3>2. Origin(r) /\ found[kept[k]].sources = Summary(r).sources
      BY <1>1, <1>11, <2>2, <3>1 DEF CallInv, GenuineInv, Held
    <3> QED
      BY <1>8, <3>1, <3>2 DEF Keeps
  <2> QED
    BY <1>1, <2>1, <2>2 DEF GenuineInv
<1> QED
  BY <1>1, <1>3, <1>9, <1>10, <1>11 DEF CallInv, GenuineInv

\* A row has a path to be ordered by when its Sources have one.
LEMMA PathShown ==
  ASSUME NEW row \in Rows, query.sort = "path"
  PROVE  Candidate(row).path = None <=> PathOf(row, query.filters) = None
<1> DEFINE f == query.filters
           mentioned == [sources |-> {s \in row.sources : s.location \in Mentions}]
           rank == Candidate(row).rank
<1>1. row.sources \in SUBSET Sources
  BY DEF Rows
<1>2. PathOf(row, f) = None <=> PathsOf(row.sources, f) = {}
  BY <1>1, PathIs
<1>3. PathOf(mentioned, f) = None <=> PathsOf(mentioned.sources, f) = {}
  BY <1>1, PathIs
<1>4. /\ Candidate(row).path = ShownPath(row, rank)
      /\ rank = IF query.primary = "metadata_text" THEN MatchRank(row) ELSE row.rank
  BY CandidateIs
<1>5. PathsOf(mentioned.sources, f) = PathsOf(row.sources, f) \cap Mentions
  BY DEF PathsOf, EligibleIn
<1> HIDE DEF rank
<1>6. CASE query.primary = "metadata_text" /\ rank = 3
  <2>1. MatchRank(row) = 3
    BY <1>4, <1>6
  <2>2. PathsOf(row.sources, f) \cap Mentions # {}
    BY <2>1, ReadsAssumption DEF MatchRank
  <2>3. ShownPath(row, rank) = PathOf(mentioned, f)
    BY <1>6 DEF ShownPath
  <2> HIDE DEF mentioned, f
  <2> QED
    BY <1>2, <1>3, <1>4, <1>5, <2>2, <2>3 DEF f
<1>7. CASE ~(query.primary = "metadata_text" /\ rank = 3)
  <2>1. ShownPath(row, rank) = PathOf(row, f)
    BY <1>7 DEF ShownPath
  <2> QED
    BY <1>4, <2>1
<1> QED
  BY <1>6, <1>7

LEMMA CallSelect ==
  ASSUME ChainInv, CallInv, Select
  PROVE  CallInv'
<1>1. /\ pc = "answer" /\ pc' = "reply" /\ found' = Candidates(found)
      /\ \A i \in DOMAIN found : ~Unprojectable(found[i])
      /\ UNCHANGED <<assets, query, snapshot, steady, stirred, ids, position, more, timedOut>>
  BY DEF Select, worldVars, callVars
<1>2. QueryTypes /\ found \in Seq(Rows) /\ IsQuery(query)
  BY <1>1 DEF ChainInv, QueryTypes
<1>3. SteadyInv' /\ SameRead /\ Selected(query, snapshot)' = Selected(query, snapshot)
  BY <1>1, SteadyStays DEF CallInv, Calling
<1>4. \A r \in steady : Answers(r) /\ r \in Resources /\ Created[r] < snapshot
  BY <1>1, SteadyAnswers DEF CallInv, Calling
<1>5. Apart(found)
  BY <1>1 DEF CallInv, OrderInv
<1>6. /\ \A k \in DOMAIN found' : \E i \in KeptAt(found) : found'[k].ref = found[i].ref
      /\ \A i \in KeptAt(found) : \E k \in DOMAIN found' : found'[k].ref = found[i].ref
      /\ query.primary # "provider_semantic" =>
             \A j, k \in DOMAIN found' : found'[j].ref = found'[k].ref => j = k
  BY <1>1, <1>2, <1>5, CandidatesAre DEF QueryTypes
<1>7. \A i \in DOMAIN found :
          /\ found[i] \in Rows /\ found[i].ref \in Resources
          /\ Candidate(found[i]).ref = found[i].ref
          /\ query.sort = "path" =>
                 (Candidate(found[i]).path = None <=> PathOf(found[i], query.filters) = None)
  <2> TAKE i \in DOMAIN found
  <2>1. found[i] \in Rows
    BY <1>2
  <2>2. found[i].ref \in Resources
    BY <2>1 DEF Rows
  <2> QED
    BY <2>1, <2>2, CandidateIs, PathShown
<1>8. \A i \in DOMAIN found :
          i \in KeptAt(found) <=>
              LET r == found[i].ref
              IN  /\ Since(query, snapshot) <= Created[r] /\ Created[r] < snapshot
                  /\ NeedsSignals(query) => SignalsMatch(query, assets[r].captured)
                  /\ query.sort = "path" => PathOf(found[i], query.filters) # None
  BY <1>7 DEF KeptAt, Kept
<1>9. OrderInv'
  BY <1>1, <1>6 DEF OrderInv
<1>10. CoverInv'
  <2>1. ASSUME ~more, ~timedOut, NEW r \in steady PROVE r \in Refs(found)'
    <3>1. r \in Refs(found)
      BY <1>1, <2>1 DEF CallInv, CoverInv
    <3>2. PICK i \in DOMAIN found : found[i].ref = r
      BY <3>1 DEF Refs
    <3>3. query.sort = "path" => PathOf(found[i], query.filters) # None
      BY <1>1, <3>2 DEF CallInv, CoverInv, Held
    <3>4. i \in KeptAt(found)
      BY <1>4, <1>8, <3>2, <3>3 DEF Answers, Listed, Visible
    <3>5. PICK k \in DOMAIN found' : found'[k].ref = r
      BY <1>6, <3>2, <3>4
    <3> QED
      BY <3>5 DEF Refs
  <2> QED
    BY <1>1, <2>1 DEF CoverInv, Held
<1>11. ASSUME ~stirred PROVE GenuineInv'
  <2>1. ASSUME NEW k \in DOMAIN found'
        PROVE  found'[k].ref \in Selected(query, snapshot)
    <3>1. PICK i \in KeptAt(found) : found'[k].ref = found[i].ref
      BY <1>6
    <3>2. PICK r \in Resources : r = found[i].ref
      BY <1>7, <3>1 DEF KeptAt
    <3>3. i \in DOMAIN found
      BY <3>1 DEF KeptAt
    <3>4. /\ Since(query, snapshot) <= Created[r] /\ Created[r] < snapshot
          /\ NeedsSignals(query) => SignalsMatch(query, assets[r].captured)
          /\ query.sort = "path" => PathOf(found[i], query.filters) # None
      BY <1>8, <3>1, <3>2, <3>3
    <3>5. Origin(r) /\ found[i].sources = Summary(r).sources
      BY <1>1, <1>11, <3>2, <3>3, <3>4 DEF CallInv, GenuineInv, Held
    <3>6. r \in Listed(query.filters, Since(query, snapshot), snapshot)
      <4>1. CASE query.primary \in Paged
        BY <1>2, <3>5, <4>1, SelectedIs DEF Origin, Everything, Primary, Searched, Paged
      <4>2. CASE query.primary \notin Paged
        <5>1. assets[r].stored /\ ActiveSourceExists(r, AnySource)
          <6>1. CASE query.primary = "provider_semantic"
            <7>1. PICK l : HitBy(r, l)
              BY <3>5, <6>1 DEF Origin
            <7> QED
              BY <7>1 DEF HitBy, ActiveSourceExists, EligibleSource, AnySource
          <6>2. CASE query.primary # "provider_semantic"
            BY <3>5, <4>2, <6>2 DEF Origin, Observed
          <6> QED
            BY <6>1, <6>2
        <5>2. ActiveSourceExists(r, query.filters)
          BY <1>1, <1>11, <3>2, <3>3, <3>4, <4>2, <5>1 DEF CallInv, GenuineInv
        <5> QED
          BY <3>4, <5>1, <5>2 DEF Listed, Visible
      <4> QED
        BY <4>1, <4>2
    <3>7. SignalsMatch(query, assets[r].captured)
      BY <3>4 DEF SignalsMatch, NeedsSignals, Taken
    <3>8. query.sort = "path" => PathOf(Summary(r), query.filters) # None
      BY <3>4, <3>5, PathOfRow
    <3>9. Answers(r)
      BY <3>5, <3>6, <3>7, <3>8 DEF Answers
    <3> QED
      BY <1>2, <3>1, <3>2, <3>9, SelectedIs
  <2>2. Refs(found') \subseteq Selected(query, snapshot)
    BY <2>1 DEF Refs
  <2> QED
    BY <1>1, <1>3, <1>11, <2>2 DEF GenuineInv, Refs, Held
<1> QED
  BY <1>1, <1>3, <1>9, <1>10, <1>11 DEF CallInv, GenuineInv

LEMMA CallAnswer ==
  ASSUME ChainInv, CallInv, Answer
  PROVE  CallInv'
<1>1. /\ pc = "reply" /\ pc' \in {"client", "over"}
      /\ UNCHANGED <<assets, query, snapshot, steady, stirred>>
  BY DEF Answer, AnswerPage, Give, worldVars, callVars
<1>2. SteadyInv'
  BY <1>1, SteadyStays DEF CallInv, Calling
<1> QED
  BY <1>1, <1>2 DEF CallInv, OrderInv, CoverInv, GenuineInv, Held

\* An answer that ends the chain and names no reason gave the last of all there is.
LEMMA AnswerIsDone ==
  ASSUME NoneIsNoDigest, ChainInv, CallInv, Answer
  PROVE  DoneInv'
<1> SUFFICES ASSUME Whole' PROVE DoneInv'
  BY DEF DoneInv
<1> DEFINE L == Len(found)
           R == [i \in 1..L |-> found[i].ref]
           next == offset + Len(Fitting(Page))
           refs == Refs(found)
<1>1. /\ pc = "reply" /\ UNCHANGED <<assets, query, snapshot, steady, stirred>>
  BY DEF Answer, worldVars, callVars
<1>2. /\ L \in Nat /\ DOMAIN found = 1..L
      /\ R \in Seq(Range(R)) /\ Len(R) = L
      /\ next \in 0..L /\ delivered' = SubSeq(R, 1, next)
  BY AnswerGives
<1>3. next = L /\ ~more /\ ~timedOut
  <2>1. pc' = "over" /\ status' = None
    BY DEF Whole
  <2>2. "client" # "over" /\ None # "serialized_byte_limit" /\ None # "timeout" /\ None # "scan_limit"
    BY QueryAssumption
  <2>3. ~(Len(Fitting(Page)) < Len(Page))
    BY <2>1, <2>2 DEF Answer, AnswerPage, Give
  <2>4. Give(Fitting(Page), next, next < L \/ (more /\ PartialReason = None), PartialReason)
    BY <2>3 DEF Answer, AnswerPage
  <2>5. PartialReason = None /\ ~(next < L) /\ ~more
    BY <2>1, <2>2, <2>4 DEF Give
  <2>6. ~timedOut
    BY <2>2, <2>5 DEF PartialReason
  <2> HIDE DEF next, L
  <2> QED
    BY <1>2, <2>5, <2>6
<1>4. delivered' = R
  <2> DEFINE S == Range(R)
  <2>1. R \in Seq(S) /\ Len(R) = L /\ delivered' = SubSeq(R, 1, L)
    BY <1>2, <1>3
  <2> HIDE DEF S, R, L, next
  <2>2. SubSeq(R, 1, L) = R
    BY <2>1
  <2> QED
    BY <2>1, <2>2
<1>5. Range(R) = refs
  BY <1>2 DEF Range, Refs
<1>6. steady \subseteq refs
  BY <1>1, <1>3 DEF CallInv, CoverInv
<1>7. query.primary # "provider_semantic" => IsInjective(R)
  <2>1. query.primary # "provider_semantic" =>
            \A i, j \in DOMAIN found : found[i].ref = found[j].ref => i = j
    BY <1>1 DEF CallInv, OrderInv
  <2> QED
    BY <1>2, <2>1 DEF IsInjective
<1>8. ~stirred => refs = Selected(query, snapshot)
  BY <1>1, <1>6 DEF CallInv, GenuineInv, SteadyInv, Calling
<1>9. SameRead /\ IsQuery(query)
  BY <1>1 DEF SameRead, ChainInv, QueryTypes
<1>10. Selected(query, snapshot)' = Selected(query, snapshot)
  BY <1>9, SelectedStays
<1> HIDE DEF R, refs
<1>11. Range(delivered)' = refs
  BY <1>4, <1>5 DEF Range
<1>12. (query.primary # "provider_semantic" => IsInjective(delivered))'
  BY <1>1, <1>4, <1>7 DEF IsInjective
<1> QED
  BY <1>1, <1>6, <1>8, <1>10, <1>11, <1>12 DEF DoneInv

LEMMA CompleteNext ==
  ASSUME NoneIsNoDigest, CompleteInv, [QueryNext]_queryVars
  PROVE  CompleteInv'
<1>0. ChainInv /\ ChainInv' /\ CallInv /\ DoneInv /\ QueryTypes /\ IsQuery(query)
  BY ChainNext DEF CompleteInv, ChainInv, QueryTypes
<1> DEFINE Goal == CallInv' /\ DoneInv'
<1> SUFFICES Goal
  BY <1>0 DEF CompleteInv
<1>goes. pc' # "over" => DoneInv'
  BY DEF DoneInv, Whole
<1>fails. ASSUME Fail("ambiguous") \/ Fail("projection") \/ Fail("changed") PROVE Goal
  <2>1. pc' = "over" /\ status' # None
    BY <1>fails, QueryAssumption DEF Fail
  <2> QED
    BY <2>1, CallOver DEF DoneInv, Whole
<1>1. CASE UNCHANGED queryVars
  <2>1. SameRead /\ UNCHANGED <<query, snapshot, pc, token, ids, found, position, more, timedOut, steady,
                                stirred, status, delivered>>
    BY <1>1 DEF queryVars, SameRead
  <2>2. Selected(query, snapshot)' = Selected(query, snapshot)
    BY <1>0, <2>1, SelectedStays
  <2>3. CallInv'
    BY <1>0, <2>1, WorldMoves
  <2>4. DoneInv'
    BY <1>0, <2>1, <2>2 DEF DoneInv, Whole, Range, IsInjective
  <2> QED
    BY <2>3, <2>4
<1>2. ASSUME NEW r \in Resources,
             \/ CommitAsset(r)
             \/ \E s \in assets[r].sources, active \in BOOLEAN, location \in Locations :
                    SyncSource(r, s, active, location)
             \/ \E said \in BOOLEAN, captured \in Captures \cup {None} : Restate(r, said, captured)
      PROVE  Goal
  <2>1. PICK asset \in Assets : Change(r, asset)
    BY <1>0, <1>2, ChangesAre
  <2>2. /\ UNCHANGED <<query, snapshot, pc, token, ids, found, position, more, timedOut>>
        /\ assets' = [assets EXCEPT ![r] = asset]
        /\ stirred' = (stirred \/ Created[r] < snapshot)
        /\ steady' = steady \cap Selected(query, snapshot)'
        /\ pc # "over"
    BY <2>1 DEF Change, callVars, scanVars, clientVars
  <2>3. ~stirred' => ~stirred /\ SameRead
    BY <1>0, <2>2 DEF SameRead, QueryTypes
  <2>4. CallInv'
    BY <1>0, <2>2, <2>3, WorldMoves
  <2> QED
    BY <1>goes, <2>2, <2>4
<1>3. CASE Tick
  <2>1. SameRead /\ UNCHANGED <<query, snapshot, pc, token, ids, found, position, more, timedOut, steady, stirred>>
        /\ pc # "over"
    BY <1>3 DEF Tick, SameRead, callVars, scanVars, clientVars
  <2>2. CallInv'
    BY <1>0, <2>1, WorldMoves
  <2> QED
    BY <1>goes, <2>1, <2>2
<1>4. CASE Ask \/ TimeOut \/ ReadPage \/ LoadPage \/ ReadPrimary \/ LoadCandidates \/ Refine \/ Select
  <2>1. pc' # "over"
    BY <1>4 DEF Ask, TimeOut, ReadPage, LoadPage, ReadPrimary, LoadCandidates, Refine, Select
  <2>2. CallInv'
    BY <1>0, <1>4, CallAsk, CallTimeOut, CallReadPage, CallLoadPage, CallReadPrimary,
       CallLoadCandidates, CallRefine, CallSelect
  <2> QED
    BY <1>goes, <2>1, <2>2
<1>5. CASE MapHits
  <2>1. CASE pc' # "over"
    BY <1>0, <1>5, <1>goes, <2>1, CallMapHits
  <2>2. CASE pc' = "over"
    <3>1. Fail("ambiguous")
      BY <1>5, <2>2 DEF MapHits
    <3> QED
      BY <1>fails, <3>1
  <2> QED
    BY <2>1, <2>2
<1>6. CASE ProjectionError \/ SelectionChanged
  BY <1>6, <1>fails DEF ProjectionError, SelectionChanged
<1>7. CASE Answer
  BY <1>0, <1>7, CallAnswer, AnswerIsDone
<1> QED
  BY <1>1, <1>2, <1>3, <1>4, <1>5, <1>6, <1>7 DEF QueryNext, Service

LEMMA CompleteInit ==
  ASSUME NEW c, IsQuery(c[1]), c[2] \in [Resources -> Assets], InitQuery(c[1], c[2], "client")
  PROVE  CompleteInv
<1>1. ChainInv
  BY ChainInit
<1>2. pc = "client" /\ token = NoToken
  BY DEF InitQuery
<1> QED
  BY <1>1, <1>2 DEF CompleteInv, CallInv, SteadyInv, OrderInv, CoverInv, GenuineInv, DoneInv, Whole,
                    Calling, Held

LEMMA SumSetIs ==
  ASSUME NEW d, NEW S
  PROVE  MapThenSumSet(LAMBDA k : d[k], S) = SumOver(d, S)
BY DEF MapThenSumSet, SumOver, FoldFunctionOnSet, MapThenFoldSet

\* The days of what is listed add up to it.
LEMMA DaysAddUp ==
  ASSUME NEW f, NEW since, NEW until
  PROVE  LET days == Buckets(f, since, until, "day")
         IN  SumOver(days, DOMAIN days) = Cardinality(Listed(f, since, until))
<1> DEFINE L == Listed(f, since, until)
           eligible(r) == {t \in assets[r].sources : EligibleSource(t, f)}
           keys(r) == {BucketOf("day", r, s) : s \in eligible(r)}
           K == {Created[r] : r \in L}
           days == Buckets(f, since, until, "day")
<1>1. IsFiniteSet(L) /\ IsFiniteSet(K)
  <2>1. L \in SUBSET Resources
    BY DEF Listed
  <2>2. IsFiniteSet(L)
    BY <2>1, FS_Subset, ReadsAssumption
  <2> DEFINE g == [r \in L |-> Created[r]]
  <2> HIDE DEF L
  <2>3. g \in Surjection(L, K)
    BY DEF Surjection
  <2> HIDE DEF g, K
  <2> QED
    BY <2>2, <2>3, FS_Surjection
<1>2. \A r \in L : keys(r) = {Created[r]}
  <2> TAKE r \in L
  <2>1. eligible(r) # {}
    BY DEF Listed, Visible, ActiveSourceExists
  <2>2. \A s : BucketOf("day", r, s) = Created[r]
    BY DEF BucketOf
  <2> HIDE DEF eligible
  <2> QED
    BY <2>1, <2>2
<1>3. days = [k \in UNION {keys(r) : r \in L} |-> Cardinality({r \in L : k \in keys(r)})]
  BY DEF Buckets
<1> HIDE DEF keys, L
<1>4. UNION {keys(r) : r \in L} = K
  BY <1>2
<1>5. \A k : {r \in L : k \in keys(r)} = {r \in L : Created[r] = k}
  BY <1>2
<1>6. DOMAIN days = K /\ \A k \in K : days[k] = Cardinality({r \in L : Created[r] = k})
  BY <1>3, <1>4, <1>5
<1>7. \A r \in L : Created[r] \in K
  OBVIOUS
<1> HIDE DEF days, K
<1>8. SumOver(days, K) = Cardinality(L)
  BY <1>1, <1>6, <1>7, SumOfParts
<1> QED
  BY <1>6, <1>8 DEF days, L

\* A complete answer to a recent query is as long as aggregation counts.
LEMMA TotalsAgree ==
  ASSUME CompleteInv, Whole, ~stirred, query.primary = "recent", ~NeedsSignals(query)
  PROVE  LET since == Since(query, snapshot)
             days == Buckets(query.filters, since, snapshot, "day")
         IN  /\ Total(query.filters, since, snapshot) = Len(delivered)
             /\ MapThenSumSet(LAMBDA d : days[d], DOMAIN days) = Len(delivered)
<1> DEFINE since == Since(query, snapshot)
           L == Listed(query.filters, since, snapshot)
           days == Buckets(query.filters, since, snapshot, "day")
<1>1. Selected(query, snapshot) = L
  <2>1. query.sort \in {"observed", "captured"} /\ query.sort # "captured" /\ query.taken = None
    BY DEF CompleteInv, ChainInv, QueryTypes, IsQuery, AllowedSorts, NeedsSignals
  <2>2. query.sort # "path" /\ \A r : SignalsMatch(query, assets[r].captured)
    BY <2>1 DEF SignalsMatch, Taken
  <2>3. Primary(query, snapshot) = L
    BY DEF Primary
  <2> HIDE DEF L
  <2> QED
    BY <2>2, <2>3 DEF Selected
<1>2. Range(delivered) = L /\ IsInjective(delivered)
  BY <1>1 DEF CompleteInv, DoneInv
<1>3. delivered \in Seq(Range(chosen))
  <2> DEFINE S == Range(chosen)
             n == Len(delivered)
  <2>1. chosen \in Seq(S) /\ n \in 0..Len(chosen) /\ delivered = SubSeq(chosen, 1, n)
    BY DEF CompleteInv, ChainInv
  <2> HIDE DEF S, n
  <2>2. SubSeq(chosen, 1, n) \in Seq(S)
    BY <2>1
  <2> QED
    BY <2>1, <2>2 DEF S
<1>4. Cardinality(L) = Len(delivered)
  <2> DEFINE S == Range(chosen)
  <2>1. delivered \in Seq(S) /\ \A i, j \in DOMAIN delivered : delivered[i] = delivered[j] => i = j
    BY <1>2, <1>3 DEF IsInjective
  <2> HIDE DEF S, L
  <2>2. Cardinality(Range(delivered)) = Len(delivered)
    BY <2>1, LengthIs
  <2> QED
    BY <1>2, <2>2
<1>5. Total(query.filters, since, snapshot) = Cardinality(L)
  BY DEF Total
<1>6. SumOver(days, DOMAIN days) = Cardinality(L)
  BY DaysAddUp
<1>7. MapThenSumSet(LAMBDA d : days[d], DOMAIN days) = SumOver(days, DOMAIN days)
  BY SumSetIs
<1> HIDE DEF L, days
<1>8. MapThenSumSet(LAMBDA d : days[d], DOMAIN days) = Len(delivered)
  BY <1>4, <1>6, <1>7
<1> QED
  BY <1>4, <1>5, <1>8 DEF days

\* CompleteIsAll, for every instance and every set of accepted queries: a chain that ends complete
\* has all that answered the query throughout, and what it selects when nothing changed, as many as
\* aggregation counts; nothing is in it twice unless the Provider ranked it (provider_semantic),
\* where each Source it ranked counts.
THEOREM CompleteChainsAreAll ==
  ASSUME NoneIsNoDigest, NEW cases,
         \A c \in cases : IsQuery(c[1]) /\ c[2] \in [Resources -> Assets]
  PROVE  QuerySpec(cases) => []CompleteIsAll
<1>1. (\E c \in cases : InitQuery(c[1], c[2], "client")) => CompleteInv
  BY CompleteInit
<1>2. CompleteInv /\ [QueryNext]_queryVars => CompleteInv'
  BY CompleteNext
<1>3. CompleteInv => CompleteIsAll
  <2> SUFFICES ASSUME CompleteInv, Whole PROVE CompleteIsAll
    BY DEF CompleteIsAll
  <2>1. /\ steady \subseteq Range(delivered)
        /\ query.primary # "provider_semantic" => IsInjective(delivered)
        /\ ~stirred => Range(delivered) = Selected(query, snapshot)
    BY DEF CompleteInv, DoneInv
  <2>2. ~stirred /\ query.primary = "recent" /\ ~NeedsSignals(query) =>
            LET since == Since(query, snapshot)
                days == Buckets(query.filters, since, snapshot, "day")
            IN  /\ Total(query.filters, since, snapshot) = Len(delivered)
                /\ MapThenSumSet(LAMBDA d : days[d], DOMAIN days) = Len(delivered)
    BY TotalsAgree
  <2> QED
    BY <2>1, <2>2 DEF CompleteIsAll
<1> QED
  BY <1>1, <1>2, <1>3, PTL DEF QuerySpec

-----------------------------------------------------------------------------
USE AccessAssumption

-----------------------------------------------------------------------------
(* What a step of one request does to the number of holders.               *)

LEMMA HoldersFinite ==
  /\ IsFiniteSet(Holders) /\ Cardinality(Holders) \in Nat
<1>1. Holders \subseteq Requests
  BY DEF Holders
<1> QED
  BY <1>1, FS_Subset, FS_CardinalityType

LEMMA HoldersAfterStep ==
  ASSUME AccessTypeOK, NEW s \in Requests, NEW step, Step(s, step)
  PROVE  /\ (request[s] \notin Holding /\ step \in Holding)
              => Cardinality(Holders') = Cardinality(Holders) + 1
         /\ (request[s] \in Holding /\ step \notin Holding)
              => Cardinality(Holders') = Cardinality(Holders) - 1
         /\ (request[s] \in Holding <=> step \in Holding) => Holders' = Holders
<1>1. \A r \in Requests : request'[r] = IF r = s THEN step ELSE request[r]
  BY DEF Step, AccessTypeOK
<1>2. Holders' = IF step \in Holding THEN Holders \cup {s} ELSE Holders \ {s}
  BY <1>1 DEF Holders
<1>3. s \in Holders <=> request[s] \in Holding
  BY DEF Holders
<1>4. CASE request[s] \notin Holding /\ step \in Holding
  BY <1>2, <1>3, <1>4, HoldersFinite, FS_AddElement
<1>5. CASE request[s] \in Holding /\ step \notin Holding
  BY <1>2, <1>3, <1>5, HoldersFinite, FS_RemoveElement
<1>6. CASE request[s] \in Holding <=> step \in Holding
  BY <1>2, <1>3, <1>6
<1> QED
  BY <1>4, <1>5, <1>6

-----------------------------------------------------------------------------
(* The steps that leave permits and queue alone: one request goes on, and  *)
(* holds a permit before and after, or neither.                            *)

Pcs == Holding \cup {"new", "waiting", "failed", "closed"}

LEMMA StepKeepsBalance ==
  ASSUME PermitsBalance, NEW s \in Requests, NEW step \in Pcs, Step(s, step),
         request[s] \in Holding <=> step \in Holding,
         request[s] # "waiting",
         UNCHANGED <<permits, queue>>,
         gone' \in [Requests -> BOOLEAN], closes' \in [Requests -> 0..MaxCloses]
  PROVE  PermitsBalance'
<1>1. AccessTypeOK'
  BY DEF PermitsBalance, AccessTypeOK, Step, Pcs
<1>2. Holders' = Holders
  BY HoldersAfterStep DEF PermitsBalance
<1>3. \A i \in DOMAIN queue : queue[i] # s /\ request'[queue[i]] = "waiting"
  BY DEF PermitsBalance, AccessTypeOK, Step
<1> QED
  BY <1>1, <1>2, <1>3 DEF PermitsBalance

LEMMA StillKeepsBalance ==
  ASSUME PermitsBalance, UNCHANGED <<request, permits, queue>>,
         gone' \in [Requests -> BOOLEAN], closes' \in [Requests -> 0..MaxCloses]
  PROVE  PermitsBalance'
<1>1. Holders' = Holders
  BY DEF Holders
<1> QED
  BY <1>1 DEF PermitsBalance, AccessTypeOK

LEMMA FinishKeepsBalance ==
  ASSUME PermitsBalance, NEW s \in Requests, Finish(s),
         request[s] \in {"opening", "open", "body", "closing", "closed"},
         UNCHANGED <<permits, queue>>,
         gone' \in [Requests -> BOOLEAN], closes' \in [Requests -> 0..MaxCloses]
  PROVE  PermitsBalance'
<1>1. CASE request[s] \in {"closing", "closed"}
  BY <1>1, StillKeepsBalance DEF Finish
<1>2. CASE request[s] \notin {"closing", "closed"}
  <2>1. Step(s, "closing") /\ request[s] \in Holding /\ request[s] # "waiting"
    BY <1>2 DEF Finish, Holding
  <2>2. "closing" \in Holding /\ "closing" \in Pcs
    BY DEF Holding, Pcs
  <2> QED
    BY <2>1, <2>2, StepKeepsBalance
<1> QED
  BY <1>1, <1>2

-----------------------------------------------------------------------------
(* The steps at the semaphore.                                             *)

LEMMA ResolveKeepsBalance ==
  ASSUME PermitsBalance, NEW s \in Requests, NEW n \in 0..2, Resolve(s, n)
  PROVE  PermitsBalance'
<1>1. /\ request[s] = "new" /\ "new" \notin Holding
      /\ UNCHANGED <<gone, closes>> /\ AccessTypeOK
  BY DEF Resolve, Holding, PermitsBalance
<1>2. gone' \in [Requests -> BOOLEAN] /\ closes' \in [Requests -> 0..MaxCloses]
  BY <1>1 DEF AccessTypeOK
<1>3. CASE Step(s, "failed") /\ UNCHANGED <<permits, queue>>
  <2>1. "failed" \in Pcs /\ "failed" \notin Holding
    BY DEF Pcs, Holding
  <2> QED
    BY <1>1, <1>2, <1>3, <2>1, StepKeepsBalance
<1>4. CASE Step(s, "opening") /\ permits > 0 /\ permits' = permits - 1 /\ queue' = queue
  <2>1. AccessTypeOK'
    BY <1>1, <1>2, <1>4 DEF AccessTypeOK, Step, Holding
  <2>2. Cardinality(Holders') = Cardinality(Holders) + 1
    BY <1>1, <1>4, HoldersAfterStep DEF Holding
  <2>3. permits' + Cardinality(Holders') = MaxActive
    BY <1>1, <1>4, <2>2, HoldersFinite DEF PermitsBalance, AccessTypeOK
  <2>4. \A i \in DOMAIN queue : queue[i] # s /\ request'[queue[i]] = "waiting"
    BY <1>1, <1>4 DEF PermitsBalance, AccessTypeOK, Step
  <2> QED
    BY <1>4, <2>1, <2>3, <2>4 DEF PermitsBalance
<1>5. CASE Step(s, "waiting") /\ queue' = Append(queue, s) /\ permits' = permits
  <2>1. AccessTypeOK'
    BY <1>1, <1>2, <1>5 DEF AccessTypeOK, Step
  <2>2. Holders' = Holders
    BY <1>1, <1>5, HoldersAfterStep DEF Holding
  <2>3. /\ queue \in Seq(Requests) /\ Len(queue') = Len(queue) + 1
        /\ \A i \in 1..Len(queue) : queue'[i] = queue[i]
        /\ queue'[Len(queue) + 1] = s
    BY <1>1, <1>5 DEF AccessTypeOK
  <2>4. \A i \in 1..Len(queue) : queue[i] # s /\ request'[queue[i]] = "waiting"
    BY <1>1, <1>5, <2>3 DEF PermitsBalance, AccessTypeOK, Step
  <2>5. request'[s] = "waiting"
    BY <1>1, <1>5 DEF AccessTypeOK, Step
  <2>6. queue' \in Seq(Requests)
    BY <2>1 DEF AccessTypeOK
  <2>7. \A i \in DOMAIN queue' : request'[queue'[i]] = "waiting"
    BY <2>3, <2>4, <2>5, <2>6
  <2>8. \A i, j \in DOMAIN queue' : i # j => queue'[i] # queue'[j]
    <3>1. \A i, j \in 1..Len(queue) : i # j => queue[i] # queue[j]
      BY <2>3 DEF PermitsBalance
    <3> QED
      BY <2>3, <2>4, <2>6, <3>1
  <2> QED
    BY <1>5, <2>1, <2>2, <2>7, <2>8 DEF PermitsBalance
<1> QED
  BY <1>3, <1>4, <1>5 DEF Resolve

LEMMA AcquireKeepsBalance ==
  ASSUME PermitsBalance, Acquire
  PROVE  PermitsBalance'
<1> DEFINE s == Head(queue)
<1>1. /\ AccessTypeOK /\ queue \in Seq(Requests) /\ queue # <<>> /\ permits > 0
      /\ queue' = Tail(queue) /\ permits' = permits - 1 /\ UNCHANGED <<gone, closes>>
  BY DEF Acquire, PermitsBalance, AccessTypeOK
<1>2. /\ Len(queue) \in Nat /\ Len(queue) >= 1 /\ s = queue[1] /\ s \in Requests
      /\ queue' \in Seq(Requests) /\ Len(queue') = Len(queue) - 1
      /\ \A i \in 1..(Len(queue) - 1) : queue'[i] = queue[i + 1]
  BY <1>1
<1>3. Step(s, "opening") /\ request[s] = "waiting"
  BY <1>1, <1>2 DEF Acquire, PermitsBalance
<1> HIDE DEF s
<1>4. AccessTypeOK'
  BY <1>1, <1>2, <1>3 DEF AccessTypeOK, Step, Holding
<1>5. Cardinality(Holders') = Cardinality(Holders) + 1
  BY <1>1, <1>2, <1>3, HoldersAfterStep DEF Holding
<1>6. permits' + Cardinality(Holders') = MaxActive
  BY <1>1, <1>5, HoldersFinite DEF PermitsBalance, AccessTypeOK
<1>7. \A i, j \in 1..Len(queue) : i # j => queue[i] # queue[j]
  BY <1>1 DEF PermitsBalance
<1>8. \A i \in 2..Len(queue) : queue[i] # s /\ request'[queue[i]] = "waiting"
  <2>1. \A i \in 2..Len(queue) : queue[i] # queue[1] /\ queue[i] \in Requests
    BY <1>1, <1>2, <1>7
  <2>2. \A i \in 2..Len(queue) : request[queue[i]] = "waiting"
    BY <1>1, <1>2 DEF PermitsBalance
  <2> QED
    BY <1>1, <1>2, <1>3, <2>1, <2>2 DEF Step, AccessTypeOK
<1>9. \A i \in DOMAIN queue' : request'[queue'[i]] = "waiting"
  BY <1>2, <1>8
<1>10. ASSUME NEW i \in DOMAIN queue', NEW j \in DOMAIN queue', i # j
       PROVE  queue'[i] # queue'[j]
  <2>1. i \in 1..(Len(queue) - 1) /\ j \in 1..(Len(queue) - 1)
    BY <1>2
  <2>2. i + 1 \in 1..Len(queue) /\ j + 1 \in 1..Len(queue) /\ i + 1 # j + 1
    BY <1>2, <1>10, <2>1
  <2> QED
    BY <1>2, <1>7, <2>1, <2>2
<1> QED
  BY <1>4, <1>6, <1>9, <1>10 DEF PermitsBalance

LEMMA CancelKeepsBalance ==
  ASSUME PermitsBalance, NEW i \in DOMAIN queue, CancelWaiting(i)
  PROVE  PermitsBalance'
<1> DEFINE s == queue[i]
<1>1. /\ AccessTypeOK /\ queue \in Seq(Requests) /\ i \in 1..Len(queue)
      /\ Len(queue) \in Nat /\ s \in Requests
      /\ queue' = RemoveAt(queue, i) /\ UNCHANGED <<gone, closes, permits>>
  BY DEF CancelWaiting, PermitsBalance, AccessTypeOK
<1>2. /\ queue' \in Seq(Requests) /\ Len(queue') = Len(queue) - 1
      /\ \A j \in 1..(i - 1) : queue'[j] = queue[j]
      /\ \A j \in i..(Len(queue) - 1) : queue'[j] = queue[j + 1]
  BY <1>1, RemoveAtIs
<1>3. Step(s, "failed") /\ request[s] = "waiting"
  BY <1>1 DEF CancelWaiting, PermitsBalance
<1>4. AccessTypeOK'
  BY <1>1, <1>2, <1>3 DEF AccessTypeOK, Step
<1>5. Holders' = Holders
  BY <1>1, <1>3, HoldersAfterStep DEF Holding
<1>6. \A j, k \in 1..Len(queue) : j # k => queue[j] # queue[k]
  BY <1>1 DEF PermitsBalance
<1>7. \A j \in 1..Len(queue) : j # i => queue[j] \in Requests /\ queue[j] # s
                                       /\ request[queue[j]] = "waiting"
  BY <1>1, <1>6 DEF PermitsBalance
<1>8. \A j \in 1..Len(queue) : j # i => request'[queue[j]] = "waiting"
  BY <1>1, <1>3, <1>7 DEF Step, AccessTypeOK
<1> DEFINE Old(j) == IF j < i THEN j ELSE j + 1
<1>9. ASSUME NEW j \in 1..Len(queue')
      PROVE  Old(j) \in 1..Len(queue) /\ Old(j) # i /\ queue'[j] = queue[Old(j)]
  <2>0. Len(queue) \in Nat /\ i \in 1..Len(queue) /\ j \in 1..(Len(queue) - 1)
    BY <1>1, <1>2
  <2>1. CASE j < i
    <3>1. j \in 1..(i - 1) /\ j \in 1..Len(queue) /\ j # i
      BY ONLY <2>0, <2>1
    <3> QED
      BY <1>2, <2>1, <3>1
  <2>2. CASE ~(j < i)
    <3>1. j \in i..(Len(queue) - 1) /\ j + 1 \in 1..Len(queue) /\ j + 1 # i
      BY ONLY <2>0, <2>2
    <3> QED
      BY <1>2, <2>2, <3>1
  <2> QED
    BY <2>1, <2>2
<1>10. DOMAIN queue' = 1..Len(queue')
  BY <1>2
<1>11. \A j \in DOMAIN queue' : request'[queue'[j]] = "waiting"
  BY <1>8, <1>9, <1>10
<1>12. \A j, k \in DOMAIN queue' : j # k => queue'[j] # queue'[k]
  BY <1>1, <1>2, <1>6, <1>9, <1>10
<1> QED
  BY <1>1, <1>4, <1>5, <1>11, <1>12 DEF PermitsBalance

LEMMA ReleaseKeepsBalance ==
  ASSUME PermitsBalance, NEW s \in Requests, Release(s)
  PROVE  PermitsBalance'
<1>1. /\ AccessTypeOK /\ request[s] = "closing" /\ Step(s, "closed")
      /\ permits' = permits + 1 /\ UNCHANGED <<gone, closes, queue>>
  BY DEF Release, PermitsBalance
<1>2. AccessTypeOK'
  BY <1>1 DEF AccessTypeOK, Step
<1>3. Cardinality(Holders') = Cardinality(Holders) - 1
  BY <1>1, HoldersAfterStep DEF Holding
<1>4. permits' + Cardinality(Holders') = MaxActive
  BY <1>1, <1>3, HoldersFinite DEF PermitsBalance, AccessTypeOK
<1>5. \A i \in DOMAIN queue : queue[i] # s /\ request'[queue[i]] = "waiting"
  BY <1>1 DEF PermitsBalance, AccessTypeOK, Step
<1> QED
  BY <1>1, <1>2, <1>4, <1>5 DEF PermitsBalance

-----------------------------------------------------------------------------

LEMMA BalanceInit == InitStreams("new") => PermitsBalance
<1> SUFFICES ASSUME InitStreams("new") PROVE PermitsBalance
  OBVIOUS
<1>1. Holders = {}
  BY DEF InitStreams, Holders, Holding
<1>2. Cardinality(Holders) = 0
  BY <1>1, FS_EmptySet
<1>3. AccessTypeOK
  BY DEF InitStreams, AccessTypeOK
<1>4. queue = <<>> /\ permits = MaxActive
  BY DEF InitStreams
<1> QED
  BY <1>2, <1>3, <1>4 DEF PermitsBalance

LEMMA BalanceStep == PermitsBalance /\ [StreamNext]_streamVars => PermitsBalance'
<1> SUFFICES ASSUME PermitsBalance, [StreamNext]_streamVars PROVE PermitsBalance'
  OBVIOUS
<1>t. AccessTypeOK /\ gone \in [Requests -> BOOLEAN] /\ closes \in [Requests -> 0..MaxCloses]
  BY DEF PermitsBalance, AccessTypeOK
<1>1. CASE Acquire
  BY <1>1, AcquireKeepsBalance
<1>2. CASE \E i \in DOMAIN queue : CancelWaiting(i)
  BY <1>2, CancelKeepsBalance
<1>3. ASSUME NEW s \in Requests, NEW n \in 0..2, Resolve(s, n) PROVE PermitsBalance'
  BY <1>3, ResolveKeepsBalance
<1>4. ASSUME NEW s \in Requests, OpenFails(s) PROVE PermitsBalance'
  BY <1>t, <1>4, FinishKeepsBalance DEF OpenFails
<1>5. ASSUME NEW s \in Requests, NEW video \in BOOLEAN, NEW valid \in BOOLEAN, NEW n,
             Opened(s, video, valid, n)
      PROVE  PermitsBalance'
  <2>1. request[s] = "opening" /\ UNCHANGED <<gone, closes, permits, queue>>
    BY <1>5 DEF Opened
  <2>2. CASE Finish(s)
    BY <1>t, <2>1, <2>2, FinishKeepsBalance
  <2>3. CASE Step(s, "open")
    <3>1. "open" \in Pcs /\ "open" \in Holding /\ "opening" \in Holding
      BY DEF Pcs, Holding
    <3> QED
      BY <1>t, <2>1, <2>3, <3>1, StepKeepsBalance
  <2> QED
    BY <1>5, <2>2, <2>3 DEF Opened
<1>6. ASSUME NEW s \in Requests, Start(s) PROVE PermitsBalance'
  <2>1. "body" \in Pcs /\ "body" \in Holding /\ "open" \in Holding
    BY DEF Pcs, Holding
  <2>2. request[s] = "open" /\ Step(s, "body") /\ UNCHANGED <<gone, closes, permits, queue>>
    BY <1>6 DEF Start
  <2> QED
    BY <1>t, <2>1, <2>2, StepKeepsBalance
<1>7. ASSUME NEW s \in Requests, NEW n, Chunk(s, n) PROVE PermitsBalance'
  <2>1. request[s] = "body" /\ UNCHANGED <<gone, closes, permits, queue>>
    BY <1>7 DEF Chunk
  <2>2. CASE Finish(s)
    BY <1>t, <2>1, <2>2, FinishKeepsBalance
  <2>3. CASE UNCHANGED request
    BY <1>t, <2>1, <2>3, StillKeepsBalance
  <2> QED
    BY <1>7, <2>2, <2>3 DEF Chunk
<1>8. ASSUME NEW s \in Requests, BodyEnds(s) PROVE PermitsBalance'
  BY <1>t, <1>8, FinishKeepsBalance DEF BodyEnds
<1>9. ASSUME NEW s \in Requests, Disconnect(s) PROVE PermitsBalance'
  <2>1. gone' \in [Requests -> BOOLEAN] /\ UNCHANGED <<request, closes, permits, queue>>
    BY <1>t, <1>9 DEF Disconnect
  <2> QED
    BY <1>t, <2>1, StillKeepsBalance
<1>10. ASSUME NEW s \in Requests, Close(s) PROVE PermitsBalance'
  <2>1. /\ closes' \in [Requests -> 0..MaxCloses] /\ UNCHANGED <<gone, permits, queue>>
        /\ request[s] \in {"open", "body", "closing", "closed"} /\ Finish(s)
    BY <1>t, <1>10 DEF Close
  <2> QED
    BY <1>t, <2>1, FinishKeepsBalance
<1>11. ASSUME NEW s \in Requests, Release(s) PROVE PermitsBalance'
  BY <1>11, ReleaseKeepsBalance
<1>12. CASE UNCHANGED streamVars
  BY <1>t, <1>12, StillKeepsBalance DEF streamVars
<1> QED
  BY <1>1, <1>2, <1>3, <1>4, <1>5, <1>6, <1>7, <1>8, <1>9, <1>10, <1>11, <1>12 DEF StreamNext

\* Every permit is free or held by exactly one request, however requests wait, fail, are cancelled
\* and are closed, for any number of requests and permits (ResourceAccessService, finish).
THEOREM PermitsAreBalanced == StreamSpec => []PermitsBalance
BY BalanceInit, BalanceStep, PTL DEF StreamSpec

-----------------------------------------------------------------------------
(* Text in windows: a boundary is the sum of the widths before it, so a    *)
(* window of at least the widest character always gets on.                 *)

LEMMA ByteCountIs ==
  ASSUME NEW text
  PROVE  ByteCount(text) = SumOver(text, DOMAIN text)
  BY DEF ByteCount, SumOver, FoldSeq, FoldFunction

LEMMA BoundariesAre ==
  ASSUME NEW text \in Seq(1..4)
  PROVE  /\ Len(text) \in Nat
         /\ ByteCount(text) \in Nat /\ ByteCount(text) = SumOver(text, 1..Len(text))
         /\ Boundaries(text) = {SumOver(text, 1..n) : n \in 0..Len(text)}
         /\ SumOver(text, 1..0) = 0
         /\ \A n \in 0..Len(text) : SumOver(text, 1..n) \in 0..ByteCount(text)
         /\ \A n \in 0..(Len(text) - 1) :
               /\ SumOver(text, 1..n) < SumOver(text, 1..(n + 1))
               /\ SumOver(text, 1..(n + 1)) <= SumOver(text, 1..n) + 4
<1>1. text \in Seq(Nat) /\ Len(text) \in Nat /\ DOMAIN text = 1..Len(text)
      /\ \A i \in 1..Len(text) : text[i] \in 1..4
  OBVIOUS
<1>2. ByteCount(text) = SumOver(text, 1..Len(text))
  BY <1>1, ByteCountIs
<1>3. \A n \in 0..Len(text) :
        /\ ByteCount(SubSeq(text, 1, n)) = SumOver(text, 1..n)
        /\ SumOver(text, 1..n) \in Nat /\ SumOver(text, 1..n) <= ByteCount(text)
        /\ n = 0 => SumOver(text, 1..n) = 0
        /\ n < Len(text) => SumOver(text, 1..(n + 1)) = text[n + 1] + SumOver(text, 1..n)
  <2> TAKE n \in 0..Len(text)
  <2>1. ByteCount(SubSeq(text, 1, n)) = SumOver(SubSeq(text, 1, n), DOMAIN SubSeq(text, 1, n))
    BY ByteCountIs
  <2> QED
    BY <1>1, <1>2, <2>1, PrefixSum
<1>4. ByteCount(text) \in Nat
  BY <1>1, <1>2, <1>3
<1>5. Boundaries(text) = {SumOver(text, 1..n) : n \in 0..Len(text)}
  BY <1>3 DEF Boundaries
<1>6. SumOver(text, 1..0) = 0
  BY <1>1, <1>3
<1>7. \A n \in 0..Len(text) : SumOver(text, 1..n) \in 0..ByteCount(text)
  BY <1>3, <1>4
<1>8. ASSUME NEW n \in 0..(Len(text) - 1)
      PROVE  /\ SumOver(text, 1..n) < SumOver(text, 1..(n + 1))
             /\ SumOver(text, 1..(n + 1)) <= SumOver(text, 1..n) + 4
  <2>1. n \in 0..Len(text) /\ n < Len(text) /\ n + 1 \in 1..Len(text)
    BY <1>1
  <2>2. text[n + 1] \in 1..4
    BY <1>1, <2>1
  <2>3. /\ SumOver(text, 1..(n + 1)) = text[n + 1] + SumOver(text, 1..n)
        /\ SumOver(text, 1..n) \in Nat
    BY <1>3, <2>1
  <2> QED
    BY ONLY <2>2, <2>3
<1> QED
  BY <1>1, <1>2, <1>4, <1>5, <1>6, <1>7, <1>8

LEMMA WindowEndIs ==
  ASSUME NEW text \in Seq(1..4), NEW from \in Boundaries(text)
  PROVE  /\ WindowEnd(text, from) \in Boundaries(text)
         /\ from <= WindowEnd(text, from) /\ WindowEnd(text, from) <= from + Window
         /\ WindowEnd(text, from) <= ByteCount(text)
         /\ WindowEnd(text, from) = from => from = ByteCount(text)
<1>1. \A b \in Boundaries(text) : b \in 0..ByteCount(text)
  BY BoundariesAre
<1>2. from \in Nat /\ ByteCount(text) \in Nat /\ Window \in Nat
  BY <1>1, BoundariesAre
<1> DEFINE near == {b \in Boundaries(text) : b <= from + Window}
<1>3. PICK e \in near : \A b \in near : b <= e
  <2>1. near \in SUBSET (0..ByteCount(text))
    BY <1>1
  <2>2. from <= from + Window
    BY <1>2
  <2>3. near # {}
    BY <2>2
  <2> HIDE DEF near
  <2> QED
    BY <1>2, <2>1, <2>3, GreatestExists
<1> DEFINE Ends(x) == x <= from + Window /\ \A b \in Boundaries(text) : b <= from + Window => b <= x
           end == CHOOSE x \in Boundaries(text) : Ends(x)
<1>4. e \in Boundaries(text) /\ Ends(e)
  BY <1>3
<1>5. end \in Boundaries(text) /\ Ends(end)
  <2> HIDE DEF Ends
  <2> QED
    BY <1>4
<1>6. WindowEnd(text, from) = end
  BY DEF WindowEnd
<1>7. end \in 0..ByteCount(text) /\ from <= end /\ end <= from + Window
  <2>1. from <= from + Window
    BY <1>2
  <2> HIDE DEF end
  <2>2. from <= end
    BY <1>5, <2>1
  <2> QED
    BY <1>1, <1>5, <2>2
<1>8. ASSUME end = from, from # ByteCount(text) PROVE FALSE
  <2>1. PICK n \in 0..Len(text) : from = SumOver(text, 1..n)
    BY BoundariesAre
  <2>2. n \in 0..(Len(text) - 1) /\ n + 1 \in 0..Len(text)
    <3>1. Len(text) \in Nat /\ ByteCount(text) = SumOver(text, 1..Len(text))
      BY BoundariesAre
    <3>2. n # Len(text)
      BY <1>8, <2>1, <3>1
    <3> QED
      BY <3>1, <3>2
  <2> DEFINE next == SumOver(text, 1..(n + 1))
  <2>3. next \in Boundaries(text)
    BY <2>2, BoundariesAre
  <2>4. from < next /\ next <= from + 4
    BY <2>1, <2>2, BoundariesAre
  <2>5. next \in Nat
    BY <1>1, <2>3
  <2> HIDE DEF next, end
  <2>6. next <= from + Window
    BY <1>2, <2>4, <2>5
  <2>7. next <= end
    BY <1>5, <2>3, <2>6
  <2> QED
    BY <1>2, <1>8, <2>4, <2>5, <2>7
<1> QED
  BY <1>5, <1>6, <1>7, <1>8

\* Where the reader stands: behind the last window, and at the end when it is done.
TextTypes ==
  /\ live \in [TextSources -> Texts] /\ blob \in [TextSources -> Texts]
  /\ reader \in {"ask", "read", "cut", "failed", "done"}
  /\ windows \in Seq((Texts \cup {<<>>}) \X Nat \X Nat) /\ at \in Nat

ReaderFollowsWindows ==
  /\ reader \in {"read", "cut"} => chosenText \in Texts
  /\ windows = <<>> => at = 0
  /\ windows # <<>> => at = windows[Len(windows)][3]
  /\ reader = "done" => windows # <<>> /\ at = ByteCount(windows[Len(windows)][1])

WindowInv == TextTypes /\ ReaderFollowsWindows /\ WindowsAreWhole

LEMMA LowestSource ==
  (CHOOSE s \in TextSources : \A o \in TextSources : s <= o) \in TextSources
<1>1. PICK m \in TextSources : \A y \in TextSources : m <= y
  BY LeastExists
<1> QED
  BY <1>1

LEMMA WindowInit == InitText(Texts, 0, "ask") => WindowInv
  BY DEF InitText, WindowInv, TextTypes, ReaderFollowsWindows, WindowsAreWhole

LEMMA WindowFields ==
  ASSUME TextTypes, UNCHANGED <<windows, at>>,
         UNCHANGED <<chosenText, reader>> \/ reader' = "failed"
             \/ (reader' \in {"read", "cut"} /\ chosenText' \in Texts),
         ReaderFollowsWindows, WindowsAreWhole
  PROVE  ReaderFollowsWindows' /\ WindowsAreWhole'
<1>1. ReaderFollowsWindows'
  BY DEF ReaderFollowsWindows
<1>2. reader' = "done" => reader = "done"
  OBVIOUS
<1>3. (WindowsAreWhole)'
  BY <1>2 DEF WindowsAreWhole
<1> QED
  BY <1>1, <1>3

LEMMA WindowNext == WindowInv /\ [TextNext]_textVars => WindowInv'
<1> SUFFICES ASSUME WindowInv, [TextNext]_textVars PROVE WindowInv'
  OBVIOUS
<1> USE DEF WindowInv
<1> DEFINE source == CHOOSE s \in TextSources : \A o \in TextSources : s <= o
<1>0. source \in TextSources
  BY LowestSource
<1> HIDE DEF source
<1>1. ASSUME NEW s \in TextSources, SyncFile(s) PROVE WindowInv'
  <2>1. TextTypes'
    BY <1>1 DEF TextTypes, SyncFile
  <2> QED
    BY <1>1, <2>1, WindowFields DEF SyncFile
<1>2. ASSUME NEW s \in TextSources, NEW text \in Texts, EditFile(s, text) PROVE WindowInv'
  <2>1. TextTypes'
    BY <1>2 DEF TextTypes, EditFile
  <2> QED
    BY <1>2, <2>1, WindowFields DEF EditFile
<1>3. CASE SelectSource
  <2>1. chosenText' = blob[source]
    BY <1>3 DEF SelectSource, source
  <2>2. chosenText' \in Texts
    BY <1>0, <2>1 DEF TextTypes
  <2>3. TextTypes'
    BY <1>3 DEF TextTypes, SelectSource
  <2> QED
    BY <1>3, <2>2, <2>3, WindowFields DEF SelectSource
<1>4. CASE ReadComplete
  <2>1. chosenText \in Texts
    BY <1>4 DEF ReadComplete, ReaderFollowsWindows
  <2>2. reader' \in {"cut", "failed"} /\ UNCHANGED <<live, blob, textChanges, chosenText, at, windows>>
    BY <1>4 DEF ReadComplete
  <2>3. TextTypes'
    BY <2>2 DEF TextTypes
  <2> QED
    BY <2>1, <2>2, <2>3, WindowFields
<1>5. CASE CutWindow
  <2>1. chosenText \in Texts /\ chosenText \in Seq(1..4)
    BY <1>5 DEF CutWindow, ReaderFollowsWindows
  <2>2. CASE at \notin Boundaries(chosenText)
    <3>1. reader' = "failed" /\ UNCHANGED <<live, blob, textChanges, chosenText, at, windows>>
      BY <1>5, <2>2 DEF CutWindow
    <3>2. TextTypes'
      BY <3>1 DEF TextTypes
    <3> QED
      BY <3>1, <3>2, WindowFields
  <2>3. CASE at \in Boundaries(chosenText)
    <3> DEFINE end == WindowEnd(chosenText, at)
               w == <<chosenText, at, end>>
               n == Len(windows)
    <3>1. /\ end \in Boundaries(chosenText) /\ at <= end /\ end <= at + Window
          /\ end <= ByteCount(chosenText)
          /\ end = at => at = ByteCount(chosenText)
      BY <2>1, <2>3, WindowEndIs
    <3>2. end \in Nat /\ ByteCount(chosenText) \in Nat
      BY <2>1, <3>1, BoundariesAre
    <3>3. /\ windows' = Append(windows, w) /\ at' = end
          /\ reader' = IF end < ByteCount(chosenText) THEN "ask" ELSE "done"
          /\ UNCHANGED <<live, blob, textChanges, chosenText>>
      BY <1>5, <2>3 DEF CutWindow
    <3> HIDE DEF end
    <3>4. w \in (Texts \cup {<<>>}) \X Nat \X Nat
      BY <2>1, <3>2 DEF TextTypes
    <3>5. /\ n \in Nat /\ Len(windows') = n + 1 /\ DOMAIN windows' = 1..(n + 1)
          /\ windows' \in Seq((Texts \cup {<<>>}) \X Nat \X Nat)
          /\ windows'[n + 1] = w /\ \A i \in 1..n : windows'[i] = windows[i]
      BY <3>3, <3>4 DEF TextTypes
    <3>6. w[1] = chosenText /\ w[2] = at /\ w[3] = end
      OBVIOUS
    <3> HIDE DEF w, n
    <3>7. TextTypes'
      BY <3>2, <3>3, <3>5 DEF TextTypes
    <3>8. reader' = "done" => end = ByteCount(chosenText)
      <4>1. reader' = "done" => ~(end < ByteCount(chosenText))
        BY <3>3
      <4>2. ~(end < ByteCount(chosenText)) => end = ByteCount(chosenText)
        BY ONLY <3>1, <3>2
      <4> QED
        BY <4>1, <4>2
    <3>9. ReaderFollowsWindows'
      <4>1. windows' # <<>> /\ windows'[Len(windows')] = w
        BY <3>5
      <4>2. reader' \in {"ask", "done"}
        BY <3>3
      <4> QED
        BY <3>3, <3>6, <3>8, <4>1, <4>2 DEF ReaderFollowsWindows
    <3>10. n > 0 => at = windows[n][3]
      BY DEF ReaderFollowsWindows, TextTypes, n
    <3>11. WindowsAreWhole'
      <4>1. ASSUME NEW i \in DOMAIN windows'
            PROVE  /\ {windows'[i][2], windows'[i][3]} \subseteq Boundaries(windows'[i][1])
                   /\ windows'[i][3] <= windows'[i][2] + Window
                   /\ windows'[i][3] = windows'[i][2] => windows'[i][2] = ByteCount(windows'[i][1])
                   /\ i > 1 => windows'[i][2] = windows'[i - 1][3]
        <5>1. CASE i = n + 1
          <6>1. windows'[i] = w
            BY <3>5, <5>1
          <6>2. i > 1 => n > 0 /\ i - 1 = n /\ n \in 1..n
            BY <3>5, <5>1
          <6>3. i > 1 => at = windows'[i - 1][3]
            BY <3>5, <3>10, <6>2
          <6>4. {at, end} \subseteq Boundaries(chosenText)
            BY <2>3, <3>1
          <6> QED
            BY <3>1, <3>6, <6>1, <6>3, <6>4
        <5>2. CASE i # n + 1
          <6>1. DOMAIN windows = 1..n
            BY DEF n, TextTypes
          <6>2. i \in 1..n /\ (i > 1 => i - 1 \in 1..n)
            <7>1. n \in Nat /\ i \in 1..(n + 1)
              BY <3>5, <4>1
            <7> QED
              BY ONLY <5>2, <7>1
          <6>3. windows'[i] = windows[i] /\ (i > 1 => windows'[i - 1] = windows[i - 1])
            BY <3>5, <6>2
          <6>4. /\ {windows[i][2], windows[i][3]} \subseteq Boundaries(windows[i][1])
                /\ windows[i][3] <= windows[i][2] + Window
                /\ windows[i][3] = windows[i][2] => windows[i][2] = ByteCount(windows[i][1])
                /\ i > 1 => windows[i][2] = windows[i - 1][3]
            BY <6>1, <6>2 DEF WindowsAreWhole
          <6> QED
            BY <6>3, <6>4
        <5> QED
          BY <5>1, <5>2
      <4>2. Last(windows') = w
        BY <3>5 DEF Last
      <4>3. reader' = "done" => Last(windows')[3] = ByteCount(Last(windows')[1])
        BY <3>6, <3>8, <4>2
      <4> QED
        BY <4>1, <4>3 DEF WindowsAreWhole
    <3> QED
      BY <3>7, <3>9, <3>11
  <2> QED
    BY <2>2, <2>3
<1>6. CASE UNCHANGED textVars
  <2>1. UNCHANGED <<windows, at, chosenText, reader>> /\ TextTypes'
    BY <1>6 DEF textVars, TextTypes
  <2> QED
    BY <2>1, WindowFields
<1> QED
  BY <1>1, <1>2, <1>3, <1>4, <1>5, <1>6 DEF TextNext

\* Windows adjoin, end between characters and get on until the content is given, for any texts,
\* any number of Sources, any window of at least four bytes and any changes of the file between
\* the calls.
THEOREM WindowsCoverTheText == TextSpec => []WindowsAreWhole
<1>1. WindowInv => WindowsAreWhole
  BY DEF WindowInv
<1> QED
  BY <1>1, WindowInit, WindowNext, PTL DEF TextSpec
=============================================================================
