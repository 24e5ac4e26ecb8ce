--------------------------- MODULE SequenceLemmas ---------------------------
(***************************************************************************)
(* What concatenation, SubSeq, RemoveAt and sums return, used by the       *)
(* proofs. Induction over finite sets is a smallest counterexample.        *)
(***************************************************************************)
EXTENDS Integers, SequencesExt, FiniteSetTheorems, WellFoundedInduction, TLAPS

LEMMA ConcatIs ==
  ASSUME NEW S, NEW l \in Seq(S), NEW r \in Seq(S)
  PROVE  /\ l \o r \in Seq(S)
         /\ Len(l \o r) = Len(l) + Len(r)
         /\ \A j \in 1..Len(l) : (l \o r)[j] = l[j]
         /\ \A j \in 1..Len(r) : (l \o r)[Len(l) + j] = r[j]
  OBVIOUS

LEMMA SubSeqIs ==
  ASSUME NEW S, NEW s \in Seq(S), NEW m \in 1..(Len(s) + 1), NEW n \in 0..Len(s),
         m =< n + 1
  PROVE  /\ SubSeq(s, m, n) \in Seq(S)
         /\ Len(SubSeq(s, m, n)) = n - m + 1
         /\ \A j \in 1..(n - m + 1) : SubSeq(s, m, n)[j] = s[m + j - 1]
  OBVIOUS

LEMMA RemoveAtIs ==
  ASSUME NEW S, NEW s \in Seq(S), NEW i \in 1..Len(s)
  PROVE  /\ RemoveAt(s, i) \in Seq(S)
         /\ Len(RemoveAt(s, i)) = Len(s) - 1
         /\ \A j \in 1..(i - 1) : RemoveAt(s, i)[j] = s[j]
         /\ \A j \in i..(Len(s) - 1) : RemoveAt(s, i)[j] = s[j + 1]
<1> DEFINE l == SubSeq(s, 1, i - 1)
           r == SubSeq(s, i + 1, Len(s))
<1>1. Len(s) \in Nat /\ i \in Int /\ 1 =< i /\ i =< Len(s)
  OBVIOUS
<1>2. /\ l \in Seq(S) /\ Len(l) = i - 1
      /\ \A j \in 1..(i - 1) : l[j] = s[j]
  BY <1>1, SubSeqIs
<1>3. /\ r \in Seq(S) /\ Len(r) = Len(s) - i
      /\ \A j \in 1..(Len(s) - i) : r[j] = s[i + j]
  BY <1>1, SubSeqIs
<1>4. RemoveAt(s, i) = l \o r
  BY DEF RemoveAt
<1> HIDE DEF l, r
<1>5. /\ l \o r \in Seq(S) /\ Len(l \o r) = Len(s) - 1
      /\ \A j \in 1..(i - 1) : (l \o r)[j] = l[j]
      /\ \A j \in 1..(Len(s) - i) : (l \o r)[i - 1 + j] = r[j]
  <2>1. /\ l \o r \in Seq(S) /\ Len(l \o r) = Len(l) + Len(r)
        /\ \A j \in 1..Len(l) : (l \o r)[j] = l[j]
        /\ \A j \in 1..Len(r) : (l \o r)[Len(l) + j] = r[j]
    <3>1. l \in Seq(S) /\ r \in Seq(S)
      BY <1>2, <1>3
    <3> QED
      BY ONLY <3>1, ConcatIs
  <2>2. Len(l) + Len(r) = Len(s) - 1
    BY <1>1, <1>2, <1>3
  <2> QED
    BY <1>2, <1>3, <2>1, <2>2
<1>6. ASSUME NEW j \in i..(Len(s) - 1)
      PROVE  (l \o r)[j] = s[j + 1]
  <2> DEFINE m == j - (i - 1)
  <2>1. m \in 1..(Len(s) - i) /\ i - 1 + m = j /\ i + m = j + 1
    BY <1>1
  <2> HIDE DEF m
  <2>2. (l \o r)[i - 1 + m] = r[m] /\ r[m] = s[i + m]
    BY <1>3, <1>5, <2>1
  <2> QED
    BY <2>1, <2>2
<1> QED
  BY <1>2, <1>4, <1>5, <1>6

-----------------------------------------------------------------------------
(* Sums over finite sets: FoldFunctionOnSet with addition.                  *)

SumOver(f, S) == FoldFunctionOnSet(+, 0, f, S)

\* g adds f up over the subsets of S, whichever element is taken first.
AddsUp(g, f, S) ==
  \A t \in SUBSET S : /\ g[t] \in Nat
                      /\ t = {} => g[t] = 0
                      /\ \A x \in t : g[t] = f[x] + g[t \ {x}]

LEMMA SmallestSubset ==
  ASSUME NEW S, IsFiniteSet(S), NEW T, T \subseteq SUBSET S, T # {}
  PROVE  \E m \in T : \A u \in T : ~(u \subseteq m /\ u # m)
<1>1. SUBSET S = FiniteSubsetsOf(S)
  BY FS_FiniteSubsetsOfFinite
<1>2. IsWellFoundedOn(StrictSubsetOrdering(S), FiniteSubsetsOf(S))
  BY FS_StrictSubsetOrderingWellFounded
<1>3. PICK m \in T : \A u \in T : <<u, m>> \notin StrictSubsetOrdering(S)
  BY <1>1, <1>2, WFMin
<1>4. ASSUME NEW u \in T, u \subseteq m, u # m PROVE FALSE
  <2>1. <<u, m>> \in StrictSubsetOrdering(S)
    BY <1>4 DEF StrictSubsetOrdering
  <2> QED
    BY <1>3, <2>1
<1> QED
  BY <1>4

LEMMA SumsAgree ==
  ASSUME NEW S, IsFiniteSet(S), NEW f, NEW h, \A x \in S : f[x] = h[x],
         NEW g, NEW k, AddsUp(g, f, S), AddsUp(k, h, S)
  PROVE  g[S] = k[S]
<1> DEFINE T == {t \in SUBSET S : g[t] # k[t]}
<1>1. SUFFICES ASSUME T # {} PROVE FALSE
  OBVIOUS
<1>2. PICK m \in T : \A u \in T : ~(u \subseteq m /\ u # m)
  <2>1. T \subseteq SUBSET S
    OBVIOUS
  <2> HIDE DEF T
  <2> QED
    BY <1>1, <2>1, SmallestSubset
<1>3. m # {}
  BY DEF AddsUp
<1>4. PICK x \in m : TRUE
  BY <1>3
<1>5. g[m \ {x}] = k[m \ {x}]
  <2>1. m \ {x} \in SUBSET S /\ m \ {x} # m
    BY <1>4
  <2> QED
    BY <1>2, <2>1
<1> QED
  BY <1>4, <1>5 DEF AddsUp

LEMMA SumExists ==
  ASSUME NEW S, IsFiniteSet(S), NEW f, \A x \in S : f[x] \in Nat
  PROVE  \E g : AddsUp(g, f, S) /\ g = [t \in SUBSET S |-> g[t]]
<1> DEFINE Has(t) == \E g : AddsUp(g, f, t) /\ g = [u \in SUBSET t |-> g[u]]
           T == {t \in SUBSET S : ~Has(t)}
<1>1. SUFFICES ASSUME T # {} PROVE FALSE
  BY <1>1
<1>2. PICK m \in T : \A u \in T : ~(u \subseteq m /\ u # m)
  <2>1. T \subseteq SUBSET S
    OBVIOUS
  <2> HIDE DEF T
  <2> QED
    BY <1>1, <2>1, SmallestSubset
<1>3. CASE m = {}
  <2> DEFINE g == [t \in SUBSET {} |-> 0]
  <2>1. AddsUp(g, f, m)
    BY <1>3 DEF AddsUp
  <2>2. g = [u \in SUBSET m |-> g[u]]
    BY <1>3
  <2> HIDE DEF g
  <2> QED
    BY <2>1, <2>2
<1>4. CASE m # {}
  <2>1. PICK a \in m : TRUE
    BY <1>4
  <2> DEFINE r == m \ {a}
  <2>2. Has(r)
    <3>1. r \in SUBSET S /\ r \subseteq m /\ r # m
      BY <2>1
    <3> QED
      BY <1>2, <3>1
  <2>3. PICK h : AddsUp(h, f, r)
    BY <2>2
  <2> DEFINE g == [t \in SUBSET m |-> IF a \in t THEN f[a] + h[t \ {a}] ELSE h[t]]
  <2>4. ASSUME NEW t \in SUBSET m
        PROVE  /\ g[t] \in Nat
               /\ t = {} => g[t] = 0
               /\ \A x \in t : g[t] = f[x] + g[t \ {x}]
    <3>1. f[a] \in Nat /\ \A x \in t : f[x] \in Nat
      BY <2>1, <2>4
    <3>2. CASE a \notin t
      <4>1. t \in SUBSET r /\ \A x \in t : t \ {x} \in SUBSET m /\ a \notin t \ {x}
        BY <3>2
      <4>2. g[t] = h[t] /\ \A x \in t : g[t \ {x}] = h[t \ {x}]
        BY <3>2, <4>1
      <4> HIDE DEF g
      <4> QED
        BY <2>3, <4>1, <4>2 DEF AddsUp
    <3>3. CASE a \in t
      <4>1. t \ {a} \in SUBSET r /\ g[t] = f[a] + h[t \ {a}] /\ h[t \ {a}] \in Nat
        BY <2>3, <3>3 DEF AddsUp
      <4>2. g[t \ {a}] = h[t \ {a}]
        OBVIOUS
      <4>3. ASSUME NEW x \in t, x # a
            PROVE  g[t] = f[x] + g[t \ {x}]
        <5>1. t \ {x} \in SUBSET m /\ a \in t \ {x}
          BY <3>3, <4>3
        <5>2. g[t \ {x}] = f[a] + h[(t \ {x}) \ {a}]
          BY <5>1
        <5>3. (t \ {x}) \ {a} = (t \ {a}) \ {x} /\ x \in t \ {a} /\ (t \ {a}) \ {x} \in SUBSET r
          BY <4>3
        <5>4. h[t \ {a}] = f[x] + h[(t \ {a}) \ {x}] /\ h[(t \ {a}) \ {x}] \in Nat
          BY <2>3, <4>1, <5>3 DEF AddsUp
        <5>5. g[t \ {x}] = f[a] + h[(t \ {a}) \ {x}]
          BY <5>2, <5>3
        <5>6. f[a] \in Nat /\ f[x] \in Nat
          BY <3>1
        <5>7. /\ g[t] = f[a] + h[t \ {a}]
              /\ h[t \ {a}] = f[x] + h[(t \ {a}) \ {x}]
              /\ h[(t \ {a}) \ {x}] \in Nat
          BY <4>1, <5>4
        <5> HIDE DEF g, r
        <5> QED
          BY ONLY <5>5, <5>6, <5>7
      <4>4. t # {} /\ g[t] \in Nat /\ g[t] = f[a] + g[t \ {a}]
        BY <3>1, <3>3, <4>1, <4>2
      <4> HIDE DEF g
      <4> QED
        BY <4>3, <4>4
    <3> QED
      BY <3>2, <3>3
  <2>5. g = [t \in SUBSET m |-> g[t]]
    OBVIOUS
  <2> HIDE DEF g
  <2>6. AddsUp(g, f, m)
    BY <2>4 DEF AddsUp
  <2>7. Has(m)
    BY <2>5, <2>6
  <2> QED
    BY <2>7
<1> QED
  BY <1>3, <1>4

LEMMA SumIs ==
  ASSUME NEW S, IsFiniteSet(S), NEW f, \A x \in S : f[x] \in Nat
  PROVE  \E g : AddsUp(g, f, S) /\ SumOver(f, S) = g[S]
<1> DEFINE choose(t) == CHOOSE x \in t : TRUE
           Folds(k) == k = [t \in SUBSET S |->
                              IF t = {} THEN 0 ELSE f[choose(t)] + k[t \ {choose(t)}]]
           iter == CHOOSE k : Folds(k)
<1>1. SumOver(f, S) = iter[S]
  BY DEF SumOver, FoldFunctionOnSet, MapThenFoldSet
<1>2. PICK g : AddsUp(g, f, S) /\ g = [t \in SUBSET S |-> g[t]]
  BY SumExists
<1>3. Folds(g)
  <2>1. ASSUME NEW t \in SUBSET S
        PROVE  g[t] = IF t = {} THEN 0 ELSE f[choose(t)] + g[t \ {choose(t)}]
    <3>1. t # {} => choose(t) \in t
      OBVIOUS
    <3> HIDE DEF choose
    <3> QED
      BY <1>2, <3>1 DEF AddsUp
  <2> QED
    BY <1>2, <2>1
<1>4. Folds(iter)
  <2> HIDE DEF Folds
  <2> QED
    BY <1>3
<1>5. ASSUME NEW t \in SUBSET S
      PROVE  iter[t] = IF t = {} THEN 0 ELSE f[choose(t)] + iter[t \ {choose(t)}]
  <2> HIDE DEF choose, iter
  <2> QED
    BY <1>4
<1>6. ASSUME NEW t \in SUBSET S
      PROVE  g[t] = IF t = {} THEN 0 ELSE f[choose(t)] + g[t \ {choose(t)}]
  <2> HIDE DEF choose, iter
  <2> QED
    BY <1>3
<1>7. \A t \in SUBSET S : t # {} => choose(t) \in t
  OBVIOUS
<1> HIDE DEF choose, iter, Folds
<1>8. iter[S] = g[S]
  <2> DEFINE T == {t \in SUBSET S : iter[t] # g[t]}
  <2>1. SUFFICES ASSUME T # {} PROVE FALSE
    OBVIOUS
  <2>2. PICK m \in T : \A u \in T : ~(u \subseteq m /\ u # m)
    <3>1. T \subseteq SUBSET S
      OBVIOUS
    <3> HIDE DEF T
    <3> QED
      BY <2>1, <3>1, SmallestSubset
  <2>3. m # {}
    BY <1>5, <1>6
  <2>4. choose(m) \in m
    BY <1>7, <2>3
  <2>5. iter[m \ {choose(m)}] = g[m \ {choose(m)}]
    <3>1. m \ {choose(m)} \in SUBSET S /\ m \ {choose(m)} # m
      BY <2>4
    <3> QED
      BY <2>2, <3>1
  <2> QED
    BY <1>5, <1>6, <2>3, <2>5
<1> QED
  BY <1>1, <1>2, <1>8

LEMMA SumFacts ==
  ASSUME NEW S, IsFiniteSet(S), NEW f, \A x \in S : f[x] \in Nat
  PROVE  /\ SumOver(f, S) \in Nat
         /\ S = {} => SumOver(f, S) = 0
         /\ \A x \in S : SumOver(f, S) = f[x] + SumOver(f, S \ {x})
<1>1. PICK g : AddsUp(g, f, S) /\ SumOver(f, S) = g[S]
  BY SumIs
<1>2. ASSUME NEW x \in S
      PROVE  SumOver(f, S) = f[x] + SumOver(f, S \ {x})
  <2>1. IsFiniteSet(S \ {x})
    BY FS_RemoveElement
  <2>2. PICK k : AddsUp(k, f, S \ {x}) /\ SumOver(f, S \ {x}) = k[S \ {x}]
    BY <2>1, SumIs
  <2>3. AddsUp(g, f, S \ {x})
    BY <1>1 DEF AddsUp
  <2>4. g[S \ {x}] = k[S \ {x}]
    BY <2>1, <2>2, <2>3, SumsAgree
  <2>5. g[S] = f[x] + g[S \ {x}]
    BY <1>1, <1>2 DEF AddsUp
  <2> QED
    BY <1>1, <2>2, <2>4, <2>5
<1>3. g[S] \in Nat /\ (S = {} => g[S] = 0)
  BY <1>1 DEF AddsUp
<1> QED
  BY <1>1, <1>2, <1>3

\* The sum of what does not differ.
LEMMA SumCongruent ==
  ASSUME NEW S, IsFiniteSet(S), NEW f, NEW h,
         \A x \in S : f[x] \in Nat /\ h[x] = f[x]
  PROVE  SumOver(h, S) = SumOver(f, S)
<1>1. PICK g : AddsUp(g, f, S) /\ SumOver(f, S) = g[S]
  BY SumIs
<1>2. PICK k : AddsUp(k, h, S) /\ SumOver(h, S) = k[S]
  BY SumIs
<1> QED
  BY <1>1, <1>2, SumsAgree

LEMMA SumUpdate ==
  ASSUME NEW S, IsFiniteSet(S), NEW f, NEW h, NEW e \in S,
         \A x \in S : f[x] \in Nat /\ h[x] \in Nat,
         \A x \in S \ {e} : h[x] = f[x]
  PROVE  SumOver(h, S) + f[e] = SumOver(f, S) + h[e]
<1>1. IsFiniteSet(S \ {e})
  BY FS_RemoveElement
<1>2. SumOver(h, S \ {e}) = SumOver(f, S \ {e}) /\ SumOver(f, S \ {e}) \in Nat
  BY <1>1, SumCongruent, SumFacts
<1>3. SumOver(h, S) = h[e] + SumOver(h, S \ {e})
  BY SumFacts
<1>4. SumOver(f, S) = f[e] + SumOver(f, S \ {e})
  BY SumFacts
<1>5. f[e] \in Nat /\ h[e] \in Nat
  OBVIOUS
<1> QED
  BY ONLY <1>2, <1>3, <1>4, <1>5

LEMMA SumZero ==
  ASSUME NEW S, IsFiniteSet(S), NEW f, \A x \in S : f[x] = 0
  PROVE  SumOver(f, S) = 0
<1> DEFINE g == [t \in SUBSET S |-> 0]
<1>1. AddsUp(g, f, S)
  BY DEF AddsUp
<1>2. g[S] = 0
  OBVIOUS
<1>3. PICK k : AddsUp(k, f, S) /\ SumOver(f, S) = k[S]
  BY SumIs
<1> HIDE DEF g
<1> QED
  BY <1>1, <1>2, <1>3, SumsAgree

\* A part sums up to no more than the whole.
LEMMA SumOfPart ==
  ASSUME NEW S, IsFiniteSet(S), NEW f, \A x \in S : f[x] \in Nat,
         NEW R, R \subseteq S
  PROVE  SumOver(f, R) <= SumOver(f, S)
<1> DEFINE T == {t \in SUBSET S : R \subseteq t /\ ~(SumOver(f, R) <= SumOver(f, t))}
<1>1. SUFFICES ASSUME T # {} PROVE FALSE
  OBVIOUS
<1>2. PICK m \in T : \A u \in T : ~(u \subseteq m /\ u # m)
  <2>1. T \subseteq SUBSET S
    OBVIOUS
  <2> HIDE DEF T
  <2> QED
    BY <1>1, <2>1, SmallestSubset
<1>3. IsFiniteSet(m) /\ IsFiniteSet(R) /\ \A x \in m : f[x] \in Nat
  BY FS_Subset
<1>4. SumOver(f, R) \in Nat /\ SumOver(f, m) \in Nat
  BY <1>3, SumFacts
<1>5. PICK x \in m : x \notin R
  BY <1>4
<1>6. m \ {x} \notin T
  BY <1>2, <1>5
<1>7. SumOver(f, R) <= SumOver(f, m \ {x})
  BY <1>5, <1>6
<1>8. SumOver(f, m) = f[x] + SumOver(f, m \ {x})
  BY <1>3, SumFacts
<1>9. IsFiniteSet(m \ {x}) /\ SumOver(f, m \ {x}) \in Nat
  BY <1>3, FS_RemoveElement, SumFacts
<1>10. ~(SumOver(f, R) <= SumOver(f, m)) /\ f[x] \in Nat
  BY <1>3, <1>5
<1> QED
  BY ONLY <1>4, <1>7, <1>8, <1>9, <1>10

\* FoldSeq(+, 0, _) of a prefix of a sequence.
LEMMA PrefixSum ==
  ASSUME NEW s \in Seq(Nat), NEW k \in 0..Len(s)
  PROVE  /\ SumOver(SubSeq(s, 1, k), DOMAIN SubSeq(s, 1, k)) = SumOver(s, 1..k)
         /\ SumOver(s, 1..k) \in Nat
         /\ k = 0 => SumOver(s, 1..k) = 0
         /\ k < Len(s) => SumOver(s, 1..(k + 1)) = s[k + 1] + SumOver(s, 1..k)
         /\ SumOver(s, 1..k) <= SumOver(s, 1..Len(s))
<1>1. Len(s) \in Nat /\ \A i \in 1..Len(s) : s[i] \in Nat
  OBVIOUS
<1>2. IsFiniteSet(1..k) /\ IsFiniteSet(1..Len(s)) /\ IsFiniteSet(1..(k + 1))
  BY <1>1, FS_Interval
<1>3. /\ DOMAIN SubSeq(s, 1, k) = 1..k
      /\ \A i \in 1..k : SubSeq(s, 1, k)[i] = s[i]
  OBVIOUS
<1>4. SumOver(SubSeq(s, 1, k), DOMAIN SubSeq(s, 1, k)) = SumOver(s, 1..k)
  <2>1. \A i \in 1..k : s[i] \in Nat /\ SubSeq(s, 1, k)[i] = s[i]
    BY <1>1, <1>3
  <2>2. SumOver(SubSeq(s, 1, k), 1..k) = SumOver(s, 1..k)
    BY <1>2, <2>1, SumCongruent
  <2> QED
    BY <1>3, <2>2
<1>5. SumOver(s, 1..k) \in Nat /\ (k = 0 => SumOver(s, 1..k) = 0)
  <2>1. (\A i \in 1..k : s[i] \in Nat) /\ (k = 0 => 1..k = {})
    BY <1>1
  <2> QED
    BY <1>2, <2>1, SumFacts
<1>6. ASSUME k < Len(s)
      PROVE  SumOver(s, 1..(k + 1)) = s[k + 1] + SumOver(s, 1..k)
  <2>1. /\ \A i \in 1..(k + 1) : s[i] \in Nat
        /\ k + 1 \in 1..(k + 1) /\ (1..(k + 1)) \ {k + 1} = 1..k
    BY <1>1, <1>6
  <2> DEFINE all == 1..(k + 1)
  <2>2. IsFiniteSet(all) /\ (\A i \in all : s[i] \in Nat) /\ k + 1 \in all /\ all \ {k + 1} = 1..k
    BY <1>2, <2>1
  <2> HIDE DEF all
  <2>3. SumOver(s, all) = s[k + 1] + SumOver(s, all \ {k + 1})
    BY <2>2, SumFacts
  <2> QED
    BY <2>2, <2>3 DEF all
<1>7. SumOver(s, 1..k) <= SumOver(s, 1..Len(s))
  <2>1. 1..k \subseteq 1..Len(s)
    OBVIOUS
  <2> QED
    BY <1>1, <1>2, <2>1, SumOfPart
<1> QED
  BY <1>4, <1>5, <1>6, <1>7

\* Every set of numbers up to a bound has a greatest.
LEMMA GreatestExists ==
  ASSUME NEW n \in Nat, NEW S \in SUBSET (0..n), S # {}
  PROVE  \E m \in S : \A y \in S : y <= m
<1> DEFINE T == {0..(n - x) : x \in S}
           all == 0..n
<1>1. T \subseteq SUBSET all /\ T # {}
  <2>1. ASSUME NEW x \in S PROVE 0..(n - x) \subseteq all
    OBVIOUS
  <2> HIDE DEF all
  <2> QED
    BY <2>1
<1>2. IsFiniteSet(all)
  BY FS_Interval
<1>3. PICK m \in T : \A u \in T : ~(u \subseteq m /\ u # m)
  <2> HIDE DEF T, all
  <2> QED
    BY <1>1, <1>2, SmallestSubset
<1>4. PICK x \in S : m = 0..(n - x)
  BY <1>3
<1>5. ASSUME NEW y \in S, y > x PROVE FALSE
  <2>1. 0..(n - y) \subseteq 0..(n - x) /\ n - x \in 0..(n - x) /\ n - x \notin 0..(n - y)
    BY <1>5
  <2> QED
    BY <1>3, <1>4, <2>1
<1>6. \A y \in S : y <= x
  BY <1>5
<1> QED
  BY <1>6

LEMMA LeastExists ==
  ASSUME NEW S \in SUBSET Nat, S # {}
  PROVE  \E m \in S : \A y \in S : m <= y
<1>1. PICK b \in S : TRUE
  OBVIOUS
<1> DEFINE T == {0..x : x \in {y \in S : y <= b}}
           all == 0..b
<1>2. T \subseteq SUBSET all /\ T # {}
  OBVIOUS
<1>3. PICK m \in T : \A u \in T : ~(u \subseteq m /\ u # m)
  <2>1. IsFiniteSet(all)
    BY FS_Interval
  <2> HIDE DEF T, all
  <2> QED
    BY <1>2, <2>1, SmallestSubset
<1>4. PICK x \in S : m = 0..x /\ x <= b
  BY <1>3
<1>5. ASSUME NEW y \in S, y < x PROVE FALSE
  <2>1. 0..y \subseteq 0..x /\ x \in 0..x /\ x \notin 0..y /\ y <= b
    BY <1>4, <1>5
  <2> QED
    BY <1>3, <1>4, <2>1
<1>6. \A y \in S : x <= y
  BY <1>5
<1> QED
  BY <1>6

-----------------------------------------------------------------------------
(* A finite set in an order, given as the set of its pairs.                *)

Orders(S, R) ==
    /\ IsFiniteSet(S)
    /\ \A x \in S : <<x, x>> \notin R
    /\ \A x, y \in S : x # y => <<x, y>> \in R \/ <<y, x>> \in R
    /\ \A x, y, z \in S : <<x, y>> \in R /\ <<y, z>> \in R => <<x, z>> \in R

Preceding(S, R, x) == {y \in S : <<y, x>> \in R}
Rank(S, R, x) == Cardinality(Preceding(S, R, x))

\* The elements in their order.
Enumerates(q, S, R) ==
    /\ q \in [1..Cardinality(S) -> S]
    /\ \A i \in 1..Cardinality(S) : Rank(S, R, q[i]) = i - 1

\* Every element has a rank of its own, and every rank its element.
LEMMA RanksAre ==
  ASSUME NEW S, NEW R, Orders(S, R)
  PROVE  /\ Cardinality(S) \in Nat
         /\ \A x \in S : Rank(S, R, x) \in 0..(Cardinality(S) - 1)
         /\ \A x, y \in S : <<x, y>> \in R <=> Rank(S, R, x) < Rank(S, R, y)
         /\ \A x, y \in S : Rank(S, R, x) = Rank(S, R, y) => x = y
         /\ \A k \in 0..(Cardinality(S) - 1) : \E x \in S : Rank(S, R, x) = k
<1> DEFINE N == Cardinality(S)
           P(x) == Preceding(S, R, x)
           rank == [x \in S |-> Rank(S, R, x)]
<1>1. IsFiniteSet(S) /\ N \in Nat
  BY FS_CardinalityType DEF Orders
<1>2. \A x \in S : IsFiniteSet(P(x)) /\ Cardinality(P(x)) \in Nat /\ Cardinality(P(x)) <= N
                   /\ Cardinality(P(x)) # N
  <2> TAKE x \in S
  <2>1. P(x) \in SUBSET S
    BY DEF Preceding
  <2>2. P(x) # S
    BY DEF Preceding, Orders
  <2> QED
    BY <1>1, <2>1, <2>2, FS_Subset, FS_CardinalityType
<1>3. \A x, y \in S : <<x, y>> \in R => Cardinality(P(x)) < Cardinality(P(y))
  <2> TAKE x, y \in S
  <2> HAVE <<x, y>> \in R
  <2>1. P(x) \in SUBSET P(y)
    BY DEF Preceding, Orders
  <2>2. x \in P(y) /\ x \notin P(x)
    BY DEF Preceding, Orders
  <2>3. Cardinality(P(x)) <= Cardinality(P(y)) /\ Cardinality(P(x)) # Cardinality(P(y))
    BY <1>2, <2>1, <2>2, FS_Subset
  <2> HIDE DEF P
  <2> QED
    BY <1>2, <2>3
<1>4. \A x \in S : rank[x] \in Nat /\ rank[x] < N
  <2> TAKE x \in S
  <2>1. rank[x] = Cardinality(P(x))
    BY DEF Rank
  <2> HIDE DEF P, rank, N
  <2> QED
    BY <1>1, <1>2, <2>1
<1>5. \A x, y \in S : <<x, y>> \in R => rank[x] < rank[y]
  BY <1>3 DEF Rank
<1> HIDE DEF P
<1>6. \A x, y \in S : rank[x] = rank[y] => x = y
  <2> TAKE x, y \in S
  <2>1. CASE <<x, y>> \in R
    <3> HIDE DEF rank
    <3> QED BY <1>4, <1>5, <2>1
  <2>2. CASE <<y, x>> \in R
    <3> HIDE DEF rank
    <3> QED BY <1>4, <1>5, <2>2
  <2> QED
    BY <2>1, <2>2 DEF Orders
<1>7. \A x, y \in S : <<x, y>> \in R <=> rank[x] < rank[y]
  <2> TAKE x, y \in S
  <2>1. CASE x = y
    <3>1. <<x, y>> \notin R
      BY <2>1 DEF Orders
    <3> HIDE DEF rank
    <3> QED BY <1>4, <2>1, <3>1
  <2>2. CASE x # y
    <3>1. <<x, y>> \in R \/ <<y, x>> \in R
      BY <2>2 DEF Orders
    <3> HIDE DEF rank
    <3> QED BY <1>4, <1>5, <3>1
  <2> QED
    BY <2>1, <2>2
<1>8. \A k \in 0..(N - 1) : \E x \in S : rank[x] = k
  <2> DEFINE T == 0..(N - 1)
  <2>1. IsFiniteSet(T) /\ Cardinality(T) = N
    <3>1. IsFiniteSet(T) /\ Cardinality(T) = IF 0 > N - 1 THEN 0 ELSE N - 1 - 0 + 1
      BY <1>1, FS_Interval
    <3> HIDE DEF T, N
    <3> QED BY <1>1, <3>1
  <2>2. rank \in [S -> T]
    <3> HIDE DEF N
    <3>1. \A x \in S : rank[x] \in T
      <4> HIDE DEF rank
      <4> QED BY <1>1, <1>4
    <3> QED BY <3>1
  <2>3. rank \in Injection(S, T)
    <3> HIDE DEF rank, T
    <3> QED BY <1>6, <2>2 DEF Injection, IsInjective
  <2>4. rank \in Surjection(S, T)
    <3> HIDE DEF rank, T
    <3> QED BY <2>1, <2>3, FS_Injection
  <2> HIDE DEF rank, T
  <2>5. \A k \in T : \E x \in S : rank[x] = k
    BY <2>4 DEF Surjection
  <2> QED
    BY <2>5 DEF T
<1>9. \A x \in S : rank[x] = Rank(S, R, x)
  OBVIOUS
<1> HIDE DEF rank, N
<1>10. \A x \in S : Rank(S, R, x) \in 0..(N - 1)
  BY <1>1, <1>4, <1>9
<1> QED
  BY <1>1, <1>6, <1>7, <1>8, <1>9, <1>10 DEF N

LEMMA RankIsTaken ==
  ASSUME NEW S, NEW R, Orders(S, R)
  PROVE  \A i \in 1..Cardinality(S) : \E x \in S : Rank(S, R, x) = i - 1
<1>1. Cardinality(S) \in Nat /\ \A k \in 0..(Cardinality(S) - 1) : \E x \in S : Rank(S, R, x) = k
  BY RanksAre
<1> QED
  BY <1>1

\* An enumeration is in order, has every element once, and is the only one.
LEMMA EnumerationIs ==
  ASSUME NEW S, NEW R, Orders(S, R), NEW q, Enumerates(q, S, R)
  PROVE  /\ q \in Seq(S) /\ Len(q) = Cardinality(S) /\ Cardinality(S) \in Nat
         /\ \A i, j \in 1..Cardinality(S) : <<q[i], q[j]>> \in R <=> i < j
         /\ \A i, j \in 1..Cardinality(S) : q[i] = q[j] => i = j
         /\ \A x \in S : \E i \in 1..Cardinality(S) : q[i] = x /\ i = Rank(S, R, x) + 1
<1> DEFINE N == Cardinality(S)
           D == 1..N
           rank(x) == Rank(S, R, x)
<1>1. /\ N \in Nat /\ \A x \in S : rank(x) \in 0..(N - 1)
      /\ \A x, y \in S : <<x, y>> \in R <=> rank(x) < rank(y)
      /\ \A x, y \in S : rank(x) = rank(y) => x = y
  BY RanksAre
<1>2. q \in [D -> S] /\ \A i \in D : rank(q[i]) = i - 1
  BY DEF Enumerates
<1>3. q \in Seq(S) /\ Len(q) = N
  BY <1>1, <1>2
<1> HIDE DEF rank
<1>4. \A i, j \in D : <<q[i], q[j]>> \in R <=> i < j
  <2> TAKE i, j \in D
  <2>1. q[i] \in S /\ q[j] \in S /\ rank(q[i]) = i - 1 /\ rank(q[j]) = j - 1
    BY <1>2
  <2>2. <<q[i], q[j]>> \in R <=> i - 1 < j - 1
    BY <1>1, <2>1
  <2>3. i \in Int /\ j \in Int
    OBVIOUS
  <2> HIDE DEF D
  <2> QED
    BY ONLY <2>2, <2>3
<1>5. \A i, j \in D : q[i] = q[j] => i = j
  <2> TAKE i, j \in D
  <2> HAVE q[i] = q[j]
  <2>1. i - 1 = j - 1
    BY <1>2
  <2>2. i \in Int /\ j \in Int
    OBVIOUS
  <2> HIDE DEF D
  <2> QED
    BY ONLY <2>1, <2>2
<1>6. \A x \in S : \E i \in D : q[i] = x /\ i = rank(x) + 1
  <2> TAKE x \in S
  <2> DEFINE i == rank(x) + 1
  <2>1. i \in D /\ i - 1 = rank(x)
    BY <1>1
  <2> HIDE DEF i, D
  <2>2. q[i] \in S /\ rank(q[i]) = rank(x)
    BY <1>2, <2>1
  <2>3. q[i] = x
    BY <1>1, <2>2
  <2> QED
    BY <2>1, <2>3 DEF i
<1> QED
  BY <1>1, <1>3, <1>4, <1>5, <1>6 DEF rank

LEMMA EnumerationsAgree ==
  ASSUME NEW S, NEW R, Orders(S, R), NEW p, Enumerates(p, S, R), NEW q, Enumerates(q, S, R)
  PROVE  p = q
<1> DEFINE D == 1..Cardinality(S)
<1>1. p \in [D -> S] /\ q \in [D -> S]
      /\ \A i \in D : Rank(S, R, p[i]) = Rank(S, R, q[i])
  BY DEF Enumerates
<1>2. \A i \in D : p[i] = q[i]
  BY <1>1, RanksAre
<1> HIDE DEF D
<1> QED
  BY <1>1, <1>2

\* What comes behind the n-th element, in its order.
LEMMA RestIs ==
  ASSUME NEW S, NEW R, Orders(S, R), NEW q, Enumerates(q, S, R), NEW n \in 1..Cardinality(S),
         NEW W, W = {x \in S : <<q[n], x>> \in R}, NEW p, Enumerates(p, W, R)
  PROVE  /\ Orders(W, R)
         /\ Cardinality(W) = Cardinality(S) - n
         /\ \A i \in 1..Cardinality(W) : p[i] = q[n + i]
<1> DEFINE a == q[n]
           first == Preceding(S, R, a) \cup {a}
           N == Cardinality(S)
           P(x) == Preceding(S, R, x)
<1>1. N \in Nat /\ n \in Nat /\ 1 <= n /\ n <= N /\ IsFiniteSet(S) /\ a \in S /\ Rank(S, R, a) = n - 1
  <2>1. N \in Nat /\ IsFiniteSet(S)
    BY RanksAre DEF Orders
  <2>2. a \in S /\ Rank(S, R, a) = n - 1
    BY DEF Enumerates
  <2> QED
    BY <2>1, <2>2
<1>2. Orders(W, R)
  BY FS_Subset DEF Orders
<1>3. IsFiniteSet(first) /\ Cardinality(first) = n
  <2>1. Preceding(S, R, a) \in SUBSET S /\ a \notin Preceding(S, R, a)
    BY <1>1 DEF Preceding, Orders
  <2>2. IsFiniteSet(Preceding(S, R, a)) /\ Cardinality(Preceding(S, R, a)) = n - 1
    BY <1>1, <2>1, FS_Subset DEF Rank
  <2>3. IsFiniteSet(first) /\ Cardinality(first) = (n - 1) + 1
    BY <2>1, <2>2, FS_AddElement
  <2> HIDE DEF first
  <2> QED
    BY <1>1, <2>3
<1>4. W = S \ first /\ first \subseteq S
  BY <1>1 DEF Preceding, Orders
<1>5. Cardinality(W) = N - n
  <2>1. S \cap first = first
    BY <1>4
  <2> HIDE DEF first, N
  <2> QED
    BY <1>1, <1>3, <1>4, <2>1, FS_Difference DEF N
<1>6. ASSUME NEW x \in W
      PROVE  Rank(W, R, x) = Rank(S, R, x) - n
  <2>1. Preceding(W, R, x) = P(x) \ first /\ first \subseteq P(x) /\ P(x) \in SUBSET S
    BY <1>1, <1>4 DEF Preceding, Orders
  <2>2. IsFiniteSet(P(x)) /\ P(x) \cap first = first
    BY <1>1, <2>1, FS_Subset
  <2> HIDE DEF P, first
  <2>3. Cardinality(P(x) \ first) = Cardinality(P(x)) - n
    BY <1>3, <2>2, FS_Difference
  <2> QED
    BY <2>1, <2>3 DEF Rank, P
<1>7. ASSUME NEW i \in 1..Cardinality(W)
      PROVE  p[i] = q[n + i]
  <2> HIDE DEF N, first, a
  <2>1. p[i] \in W /\ Rank(W, R, p[i]) = i - 1
    BY DEF Enumerates
  <2>2. p[i] \in S /\ Rank(S, R, p[i]) - n = i - 1
    BY <1>4, <1>6, <2>1
  <2>3. n + i \in 1..N
    BY <1>1, <1>5
  <2>4. q[n + i] \in S /\ Rank(S, R, q[n + i]) = n + i - 1
    BY <2>3 DEF Enumerates, N
  <2>5. Rank(S, R, p[i]) \in Nat
    BY <2>2, RanksAre
  <2>6. Rank(S, R, p[i]) = Rank(S, R, q[n + i])
    <3>1. i \in Int
      OBVIOUS
    <3> QED
      BY <1>1, <2>2, <2>4, <2>5, <3>1
  <2> QED
    BY <2>2, <2>4, <2>6, RanksAre
<1> QED
  BY <1>2, <1>5, <1>7

\* The parts of a set by the value of a key sum up to the set.
LEMMA SumOfParts ==
  ASSUME NEW S, IsFiniteSet(S), NEW K, IsFiniteSet(K), NEW key, \A x \in S : key[x] \in K,
         NEW d, \A k \in K : d[k] = Cardinality({x \in S : key[x] = k})
  PROVE  SumOver(d, K) = Cardinality(S)
<1> DEFINE part(t, k) == {x \in t : key[x] = k}
           count(t) == [k \in K |-> Cardinality(part(t, k))]
           T == {t \in SUBSET S : SumOver(count(t), K) # Cardinality(t)}
<1>1. \A t \in SUBSET S : /\ IsFiniteSet(t) /\ Cardinality(t) \in Nat
                          /\ \A k \in K : count(t)[k] \in Nat /\ IsFiniteSet(part(t, k))
  <2> TAKE t \in SUBSET S
  <2>1. IsFiniteSet(t)
    BY FS_Subset
  <2>2. \A k \in K : IsFiniteSet(part(t, k))
    BY <2>1, FS_Subset
  <2> QED
    BY <2>1, <2>2, FS_CardinalityType
<1>2. SumOver(d, K) = SumOver(count(S), K)
  <2>1. \A k \in K : count(S)[k] \in Nat /\ d[k] = count(S)[k]
    BY <1>1
  <2> HIDE DEF count
  <2> QED
    BY <2>1, SumCongruent
<1>3. SUFFICES ASSUME T # {} PROVE FALSE
  BY <1>2
<1>4. PICK m \in T : \A u \in T : ~(u \subseteq m /\ u # m)
  <2>1. T \subseteq SUBSET S
    OBVIOUS
  <2> HIDE DEF T
  <2> QED
    BY <1>3, <2>1, SmallestSubset
<1>5. m # {}
  <2>1. \A k \in K : count({})[k] = 0
    BY FS_EmptySet
  <2>2. SumOver(count({}), K) = 0
    <3> HIDE DEF count
    <3> QED BY <2>1, SumZero
  <2>3. Cardinality({}) = 0
    BY FS_EmptySet
  <2> QED
    BY <2>2, <2>3
<1>6. PICK x \in m : TRUE
  BY <1>5
<1> DEFINE u == m \ {x}
           e == key[x]
<1>7. u \in SUBSET S /\ m \in SUBSET S /\ x \in S /\ e \in K
  BY <1>6
<1>8. SumOver(count(u), K) = Cardinality(u)
  <2>1. u \notin T
    BY <1>4, <1>6
  <2> QED
    BY <1>7, <2>1
<1>9. Cardinality(m) = Cardinality(u) + 1 /\ Cardinality(u) \in Nat
  <2>1. IsFiniteSet(m) /\ Cardinality(m) \in Nat /\ Cardinality(u) \in Nat
    BY <1>1, <1>7
  <2>2. Cardinality(u) = Cardinality(m) - 1
    BY <1>6, <2>1, FS_RemoveElement
  <2> QED
    BY <2>1, <2>2
<1>10. count(m)[e] = count(u)[e] + 1
  <2>1. part(u, e) = part(m, e) \ {x} /\ x \in part(m, e)
    BY <1>6
  <2>2. IsFiniteSet(part(m, e)) /\ Cardinality(part(m, e)) \in Nat
    BY <1>1, <1>7
  <2> DEFINE p == part(m, e)
  <2> HIDE DEF part, p, u
  <2>3. Cardinality(p \ {x}) = Cardinality(p) - 1
    BY <2>1, <2>2, FS_RemoveElement DEF p
  <2>4. Cardinality(part(u, e)) = Cardinality(p) - 1 /\ Cardinality(p) \in Nat
    BY <2>1, <2>2, <2>3 DEF p
  <2> QED
    BY <1>7, <2>4 DEF p
<1>11. \A k \in K \ {e} : count(m)[k] = count(u)[k]
  <2> TAKE k \in K \ {e}
  <2>1. part(m, k) = part(u, k)
    OBVIOUS
  <2> QED
    BY <2>1
<1>12. \A k \in K : count(m)[k] \in Nat /\ count(u)[k] \in Nat
  BY <1>1, <1>7
<1> HIDE DEF count, u, e
<1>13. SumOver(count(m), K) + count(u)[e] = SumOver(count(u), K) + count(m)[e]
  BY <1>7, <1>11, <1>12, SumUpdate
<1>14. SumOver(count(m), K) \in Nat
  BY <1>12, SumFacts
<1>15. SumOver(count(m), K) = Cardinality(m)
  BY <1>7, <1>8, <1>9, <1>10, <1>12, <1>13, <1>14
<1> QED
  BY <1>4, <1>15

\* As many elements as places, when none is in two.
LEMMA LengthIs ==
  ASSUME NEW S, NEW s \in Seq(S), \A i, j \in DOMAIN s : s[i] = s[j] => i = j
  PROVE  IsFiniteSet(Range(s)) /\ Cardinality(Range(s)) = Len(s)
<1> DEFINE n == Len(s)
           D == 1..n
<1>1. n \in Nat /\ DOMAIN s = D
  OBVIOUS
<1>2. IsFiniteSet(D) /\ Cardinality(D) = n
  <2>1. IsFiniteSet(1..n) /\ Cardinality(1..n) = IF n >= 1 THEN n - 1 + 1 ELSE 0
    BY <1>1, FS_Interval
  <2> QED
    BY <1>1, <2>1
<1>3. s \in Bijection(D, Range(s))
  <2>1. s \in [D -> Range(s)] /\ \A i, j \in D : s[i] = s[j] => i = j
    BY <1>1 DEF Range
  <2>2. \A x \in Range(s) : \E i \in D : s[i] = x
    BY <1>1 DEF Range
  <2> HIDE DEF D
  <2>3. s \in Injection(D, Range(s))
    BY <1>1, <2>1 DEF Injection, IsInjective
  <2>4. s \in Surjection(D, Range(s))
    BY <2>1, <2>2 DEF Surjection
  <2> QED
    BY <2>3, <2>4 DEF Bijection
<1> HIDE DEF D
<1> QED
  BY <1>2, <1>3, FS_Bijection DEF ExistsBijection
=============================================================================
