--------------------------- MODULE Structures_proofs ---------------------------
(***************************************************************************)
(* What the data structures keep, for any number of keys, readers,         *)
(* targets, elements, askers, stages and users: the LFU cache that grows   *)
(* and shrinks, the caches with a time to live, the load balancer, the     *)
(* union-find and the pipeline; for the queues see Queues_proofs.  Each    *)
(* has an inductive invariant of its own (LFUInv, CachesInv, BalancerInv,  *)
(* UnionInv, PipelineInv), with a lemma for each of its operations and one *)
(* for all of them (XStep); the theorems about Structures, at the end, put *)
(* them together.  The lists are sequences that the code searches and that *)
(* Resize shortens in a loop, paths are followed to their root, stages are *)
(* marked recursively: what a loop computes is shown by induction over the *)
(* natural numbers.                                                        *)
(***************************************************************************)
EXTENDS Structures, Queues_proofs, SequenceTheorems, FiniteSetTheorems,
        WellFoundedInduction, TLAPS

--------------------------------------------------------------------------------
(* Sequences.                                                              *)

(* The members of s come in the order of the pairs r. *)
Ordered(s, r) == \A i, j \in DOMAIN s : i < j => <<s[i], s[j]>> \in r

(* What removing an element leaves.                                        *)
LEMMA RemoveAtIs ==
  ASSUME NEW S, NEW s \in Seq(S), NEW i \in DOMAIN s
  PROVE  /\ RemoveAt(s, i) \in Seq(S)
         /\ Len(RemoveAt(s, i)) = Len(s) - 1
         /\ \A j \in 1 .. Len(s) - 1 : RemoveAt(s, i)[j] = IF j < i THEN s[j] ELSE s[j + 1]
<1> DEFINE a == SubSeq(s, 1, i - 1)
           b == SubSeq(s, i + 1, Len(s))
<1>1. i \in 1 .. Len(s) /\ Len(s) \in Nat
  OBVIOUS
<1>2. a \in Seq(S) /\ Len(a) = i - 1 /\ \A j \in 1 .. i - 1 : a[j] = s[j]
  BY <1>1
<1>3. b \in Seq(S) /\ Len(b) = Len(s) - i /\ \A j \in 1 .. Len(s) - i : b[j] = s[j + i]
  BY <1>1
<1>4. RemoveAt(s, i) = a \o b
  BY DEF RemoveAt
<1> HIDE DEF a, b
<1>5. /\ a \o b \in Seq(S) /\ Len(a \o b) = Len(s) - 1
      /\ \A j \in 1 .. Len(s) - 1 : (a \o b)[j] = IF j < i THEN s[j] ELSE s[j + 1]
  <2>1. /\ a \o b \in Seq(S) /\ Len(a \o b) = Len(a) + Len(b)
        /\ \A j \in 1 .. Len(a) + Len(b) : (a \o b)[j] = IF j <= Len(a) THEN a[j] ELSE b[j - Len(a)]
    BY <1>2, <1>3, ConcatProperties
  <2>2. Len(a) + Len(b) = Len(s) - 1
    BY <1>1, <1>2, <1>3
  <2>3. ASSUME NEW j \in 1 .. Len(s) - 1
        PROVE  (a \o b)[j] = IF j < i THEN s[j] ELSE s[j + 1]
    <3>1. CASE j < i
      BY <1>1, <1>2, <2>1, <2>2, <3>1
    <3>2. CASE ~(j < i)
      <4> DEFINE m == j - Len(a)
      <4>1. m \in 1 .. Len(s) - i /\ m + i = j + 1 /\ ~(j <= Len(a))
        BY <1>1, <1>2, <3>2
      <4>2. (a \o b)[j] = b[m]
        BY <2>1, <2>2, <4>1
      <4>3. b[m] = s[m + i]
        <5> HIDE DEF m
        <5> QED BY <1>3, <4>1
      <4> QED BY <3>2, <4>1, <4>2, <4>3
    <3> QED BY <3>1, <3>2
  <2> QED BY <2>1, <2>2, <2>3
<1> QED BY <1>4, <1>5

(* RemoveFirst removes one element that is k, or nothing.                  *)
LEMMA RemoveFirstIs ==
  ASSUME NEW S, NEW s \in Seq(S), NEW k
  PROVE  /\ Holds(s, k) => \E i \in DOMAIN s : s[i] = k /\ RemoveFirst(s, k) = RemoveAt(s, i)
         /\ ~Holds(s, k) => RemoveFirst(s, k) = s
<1> DEFINE I == {i \in 1 .. Len(s) : s[i] = k}
<1>1. DOMAIN s = 1 .. Len(s) /\ Len(s) \in Nat
  OBVIOUS
<1>2. CASE Holds(s, k)
  <2>1. I # {} /\ I \subseteq Nat
    BY <1>1, <1>2 DEF Holds
  <2>2. \E m \in I : \A j \in I : m <= j
    <3> HIDE DEF I
    <3> QED BY <2>1, Least
  <2>3. Min(I) \in I
    BY <2>2 DEF Min
  <2>4. RemoveFirst(s, k) = RemoveAt(s, Min(I))
    BY <1>1, <1>2, <2>1 DEF RemoveFirst, SelectInSeq, Holds
  <2> QED BY <1>1, <1>2, <2>3, <2>4
<1>3. CASE ~Holds(s, k)
  BY <1>1, <1>3 DEF RemoveFirst, Holds
<1> QED BY <1>2, <1>3

(* From a list without repetitions RemoveFirst takes k and nothing else,   *)
(* and the others stay in order (list.Remove of the LFU and LRU caches).   *)
LEMMA RemoveFirstList ==
  ASSUME NEW S, NEW s \in Seq(S), NEW k, Holds(s, k), Distinct(s)
  PROVE  /\ Len(RemoveFirst(s, k)) = Len(s) - 1
         /\ RemoveFirst(s, k) \in Seq(S) /\ Distinct(RemoveFirst(s, k))
         /\ \A x : Holds(RemoveFirst(s, k), x) <=> Holds(s, x) /\ x # k
         /\ \A r : Ordered(s, r) => Ordered(RemoveFirst(s, k), r)
<1> DEFINE w == RemoveFirst(s, k)
<1>1. PICK i \in DOMAIN s :
           /\ s[i] = k /\ w \in Seq(S) /\ Len(w) = Len(s) - 1
           /\ \A j \in 1 .. Len(s) - 1 : w[j] = IF j < i THEN s[j] ELSE s[j + 1]
  <2>1. PICK i \in DOMAIN s : s[i] = k /\ RemoveFirst(s, k) = RemoveAt(s, i)
    BY RemoveFirstIs
  <2>2. /\ RemoveAt(s, i) \in Seq(S) /\ Len(RemoveAt(s, i)) = Len(s) - 1
        /\ \A j \in 1 .. Len(s) - 1 : RemoveAt(s, i)[j] = IF j < i THEN s[j] ELSE s[j + 1]
    BY RemoveAtIs
  <2> QED BY <2>1, <2>2
<1> HIDE DEF w
<1>2. DOMAIN s = 1 .. Len(s) /\ DOMAIN w = 1 .. Len(s) - 1 /\ Len(s) \in Nat /\ i \in 1 .. Len(s)
  BY <1>1
<1> DEFINE at(j) == IF j < i THEN j ELSE j + 1
<1>3. \A j \in DOMAIN w : at(j) \in DOMAIN s /\ at(j) # i /\ w[j] = s[at(j)]
  BY <1>1, <1>2
<1>4. \A j, l \in DOMAIN w : (j < l => at(j) < at(l)) /\ (at(j) = at(l) => j = l)
  BY <1>2
<1>5. \A j \in DOMAIN s : j # i => \E l \in DOMAIN w : at(l) = j
  <2>1. ASSUME NEW j \in DOMAIN s, j # i PROVE \E l \in DOMAIN w : at(l) = j
    <3>1. CASE j < i
      <4>1. j \in DOMAIN w /\ at(j) = j
        BY <1>2, <3>1
      <4> QED BY <4>1
    <3>2. CASE ~(j < i)
      <4>1. j - 1 \in DOMAIN w /\ at(j - 1) = j
        BY <1>2, <2>1, <3>2
      <4> QED BY <4>1
    <3> QED BY <3>1, <3>2
  <2> QED BY <2>1
<1> HIDE DEF at
<1>6. Distinct(w)
  BY <1>3, <1>4 DEF Distinct
<1>7. ASSUME NEW x PROVE Holds(w, x) <=> Holds(s, x) /\ x # k
  <2>1. ASSUME Holds(w, x) PROVE Holds(s, x) /\ x # k
    BY <1>1, <1>3, <2>1 DEF Holds, Distinct
  <2>2. ASSUME Holds(s, x), x # k PROVE Holds(w, x)
    <3>1. PICK j \in DOMAIN s : s[j] = x
      BY <2>2 DEF Holds
    <3>2. PICK l \in DOMAIN w : at(l) = j
      BY <1>1, <1>5, <2>2, <3>1
    <3> QED BY <1>3, <3>1, <3>2 DEF Holds
  <2> QED BY <2>1, <2>2
<1>8. ASSUME NEW r, Ordered(s, r) PROVE Ordered(w, r)
  BY <1>3, <1>4, <1>8 DEF Ordered
<1> QED BY <1>1, <1>6, <1>7, <1>8 DEF w

(* Putting a new element in front (PushFront) adds just that one.          *)
LEMMA Prepended ==
  ASSUME NEW S, NEW s \in Seq(S), NEW k \in S, ~Holds(s, k), Distinct(s)
  PROVE  /\ <<k>> \o s \in Seq(S) /\ Distinct(<<k>> \o s) /\ <<k>> \o s # <<>>
         /\ Len(<<k>> \o s) = Len(s) + 1
         /\ \A x : Holds(<<k>> \o s, x) <=> Holds(s, x) \/ x = k
         /\ \A r : Ordered(s, r) /\ (\A x : Holds(s, x) => <<k, x>> \in r) => Ordered(<<k>> \o s, r)
<1> DEFINE w == <<k>> \o s
<1>1. /\ w \in Seq(S) /\ Len(w) = Len(s) + 1 /\ w[1] = k
      /\ \A i \in DOMAIN s : w[i + 1] = s[i]
  <2>1. <<k>> \in Seq(S) /\ Len(<<k>>) = 1 /\ <<k>>[1] = k
    OBVIOUS
  <2>2. /\ w \in Seq(S) /\ Len(w) = 1 + Len(s)
        /\ \A i \in 1 .. 1 + Len(s) : w[i] = IF i <= 1 THEN <<k>>[i] ELSE s[i - 1]
    BY <2>1, ConcatProperties
  <2> HIDE DEF w
  <2> QED BY <2>1, <2>2
<1> HIDE DEF w
<1>2. DOMAIN s = 1 .. Len(s) /\ DOMAIN w = 1 .. Len(s) + 1 /\ Len(s) \in Nat
  BY <1>1
<1>3. \A i \in DOMAIN w : i # 1 => i - 1 \in DOMAIN s /\ w[i] = s[i - 1]
  BY <1>1, <1>2
<1>4. \A x : Holds(w, x) <=> Holds(s, x) \/ x = k
  <2>1. ASSUME NEW x, Holds(w, x) PROVE Holds(s, x) \/ x = k
    BY <1>1, <1>3, <2>1 DEF Holds
  <2>2. ASSUME NEW x, Holds(s, x) PROVE Holds(w, x)
    <3>1. PICK i \in DOMAIN s : s[i] = x
      BY <2>2 DEF Holds
    <3>2. i + 1 \in DOMAIN w
      BY <1>2
    <3> QED BY <1>1, <3>1, <3>2 DEF Holds
  <2>3. Holds(w, k)
    BY <1>1, <1>2 DEF Holds
  <2> QED BY <2>1, <2>2, <2>3
<1>5. Distinct(w)
  <2>1. ASSUME NEW i \in DOMAIN w, NEW j \in DOMAIN w, w[i] = w[j] PROVE i = j
    <3>1. CASE i = 1 \/ j = 1
      BY <1>1, <1>3, <2>1, <3>1 DEF Holds
    <3>2. CASE i # 1 /\ j # 1
      <4>1. i - 1 = j - 1
        BY <1>3, <2>1, <3>2 DEF Distinct
      <4> QED BY <1>2, <4>1
    <3> QED BY <3>1, <3>2
  <2> QED BY <2>1 DEF Distinct
<1>6. ASSUME NEW r, Ordered(s, r), \A x : Holds(s, x) => <<k, x>> \in r
      PROVE  Ordered(w, r)
  <2>1. ASSUME NEW i \in DOMAIN w, NEW j \in DOMAIN w, i < j PROVE <<w[i], w[j]>> \in r
    <3>1. j # 1 /\ j - 1 \in DOMAIN s /\ w[j] = s[j - 1]
      BY <1>2, <1>3, <2>1
    <3>2. CASE i = 1
      BY <1>1, <1>6, <3>1, <3>2 DEF Holds
    <3>3. CASE i # 1
      <4>1. i - 1 \in DOMAIN s /\ w[i] = s[i - 1] /\ i - 1 < j - 1
        BY <1>2, <1>3, <2>1, <3>3
      <4> QED BY <1>6, <3>1, <4>1 DEF Ordered
    <3> QED BY <3>2, <3>3
  <2> QED BY <2>1 DEF Ordered
<1>7. w # <<>>
  BY <1>1, <1>2
<1> QED BY <1>1, <1>4, <1>5, <1>6, <1>7 DEF w

--------------------------------------------------------------------------------
(* The LFU cache.                                                          *)

CacheType == [capacity : Nat \ {0}, minFreq : Freqs,
              freq : [Keys -> Freqs], list : [Freqs -> Seq(Keys)]]
CacheOK(c) == c \in CacheType /\ ListsExact(c) /\ MinFreqBelow(c)
OrderKept(c, r) == \A f \in Freqs : Ordered(c.list[f], r)

(* The lists agree with the frequencies, said with Holds and Distinct.     *)
LEMMA ListsExactIs ==
  ASSUME NEW c
  PROVE  ListsExact(c) <=> \A f \in Freqs :
           /\ Distinct(c.list[f])
           /\ \A k \in Keys : Holds(c.list[f], k) <=> f > 0 /\ c.freq[k] = f
BY DEF ListsExact, Distinct, Holds

(* What a list holds is cached with its frequency.                         *)
LEMMA HeldAreKeys ==
  ASSUME NEW c, CacheOK(c), NEW f \in Freqs, NEW x, Holds(c.list[f], x)
  PROVE  x \in Keys /\ c.freq[x] = f /\ f > 0
<1>1. c.list[f] \in Seq(Keys)
  BY DEF CacheOK, CacheType
<1>2. x \in Keys
  BY <1>1 DEF Holds
<1> QED BY <1>2, ListsExactIs DEF CacheOK

(* LFU.removeEntry takes one key out of the cache and of its list.         *)
LEMMA RemoveEntryOK ==
  ASSUME NEW c, CacheOK(c), NEW k \in Keys, c.freq[k] > 0
  PROVE  /\ CacheOK(RemoveEntry(c, k))
         /\ RemoveEntry(c, k).capacity = c.capacity
         /\ RemoveEntry(c, k).minFreq = c.minFreq
         /\ Cached(RemoveEntry(c, k)) = Cached(c) \ {k}
         /\ \A x \in Keys \ {k} : RemoveEntry(c, k).freq[x] = c.freq[x]
         /\ \A r : OrderKept(c, r) => OrderKept(RemoveEntry(c, k), r)
<1> DEFINE g == c.freq[k]
           w == RemoveFirst(c.list[g], k)
           d == RemoveEntry(c, k)
<1>1. c \in CacheType /\ g \in Freqs /\ 0 \in Freqs /\ g # 0
  BY LFUAssumption DEF CacheOK, CacheType, Freqs
<1>2. c.list[g] \in Seq(Keys) /\ Holds(c.list[g], k) /\ Distinct(c.list[g])
  BY <1>1, ListsExactIs DEF CacheOK, CacheType
<1>3. /\ w \in Seq(Keys) /\ Distinct(w)
      /\ \A x : Holds(w, x) <=> Holds(c.list[g], x) /\ x # k
      /\ \A r : Ordered(c.list[g], r) => Ordered(w, r)
  BY <1>2, RemoveFirstList
<1> HIDE DEF w
<1>4. /\ d.capacity = c.capacity /\ d.minFreq = c.minFreq
      /\ d.freq = [c.freq EXCEPT ![k] = 0]
      /\ d.list = [c.list EXCEPT ![g] = w]
      /\ d \in CacheType
  BY <1>1, <1>3 DEF RemoveEntry, CacheType, w
<1> HIDE DEF d
<1>5. /\ \A x \in Keys : d.freq[x] = IF x = k THEN 0 ELSE c.freq[x]
      /\ \A f \in Freqs : d.list[f] = IF f = g THEN w ELSE c.list[f]
  BY <1>1, <1>4 DEF CacheType
<1>6. Cached(d) = Cached(c) \ {k}
  BY <1>5 DEF Cached
<1>7. MinFreqBelow(d)
  BY <1>4, <1>5, <1>6 DEF MinFreqBelow, CacheOK, Cached
<1>8. ListsExact(d)
  <2>1. ASSUME NEW f \in Freqs
        PROVE  /\ Distinct(d.list[f])
               /\ \A x \in Keys : Holds(d.list[f], x) <=> f > 0 /\ d.freq[x] = f
    <3>1. Distinct(c.list[f]) /\ \A x \in Keys : Holds(c.list[f], x) <=> f > 0 /\ c.freq[x] = f
      BY ListsExactIs DEF CacheOK
    <3>2. CASE f = g
      BY <1>1, <1>3, <1>5, <3>1, <3>2 DEF Freqs
    <3>3. CASE f # g
      BY <1>1, <1>5, <3>1, <3>3 DEF Freqs
    <3> QED BY <3>2, <3>3
  <2> QED BY <2>1, ListsExactIs
<1>9. ASSUME NEW r, OrderKept(c, r) PROVE OrderKept(d, r)
  BY <1>1, <1>3, <1>5, <1>9 DEF OrderKept
<1>10. CacheOK(d)
  BY <1>4, <1>7, <1>8 DEF CacheOK
<1> QED BY <1>4, <1>5, <1>6, <1>9, <1>10 DEF d

(* LFU.incrementFreq moves one key to the front of the next list, and      *)
(* minFreq with it when the list it leaves becomes empty.                  *)
LEMMA IncrementFreqOK ==
  ASSUME NEW c, CacheOK(c), NEW k \in Keys, c.freq[k] > 0, c.freq[k] < MaxFreq
  PROVE  /\ CacheOK(IncrementFreq(c, k))
         /\ IncrementFreq(c, k).capacity = c.capacity
         /\ Cached(IncrementFreq(c, k)) = Cached(c)
         /\ c.list[c.minFreq] # <<>>
              => IncrementFreq(c, k).list[IncrementFreq(c, k).minFreq] # <<>>
         /\ \A r : /\ OrderKept(RemoveEntry(c, k), r)
                   /\ \A x \in Cached(c) \ {k} : <<k, x>> \in r
                   => OrderKept(IncrementFreq(c, k), r)
<1> DEFINE g == c.freq[k]
           w == RemoveFirst(c.list[g], k)
           v == <<k>> \o c.list[g + 1]
           d == IncrementFreq(c, k)
<1>1. c \in CacheType /\ g \in Freqs /\ g + 1 \in Freqs /\ g > 0 /\ g # g + 1
  BY LFUAssumption DEF CacheOK, CacheType, Freqs
<1>2. /\ c.list[g] \in Seq(Keys) /\ Holds(c.list[g], k) /\ Distinct(c.list[g])
      /\ c.list[g + 1] \in Seq(Keys) /\ ~Holds(c.list[g + 1], k) /\ Distinct(c.list[g + 1])
  BY <1>1, ListsExactIs DEF CacheOK, CacheType
<1>3. /\ w \in Seq(Keys) /\ Distinct(w)
      /\ \A x : Holds(w, x) <=> Holds(c.list[g], x) /\ x # k
      /\ \A r : Ordered(c.list[g], r) => Ordered(w, r)
  BY <1>2, RemoveFirstList
<1>4. /\ v \in Seq(Keys) /\ Distinct(v) /\ v # <<>>
      /\ \A x : Holds(v, x) <=> Holds(c.list[g + 1], x) \/ x = k
      /\ \A r : /\ Ordered(c.list[g + 1], r)
                /\ \A x : Holds(c.list[g + 1], x) => <<k, x>> \in r
                => Ordered(v, r)
  BY <1>2, Prepended
<1> HIDE DEF w, v
<1>5. /\ d.capacity = c.capacity
      /\ d.minFreq = IF w = <<>> /\ c.minFreq = g THEN g + 1 ELSE c.minFreq
      /\ d.freq = [c.freq EXCEPT ![k] = g + 1]
      /\ d.list = [c.list EXCEPT ![g] = w, ![g + 1] = v]
      /\ d \in CacheType
  <2>1. /\ d.capacity = c.capacity
        /\ d.minFreq = IF w = <<>> /\ c.minFreq = g THEN g + 1 ELSE c.minFreq
        /\ d.freq = [c.freq EXCEPT ![k] = g + 1]
        /\ d.list = [c.list EXCEPT ![g] = w, ![g + 1] = v]
        /\ d = [capacity |-> d.capacity, minFreq |-> d.minFreq, freq |-> d.freq, list |-> d.list]
    <3>1. d = [c EXCEPT !.freq[k] = g + 1,
                        !.list[g] = w, !.list[g + 1] = v,
                        !.minFreq = IF w = <<>> /\ @ = g THEN g + 1 ELSE @]
      <4>1. ([c.list EXCEPT ![g] = w])[g + 1] = c.list[g + 1]
        BY <1>1 DEF CacheType
      <4> QED BY <4>1 DEF IncrementFreq, w, v
    <3> HIDE DEF d
    <3> QED BY <1>1, <3>1 DEF CacheType
  <2> HIDE DEF d
  <2>2. d.freq \in [Keys -> Freqs]
    BY <1>1, <2>1 DEF CacheType
  <2>3. d.list \in [Freqs -> Seq(Keys)]
    BY <1>1, <1>3, <1>4, <2>1 DEF CacheType
  <2>4. d.minFreq \in Freqs
    BY <1>1, <2>1 DEF CacheType
  <2> QED BY <1>1, <2>1, <2>2, <2>3, <2>4 DEF CacheType
<1> HIDE DEF d
<1>6. /\ \A x \in Keys : d.freq[x] = IF x = k THEN g + 1 ELSE c.freq[x]
      /\ \A f \in Freqs : d.list[f] = IF f = g THEN w ELSE IF f = g + 1 THEN v ELSE c.list[f]
  BY <1>1, <1>5 DEF CacheType
<1>7. Cached(d) = Cached(c)
  BY <1>1, <1>6 DEF Cached, Freqs
<1>8. MinFreqBelow(d)
  <2>1. ASSUME NEW x \in Cached(d) PROVE d.minFreq <= d.freq[x]
    <3>1. x \in Keys /\ x \in Cached(c) /\ c.minFreq <= c.freq[x] /\ c.minFreq <= g
          /\ c.freq[x] \in Nat /\ c.minFreq \in Nat /\ g \in Nat
      BY <1>1, <1>7, <2>1 DEF MinFreqBelow, CacheOK, Cached, CacheType, Freqs
    <3>2. CASE w = <<>> /\ c.minFreq = g /\ x # k
      <4>1. ~Holds(w, x)
        BY <3>2 DEF Holds
      <4>2. c.freq[x] # g
        BY <1>1, <1>3, <3>1, <3>2, <4>1, ListsExactIs DEF CacheOK
      <4> QED BY <1>5, <1>6, <3>1, <3>2, <4>2
    <3>3. CASE ~(w = <<>> /\ c.minFreq = g) \/ x = k
      BY <1>5, <1>6, <3>1, <3>3
    <3> QED BY <3>2, <3>3
  <2> QED BY <2>1 DEF MinFreqBelow
<1>9. ListsExact(d)
  <2>1. ASSUME NEW f \in Freqs
        PROVE  /\ Distinct(d.list[f])
               /\ \A x \in Keys : Holds(d.list[f], x) <=> f > 0 /\ d.freq[x] = f
    <3>1. Distinct(c.list[f]) /\ \A x \in Keys : Holds(c.list[f], x) <=> f > 0 /\ c.freq[x] = f
      BY ListsExactIs DEF CacheOK
    <3>2. CASE f = g
      BY <1>1, <1>3, <1>6, <3>1, <3>2
    <3>3. CASE f = g + 1
      <4>1. f > 0 /\ f # g /\ d.list[f] = v
        BY <1>1, <1>6, <3>3 DEF Freqs
      <4>2. Distinct(d.list[f])
        BY <1>4, <4>1
      <4>3. ASSUME NEW x \in Keys PROVE Holds(d.list[f], x) <=> f > 0 /\ d.freq[x] = f
        BY <1>4, <1>6, <3>1, <3>3, <4>1
      <4> QED BY <4>2, <4>3
    <3>4. CASE f # g /\ f # g + 1
      BY <1>1, <1>6, <3>1, <3>4
    <3> QED BY <3>2, <3>3, <3>4
  <2> QED BY <2>1, ListsExactIs
<1>10. ASSUME NEW r, OrderKept(RemoveEntry(c, k), r), \A x \in Cached(c) \ {k} : <<k, x>> \in r
       PROVE  OrderKept(d, r)
  <2>1. ASSUME NEW x, Holds(c.list[g + 1], x) PROVE <<k, x>> \in r
    <3>1. x \in Keys /\ c.freq[x] = g + 1
      BY <1>1, <2>1, HeldAreKeys
    <3> QED BY <1>1, <1>10, <3>1 DEF Cached, Freqs
  <2>2. \A f \in Freqs : RemoveEntry(c, k).list[f] = IF f = g THEN w ELSE c.list[f]
    BY <1>1, <1>3 DEF RemoveEntry, CacheType, w
  <2>3. Ordered(w, r) /\ \A f \in Freqs : f # g => Ordered(c.list[f], r)
    BY <1>1, <1>10, <2>2 DEF OrderKept
  <2>4. Ordered(v, r)
    BY <1>1, <1>4, <2>1, <2>3
  <2> QED BY <1>6, <2>3, <2>4 DEF OrderKept
<1>11. ASSUME c.list[c.minFreq] # <<>> PROVE d.list[d.minFreq] # <<>>
  BY <1>1, <1>4, <1>5, <1>6, <1>11 DEF CacheType
<1>12. CacheOK(d)
  BY <1>5, <1>8, <1>9 DEF CacheOK
<1> QED BY <1>5, <1>7, <1>10, <1>11, <1>12 DEF d

(* d is c without entries that were used less often than those that stay, *)
(* or as often and, as the pairs r say, earlier.                           *)
Trims(c, d, r) ==
  /\ OrderKept(d, r)
  /\ d.minFreq = c.minFreq
  /\ Cached(d) \subseteq Cached(c)
  /\ \A l \in Cached(d) : d.freq[l] = c.freq[l]
  /\ \A k \in Cached(c) \ Cached(d), l \in Cached(d) :
       \/ c.freq[k] < c.freq[l]
       \/ c.freq[k] = c.freq[l] /\ <<l, k>> \in r

(* A cached key is in the list of its frequency, which minFreq is not      *)
(* above.                                                                  *)
LEMMA CachedFreq ==
  ASSUME NEW c, CacheOK(c), NEW k \in Cached(c)
  PROVE  /\ k \in Keys /\ c.freq[k] \in Freqs /\ c.freq[k] \in Nat /\ c.freq[k] > 0
         /\ c.minFreq \in Freqs /\ c.minFreq \in Nat /\ c.minFreq <= c.freq[k]
         /\ Holds(c.list[c.freq[k]], k)
<1>1. k \in Keys /\ c.freq[k] > 0 /\ c.freq[k] \in Freqs /\ c.minFreq \in Freqs
  BY DEF Cached, CacheOK, CacheType
<1>2. c.minFreq <= c.freq[k]
  BY DEF CacheOK, MinFreqBelow
<1>3. Holds(c.list[c.freq[k]], k)
  BY <1>1, ListsExactIs DEF CacheOK
<1> QED BY <1>1, <1>2, <1>3, LFUAssumption DEF Freqs

(* Trimming a trimmed cache trims it.                                      *)
LEMMA TrimsTwice ==
  ASSUME NEW r, NEW c, NEW d, NEW e, CacheOK(c), CacheOK(d), Trims(c, d, r), Trims(d, e, r)
  PROVE  Trims(c, e, r)
<1>1. ASSUME NEW k \in Cached(c) \ Cached(e), NEW l \in Cached(e)
      PROVE  \/ c.freq[k] < c.freq[l]
             \/ c.freq[k] = c.freq[l] /\ <<l, k>> \in r
  BY DEF Trims
<1>2. /\ e.minFreq = c.minFreq /\ Cached(e) \subseteq Cached(c) /\ OrderKept(e, r)
      /\ \A l \in Cached(e) : e.freq[l] = c.freq[l]
  BY DEF Trims
<1> QED BY <1>1, <1>2 DEF Trims

(* LFU.evict takes the key at the back of the list of minFreq, if that     *)
(* list has one.                                                           *)
LEMMA EvictOK ==
  ASSUME NEW r, NEW c, CacheOK(c), OrderKept(c, r)
  PROVE  /\ CacheOK(Evict(c)) /\ Evict(c).capacity = c.capacity
         /\ Trims(c, Evict(c), r)
         /\ c.list[c.minFreq] # <<>> =>
              \E k \in Cached(c) : Cached(Evict(c)) = Cached(c) \ {k}
<1> DEFINE f == c.minFreq
           s == c.list[f]
           k == s[Len(s)]
           d == RemoveEntry(c, k)
<1>1. f \in Freqs /\ s \in Seq(Keys)
  BY DEF CacheOK, CacheType
<1>2. CASE s = <<>>
  <2>1. Evict(c) = c
    BY <1>2 DEF Evict
  <2> QED BY <1>2, <2>1 DEF Trims
<1>3. CASE s # <<>>
  <2>1. Len(s) \in DOMAIN s
    BY <1>1, <1>3
  <2>2. Holds(s, k)
    BY <2>1 DEF Holds
  <2>3. k \in Keys /\ c.freq[k] = f /\ f > 0
    BY <1>1, <2>2, HeldAreKeys
  <2>4. Evict(c) = d
    BY <1>3 DEF Evict
  <2> HIDE DEF d
  <2>5. /\ CacheOK(d) /\ d.capacity = c.capacity /\ d.minFreq = c.minFreq
        /\ Cached(d) = Cached(c) \ {k}
        /\ \A x \in Keys \ {k} : d.freq[x] = c.freq[x]
        /\ OrderKept(d, r)
    BY <2>3, RemoveEntryOK DEF d
  <2>6. k \in Cached(c)
    BY <2>3 DEF Cached
  <2>7. ASSUME NEW l \in Cached(d)
        PROVE  /\ d.freq[l] = c.freq[l]
               /\ c.freq[k] < c.freq[l] \/ (c.freq[k] = c.freq[l] /\ <<l, k>> \in r)
    <3>1. l \in Cached(c) /\ l # k
      BY <2>5
    <3>2. /\ l \in Keys /\ c.freq[l] \in Nat /\ f \in Nat /\ f <= c.freq[l]
          /\ Holds(c.list[c.freq[l]], l)
      BY <3>1, CachedFreq
    <3>3. CASE f < c.freq[l]
      BY <2>3, <2>5, <3>1, <3>2, <3>3
    <3>4. CASE f = c.freq[l]
      <4>1. PICK i \in DOMAIN s : s[i] = l
        BY <3>2, <3>4 DEF Holds
      <4>2. i < Len(s)
        BY <1>1, <3>1, <4>1
      <4>3. <<s[i], s[Len(s)]>> \in r
        BY <1>1, <2>1, <4>2 DEF OrderKept, Ordered
      <4>4. d.freq[l] = c.freq[l] /\ c.freq[k] = c.freq[l]
        BY <2>3, <2>5, <3>1, <3>2, <3>4
      <4>5. <<l, k>> \in r
        BY <2>3, <4>1, <4>3
      <4> QED BY <4>4, <4>5
    <3>5. f < c.freq[l] \/ f = c.freq[l]
      BY <3>2
    <3> QED BY <3>3, <3>4, <3>5
  <2>8. Trims(c, d, r)
    BY <2>5, <2>7 DEF Trims
  <2> QED BY <2>4, <2>5, <2>6, <2>8
<1> QED BY <1>2, <1>3

(* A new key comes to the front of list 1, to which minFreq is set.        *)
LEMMA InsertOK ==
  ASSUME NEW c, CacheOK(c), NEW k \in Keys, c.freq[k] = 0
  PROVE  /\ CacheOK(Insert(c, k)) /\ Insert(c, k).capacity = c.capacity
         /\ Cached(Insert(c, k)) = Cached(c) \cup {k}
         /\ \A x \in Cached(c) : Insert(c, k).freq[x] = c.freq[x]
         /\ Insert(c, k).list[Insert(c, k).minFreq] # <<>>
         /\ \A r : /\ OrderKept(c, r)
                   /\ \A x \in Cached(c) : <<k, x>> \in r
                   => OrderKept(Insert(c, k), r)
<1> DEFINE v == <<k>> \o c.list[1]
           d == Insert(c, k)
<1>1. c \in CacheType /\ 1 \in Freqs
  BY LFUAssumption DEF CacheOK, CacheType, Freqs
<1>2. c.list[1] \in Seq(Keys) /\ ~Holds(c.list[1], k) /\ Distinct(c.list[1])
  BY <1>1, ListsExactIs DEF CacheOK, CacheType
<1>3. /\ v \in Seq(Keys) /\ Distinct(v) /\ v # <<>>
      /\ \A x : Holds(v, x) <=> Holds(c.list[1], x) \/ x = k
      /\ \A r : /\ Ordered(c.list[1], r)
                /\ \A x : Holds(c.list[1], x) => <<k, x>> \in r
                => Ordered(v, r)
  BY <1>2, Prepended
<1> HIDE DEF v
<1>4. /\ d.capacity = c.capacity /\ d.minFreq = 1
      /\ d.freq = [c.freq EXCEPT ![k] = 1] /\ d.list = [c.list EXCEPT ![1] = v]
      /\ d \in CacheType
  BY <1>1, <1>3 DEF Insert, CacheType, v
<1> HIDE DEF d
<1>5. /\ \A x \in Keys : d.freq[x] = IF x = k THEN 1 ELSE c.freq[x]
      /\ \A f \in Freqs : d.list[f] = IF f = 1 THEN v ELSE c.list[f]
  BY <1>1, <1>4 DEF CacheType
<1>6. Cached(d) = Cached(c) \cup {k} /\ \A x \in Cached(c) : d.freq[x] = c.freq[x]
  BY <1>5 DEF Cached
<1>7. MinFreqBelow(d)
  <2>1. ASSUME NEW x \in Cached(d) PROVE 1 <= d.freq[x]
    BY <1>4 DEF Cached, CacheType, Freqs
  <2> QED BY <1>4, <2>1 DEF MinFreqBelow
<1>8. ListsExact(d)
  <2>1. ASSUME NEW f \in Freqs
        PROVE  /\ Distinct(d.list[f])
               /\ \A x \in Keys : Holds(d.list[f], x) <=> f > 0 /\ d.freq[x] = f
    <3>1. Distinct(c.list[f]) /\ \A x \in Keys : Holds(c.list[f], x) <=> f > 0 /\ c.freq[x] = f
      BY ListsExactIs DEF CacheOK
    <3>2. CASE f = 1
      <4>1. ASSUME NEW x \in Keys PROVE Holds(d.list[f], x) <=> f > 0 /\ d.freq[x] = f
        BY <1>1, <1>3, <1>5, <3>1, <3>2
      <4> QED BY <1>1, <1>3, <1>5, <3>2, <4>1
    <3>3. CASE f # 1
      BY <1>1, <1>5, <3>1, <3>3 DEF Freqs
    <3> QED BY <3>2, <3>3
  <2> QED BY <2>1, ListsExactIs
<1>9. ASSUME NEW r, OrderKept(c, r), \A x \in Cached(c) : <<k, x>> \in r
      PROVE  OrderKept(d, r)
  <2>1. ASSUME NEW x, Holds(c.list[1], x) PROVE <<k, x>> \in r
    BY <1>1, <1>9, <2>1, HeldAreKeys DEF Cached
  <2>2. Ordered(v, r)
    BY <1>1, <1>3, <1>9, <2>1 DEF OrderKept
  <2> QED BY <1>5, <1>9, <2>2 DEF OrderKept
<1>10. CacheOK(d) /\ d.list[d.minFreq] # <<>>
  BY <1>1, <1>3, <1>4, <1>5, <1>7, <1>8 DEF CacheOK
<1> QED BY <1>4, <1>6, <1>9, <1>10 DEF d

(* Evicting again and again, as LFUResize does.                            *)
Evictions(c, n, g) ==
  g = [i \in 0 .. n |-> IF i = 0 THEN c ELSE Evict(g[i - 1])]

(* The evictions, as a recursive function, are there.                      *)
LEMMA EvictionsExist ==
  ASSUME NEW c, NEW n \in Nat
  PROVE  \E g : Evictions(c, n, g)
<1> DEFINE S == {m \in Nat : \E g : Evictions(c, m, g)}
<1>1. 0 \in S
  <2> DEFINE h == [i \in 0 .. 0 |-> c]
  <2>1. h = [i \in 0 .. 0 |-> IF i = 0 THEN c ELSE Evict(h[i - 1])]
    OBVIOUS
  <2> HIDE DEF h
  <2> QED BY <2>1 DEF Evictions
<1>2. ASSUME NEW m \in Nat, m \in S PROVE m + 1 \in S
  <2>1. PICK g : Evictions(c, m, g)
    BY <1>2
  <2> DEFINE h == [i \in 0 .. (m + 1) |-> IF i = m + 1 THEN Evict(g[m]) ELSE g[i]]
  <2>2. ASSUME NEW i \in 0 .. (m + 1)
        PROVE  h[i] = IF i = 0 THEN c ELSE Evict(h[i - 1])
    <3>1. CASE i = m + 1
      <4>1. i # 0 /\ h[i] = Evict(g[m]) /\ i - 1 \in 0 .. (m + 1) /\ i - 1 # m + 1 /\ i - 1 = m
        BY <3>1
      <4>2. h[i - 1] = g[m]
        BY <4>1
      <4> QED BY <4>1, <4>2
    <3>2. CASE i # m + 1
      <4>1. i \in 0 .. m /\ h[i] = g[i]
        BY <3>2
      <4>2. g[i] = IF i = 0 THEN c ELSE Evict(g[i - 1])
        BY <2>1, <4>1 DEF Evictions
      <4>3. CASE i = 0
        BY <4>1, <4>2, <4>3
      <4>4. CASE i # 0
        <5>1. h[i - 1] = g[i - 1]
          BY <4>1, <4>4
        <5> QED BY <4>1, <4>2, <4>4, <5>1
      <4> QED BY <4>3, <4>4
    <3> QED BY <3>1, <3>2
  <2>3. h = [i \in 0 .. (m + 1) |-> h[i]]
    OBVIOUS
  <2> HIDE DEF h
  <2>4. Evictions(c, m + 1, h)
    BY <2>2, <2>3 DEF Evictions
  <2> QED BY <2>4
<1>3. Nat \subseteq S
  <2> HIDE DEF S
  <2> QED BY <1>1, <1>2, Induction
<1> QED BY <1>3

(* Trimming nothing trims.                                                 *)
LEMMA TrimsItself ==
  ASSUME NEW c, NEW r, OrderKept(c, r)
  PROVE  Trims(c, c, r)
BY DEF Trims

(* LFU.Resize, however many times its loop evicts, only trims the cache,   *)
(* and not at all when everything fits in.                                 *)
LEMMA LFUResizeOK ==
  ASSUME NEW r, NEW c, CacheOK(c), OrderKept(c, r), NEW newCapacity \in Nat
  PROVE  /\ CacheOK(LFUResize(c, newCapacity))
         /\ LFUResize(c, newCapacity).capacity = IF newCapacity < 1 THEN 1 ELSE newCapacity
         /\ Trims(c, LFUResize(c, newCapacity), r)
         /\ Size(c) <= LFUResize(c, newCapacity).capacity
              => LFUResize(c, newCapacity) = [c EXCEPT !.capacity = LFUResize(c, newCapacity).capacity]
<1> DEFINE n == IF newCapacity < 1 THEN 1 ELSE newCapacity
           a == [c EXCEPT !.capacity = n]
           N == Cardinality(Keys)
           after == CHOOSE g : Evictions(a, N, g)
           d == LFUResize(c, newCapacity)
<1>1. N \in Nat /\ Size(c) \in 0 .. N
  <2>1. IsFiniteSet(Keys) /\ Cached(c) \subseteq Keys
    BY LFUAssumption DEF Cached
  <2> QED BY <2>1, FS_CardinalityType, FS_Subset DEF Size
<1>2. n \in Nat \ {0}
  OBVIOUS
<1>3. Evictions(a, N, after)
  BY <1>1, EvictionsExist
<1>4. d = IF Size(c) > n THEN after[Size(c) - n] ELSE after[0]
  BY DEF LFUResize, Evictions
<1> HIDE DEF after
<1>5. /\ CacheOK(a) /\ a.capacity = n /\ OrderKept(a, r) /\ a.minFreq = c.minFreq
      /\ a.freq = c.freq /\ a.list = c.list /\ Cached(a) = Cached(c)
  <2>1. /\ a \in CacheType /\ a.capacity = n /\ a.minFreq = c.minFreq
        /\ a.freq = c.freq /\ a.list = c.list
    <3> HIDE DEF n
    <3> QED BY <1>2 DEF CacheOK, CacheType
  <2> HIDE DEF a, n
  <2>2. Cached(a) = Cached(c) /\ OrderKept(a, r)
    BY <2>1 DEF Cached, OrderKept
  <2>3. ListsExact(a) /\ MinFreqBelow(a)
    BY <2>1, <2>2 DEF ListsExact, MinFreqBelow, CacheOK
  <2> QED BY <2>1, <2>2, <2>3 DEF CacheOK
<1> HIDE DEF a, n
<1> DEFINE Good(e) == CacheOK(e) /\ e.capacity = n /\ Trims(a, e, r)
           S == {i \in Nat : i <= N => Good(after[i])}
<1>6. 0 \in S /\ after[0] = a
  <2>1. after[0] = a
    BY <1>1, <1>3 DEF Evictions
  <2> QED BY <1>5, <2>1, TrimsItself
<1>7. ASSUME NEW i \in Nat, i \in S PROVE i + 1 \in S
  <2>1. SUFFICES ASSUME i + 1 <= N PROVE Good(after[i + 1])
    OBVIOUS
  <2>2. i <= N /\ i + 1 \in 0 .. N /\ i + 1 # 0 /\ (i + 1) - 1 = i
    BY <1>1, <2>1
  <2>3. after[i + 1] = Evict(after[i])
    BY <1>3, <2>2 DEF Evictions
  <2>4. Good(after[i])
    BY <1>7, <2>2
  <2>5. OrderKept(after[i], r)
    BY <2>4 DEF Trims
  <2>6. /\ CacheOK(Evict(after[i])) /\ Evict(after[i]).capacity = n
        /\ Trims(after[i], Evict(after[i]), r)
    BY <2>4, <2>5, EvictOK
  <2>7. Trims(a, Evict(after[i]), r)
    BY <1>5, <2>4, <2>6, TrimsTwice
  <2> QED BY <2>3, <2>6, <2>7
<1>8. Nat \subseteq S
  <2> HIDE DEF S
  <2> QED BY <1>6, <1>7, Induction
<1>9. Good(d)
  <2>1. CASE Size(c) > n
    <3>1. Size(c) - n \in Nat /\ Size(c) - n <= N
      BY <1>1, <1>2, <2>1 DEF n
    <3>2. Good(after[Size(c) - n])
      BY <1>8, <3>1
    <3> QED BY <1>4, <2>1, <3>2
  <2>2. CASE ~(Size(c) > n)
    <3>1. Good(after[0])
      BY <1>1, <1>8
    <3> QED BY <1>4, <2>2, <3>1
  <2> QED BY <2>1, <2>2
<1>10. Trims(c, d, r)
  BY <1>5, <1>9 DEF Trims
<1>11. ASSUME Size(c) <= d.capacity PROVE d = a
  <2>1. ~(Size(c) > n)
    BY <1>1, <1>2, <1>9, <1>11 DEF n
  <2> QED BY <1>4, <1>6, <2>1
<1> QED BY <1>5, <1>9, <1>10, <1>11 DEF n, a

(* What the pairs r say of entries that are not cached does not matter.    *)
LEMMA OrderOfCached ==
  ASSUME NEW c, CacheOK(c), NEW r, OrderKept(c, r), NEW q,
         r \cap (Cached(c) \X Cached(c)) \subseteq q
  PROVE  OrderKept(c, q)
<1>1. ASSUME NEW f \in Freqs, NEW i \in DOMAIN c.list[f], NEW j \in DOMAIN c.list[f], i < j
      PROVE  <<c.list[f][i], c.list[f][j]>> \in q
  <2>1. Holds(c.list[f], c.list[f][i]) /\ Holds(c.list[f], c.list[f][j])
    BY DEF Holds
  <2>2. c.list[f][i] \in Cached(c) /\ c.list[f][j] \in Cached(c)
    BY <2>1, HeldAreKeys DEF Cached
  <2>3. <<c.list[f][i], c.list[f][j]>> \in r
    BY <1>1 DEF OrderKept, Ordered
  <2> QED BY <2>2, <2>3
<1> QED BY <1>1 DEF OrderKept, Ordered

(* Never more entries than the capacity, and no stale minFreq at a full    *)
(* cache.                                                                  *)
Roomy(c) == /\ Size(c) <= c.capacity
            /\ Size(c) = c.capacity => c.list[c.minFreq] # <<>>

(* The size of a cache is a number.                                        *)
LEMMA SizeType ==
  ASSUME NEW c
  PROVE  Size(c) \in Nat /\ IsFiniteSet(Cached(c)) /\ Size(c) = Cardinality(Cached(c))
<1>1. IsFiniteSet(Keys) /\ Cached(c) \subseteq Keys
  BY LFUAssumption DEF Cached
<1> QED BY <1>1, FS_CardinalityType, FS_Subset DEF Size

(* LFU.Set renews a key that is cached, and otherwise trims the cache      *)
(* before it puts the new one in; a cache with room keeps room.            *)
LEMMA LFUSetOK ==
  ASSUME NEW r, NEW c, CacheOK(c), OrderKept(c, r), NEW k \in Keys, c.freq[k] < MaxFreq
  PROVE  /\ CacheOK(LFUSet(c, k)) /\ LFUSet(c, k).capacity = c.capacity
         /\ Roomy(c) => Roomy(LFUSet(c, k))
         /\ k \in Cached(LFUSet(c, k))
         /\ LET others == Cached(LFUSet(c, k)) \ {k}
            IN  OrderKept(LFUSet(c, k), (r \cap (others \X others)) \cup ({k} \X others))
         /\ \/ k \in Cached(c) /\ Cached(LFUSet(c, k)) = Cached(c)
            \/ k \notin Cached(c) /\ \E m : Trims(c, m, r) /\ Cached(LFUSet(c, k)) = Cached(m) \cup {k}
<1> DEFINE e == LFUSet(c, k)
           others == Cached(e) \ {k}
           q == (r \cap (others \X others)) \cup ({k} \X others)
<1>1. c.freq[k] \in Nat /\ c.capacity \in Nat \ {0}
  BY LFUAssumption DEF CacheOK, CacheType, Freqs
<1>2. CASE c.freq[k] > 0
  <2>1. e = IncrementFreq(c, k)
    BY <1>2 DEF LFUSet
  <2> DEFINE d == RemoveEntry(c, k)
  <2>2. CacheOK(d) /\ Cached(d) = Cached(c) \ {k} /\ OrderKept(d, r)
    BY <1>2, RemoveEntryOK
  <2>3. /\ CacheOK(e) /\ e.capacity = c.capacity /\ Cached(e) = Cached(c)
        /\ c.list[c.minFreq] # <<>> => e.list[e.minFreq] # <<>>
        /\ \A p : OrderKept(d, p) /\ (\A x \in Cached(c) \ {k} : <<k, x>> \in p) => OrderKept(e, p)
    BY <1>2, <2>1, IncrementFreqOK
  <2> HIDE DEF d, e
  <2>4. k \in Cached(c)
    BY <1>2 DEF Cached
  <2>5. Roomy(c) => Roomy(e)
    BY <2>3 DEF Roomy, Size
  <2>6. r \cap (Cached(d) \X Cached(d)) \subseteq q
    BY <2>2, <2>3
  <2>7. \A x \in Cached(c) \ {k} : <<k, x>> \in q
    BY <2>3
  <2>8. OrderKept(d, q)
    <3> HIDE DEF q
    <3> QED BY <2>2, <2>6, OrderOfCached
  <2>9. OrderKept(e, q)
    <3> HIDE DEF q
    <3> QED BY <2>3, <2>7, <2>8
  <2> QED BY <2>3, <2>4, <2>5, <2>9 DEF e
<1>3. CASE ~(c.freq[k] > 0)
  <2> DEFINE m == IF Size(c) >= c.capacity THEN Evict(c) ELSE c
  <2>1. e = Insert(m, k) /\ c.freq[k] = 0 /\ k \notin Cached(c)
    BY <1>1, <1>3 DEF LFUSet, Cached
  <2>2. CacheOK(m) /\ m.capacity = c.capacity /\ Trims(c, m, r)
    BY EvictOK, TrimsItself
  <2>3. k \notin Cached(m) /\ OrderKept(m, r)
    BY <2>1, <2>2 DEF Trims
  <2>4. m.freq[k] = 0
    BY <2>2, <2>3 DEF Cached, CacheOK, CacheType, Freqs
  <2>5. Roomy(c) => Size(m) < c.capacity
    <3>1. CASE Size(c) >= c.capacity /\ Roomy(c)
      <4>1. Size(c) = c.capacity /\ m = Evict(c)
        BY <1>1, <3>1, SizeType DEF Roomy
      <4>2. PICK x \in Cached(c) : Cached(m) = Cached(c) \ {x}
        BY <3>1, <4>1, EvictOK DEF Roomy
      <4>3. Size(m) = Size(c) - 1
        BY <4>2, SizeType, FS_RemoveElement
      <4> QED BY <1>1, <4>1, <4>3
    <3>2. CASE ~(Size(c) >= c.capacity)
      BY <1>1, <3>2, SizeType
    <3> QED BY <3>1, <3>2
  <2> HIDE DEF m
  <2>6. /\ CacheOK(e) /\ e.capacity = c.capacity /\ Cached(e) = Cached(m) \cup {k}
        /\ e.list[e.minFreq] # <<>>
        /\ \A p : OrderKept(m, p) /\ (\A x \in Cached(m) : <<k, x>> \in p) => OrderKept(e, p)
    BY <2>1, <2>2, <2>4, InsertOK
  <2> HIDE DEF e
  <2>7. Roomy(c) => Roomy(e)
    <3>1. Size(e) = Size(m) + 1
      BY <2>3, <2>6, SizeType, FS_AddElement
    <3> QED BY <1>1, <2>5, <2>6, <3>1, SizeType DEF Roomy
  <2>8. others = Cached(m)
    BY <2>3, <2>6
  <2>9. r \cap (Cached(m) \X Cached(m)) \subseteq q /\ \A x \in Cached(m) : <<k, x>> \in q
    BY <2>8
  <2>10. OrderKept(e, q)
    <3> HIDE DEF q
    <3>1. OrderKept(m, q)
      BY <2>2, <2>3, <2>9, OrderOfCached
    <3> QED BY <2>6, <2>9, <3>1
  <2> QED BY <2>1, <2>2, <2>6, <2>7, <2>10 DEF e
<1> QED BY <1>2, <1>3

--------------------------------------------------------------------------------
(* DynamicLFU.                                                             *)

LFUInv ==
  /\ CacheOK(cache) /\ OrderKept(cache, recent)
  /\ minCapacity \in Nat \ {0} /\ maxCapacity \in Nat
  /\ shrunk \/ Roomy(cache)

(* A new cache is empty.                                                   *)
LEMMA LFUInit == Init => LFUInv
<1> SUFFICES ASSUME Init PROVE LFUInv
  OBVIOUS
<1> DEFINE c == NewLFU(Capacity)
<1>1. /\ Capacity \in Nat \ {0} /\ MaxFactor \in Nat \ {0} /\ Capacity * MaxFactor \in Nat
      /\ 0 \in Freqs /\ <<>> \in Seq(Keys)
  BY DynamicLFUAssumption, LFUAssumption DEF Freqs
<1>2. /\ c \in CacheType /\ c.capacity = Capacity
      /\ \A k \in Keys : c.freq[k] = 0
      /\ \A f \in Freqs : c.list[f] = <<>>
  BY <1>1 DEF NewLFU, CacheType
<1> HIDE DEF c
<1>3. Cached(c) = {}
  BY <1>2 DEF Cached
<1>4. ListsExact(c) /\ MinFreqBelow(c) /\ OrderKept(c, {})
  BY <1>2, <1>3 DEF ListsExact, MinFreqBelow, OrderKept, Ordered
<1>5. Roomy(c)
  BY <1>1, <1>2, <1>3, FS_EmptySet DEF Roomy, Size
<1> QED BY <1>1, <1>2, <1>4, <1>5 DEF Init, LFUInv, CacheOK, c

(* LFU.Clear leaves an empty cache.                                        *)
LEMMA ClearOK ==
  ASSUME NEW c, CacheOK(c)
  PROVE  /\ CacheOK(LFUClear(c)) /\ OrderKept(LFUClear(c), {}) /\ Roomy(LFUClear(c))
         /\ LFUClear(c).capacity = c.capacity /\ Cached(LFUClear(c)) = {}
<1> DEFINE d == LFUClear(c)
<1>1. 0 \in Freqs /\ <<>> \in Seq(Keys) /\ c.capacity \in Nat \ {0}
  BY LFUAssumption DEF Freqs, CacheOK, CacheType
<1>2. /\ d \in CacheType /\ d.capacity = c.capacity
      /\ \A k \in Keys : d.freq[k] = 0
      /\ \A f \in Freqs : d.list[f] = <<>>
  BY <1>1 DEF LFUClear, NewLFU, CacheType
<1> HIDE DEF d
<1>3. Cached(d) = {}
  BY <1>2 DEF Cached
<1>4. ListsExact(d) /\ MinFreqBelow(d) /\ OrderKept(d, {})
  BY <1>2, <1>3 DEF ListsExact, MinFreqBelow, OrderKept, Ordered
<1>5. Roomy(d)
  BY <1>1, <1>2, <1>3, FS_EmptySet DEF Roomy, Size
<1> QED BY <1>2, <1>3, <1>4, <1>5 DEF CacheOK, d

(* A resize to a greater capacity evicts nothing from a cache that never   *)
(* shrank.                                                                 *)
LEMMA ResizedOK ==
  ASSUME LFUInv, NEW n \in Nat
  PROVE  LET d == LFUResize(cache, n)
         IN  /\ CacheOK(d) /\ Trims(cache, d, recent) /\ OrderKept(d, recent)
             /\ d.capacity = IF n < 1 THEN 1 ELSE n
             /\ shrunk \/ d.capacity < cache.capacity \/ Roomy(d)
<1> DEFINE d == LFUResize(cache, n)
<1>1. /\ CacheOK(d) /\ Trims(cache, d, recent)
      /\ d.capacity = IF n < 1 THEN 1 ELSE n
      /\ Size(cache) <= d.capacity => d = [cache EXCEPT !.capacity = d.capacity]
  BY LFUResizeOK DEF LFUInv
<1> HIDE DEF d
<1>2. ASSUME Roomy(cache), ~(d.capacity < cache.capacity) PROVE Roomy(d)
  <2>1. cache.capacity \in Nat \ {0} /\ d.capacity \in Nat \ {0} /\ cache \in CacheType
    BY <1>1 DEF LFUInv, CacheOK, CacheType
  <2>2. Size(cache) <= d.capacity /\ Size(cache) \in Nat
    BY <1>2, <2>1, SizeType DEF Roomy
  <2>4. d.freq = cache.freq /\ d.list = cache.list /\ d.minFreq = cache.minFreq
    BY <1>1, <2>1, <2>2 DEF CacheType
  <2>5. Size(d) = Size(cache)
    BY <2>4 DEF Size, Cached
  <2> QED BY <1>2, <2>1, <2>2, <2>4, <2>5 DEF Roomy
<1> QED BY <1>1, <1>2 DEF LFUInv, Trims, d

(* Set grows the capacity first, which evicts nothing if there was room.   *)
LEMMA GrownOK ==
  ASSUME LFUInv, NEW memory
  PROVE  LET c == Grown(cache, memory)
         IN  /\ CacheOK(c) /\ Trims(cache, c, recent) /\ OrderKept(c, recent)
             /\ c.capacity >= cache.capacity
             /\ shrunk \/ Roomy(c)
<1> DEFINE n == AtMost(NextCapacity(cache, GrowFactor), maxCapacity)
           c == Grown(cache, memory)
<1>1. cache.capacity \in Nat \ {0}
  BY DEF LFUInv, CacheOK, CacheType
<1>2. n \in Nat
  <2>1. cache.capacity * GrowFactor \in Nat
    BY <1>1, DynamicLFUAssumption
  <2> DEFINE p == cache.capacity * GrowFactor
  <2>2. p \div 100 \in Nat
    <3> HIDE DEF p
    <3> QED BY <2>1 DEF p
  <2> QED BY <2>2 DEF NextCapacity, AtMost, LFUInv
<1> HIDE DEF n
<1>3. CASE c = LFUResize(cache, n) /\ n > cache.capacity
  <2>1. /\ CacheOK(c) /\ Trims(cache, c, recent) /\ OrderKept(c, recent)
        /\ c.capacity = IF n < 1 THEN 1 ELSE n
        /\ shrunk \/ c.capacity < cache.capacity \/ Roomy(c)
    BY <1>2, <1>3, ResizedOK
  <2> HIDE DEF c
  <2>2. c.capacity >= cache.capacity
    BY <1>1, <1>2, <1>3, <2>1
  <2>3. shrunk \/ Roomy(c)
    BY <1>1, <1>2, <1>3, <2>1
  <2> QED BY <2>1, <2>2, <2>3 DEF c
<1>4. CASE c = cache
  <2>1. OrderKept(cache, recent) /\ CacheOK(cache) /\ (shrunk \/ Roomy(cache))
    BY DEF LFUInv
  <2> HIDE DEF c
  <2>2. CacheOK(c) /\ OrderKept(c, recent) /\ (shrunk \/ Roomy(c)) /\ c.capacity >= cache.capacity
    BY <1>1, <1>4, <2>1
  <2>3. Trims(cache, c, recent)
    BY <1>4, <2>1, TrimsItself
  <2> QED BY <2>2, <2>3 DEF c
<1>5. (c = LFUResize(cache, n) /\ n > cache.capacity) \/ c = cache
  BY DEF Grown, n
<1> QED BY <1>3, <1>4, <1>5

(* No step of one key's operation evicts, except Set.                      *)
LEMMA KeepsKeys ==
  ASSUME Cached(cache)' \subseteq Cached(cache), cache'.capacity >= cache.capacity,
         cache.capacity \in Nat, cache'.capacity \in Nat
  PROVE  EvictsLeast
BY DEF EvictsLeast

(* Get, ...                                                                *)
LEMMA LFUGetStep ==
  ASSUME LFUInv, NEW k \in Keys, Get(k)
  PROVE  LFUInv' /\ EvictsLeast
<1>1. /\ CacheOK(cache) /\ OrderKept(cache, recent) /\ cache.capacity \in Nat /\ cache.freq[k] < MaxFreq
      /\ cache' = LFUGet(cache, k) /\ Recent(cache', k)
      /\ UNCHANGED <<minCapacity, maxCapacity, shrunk>>
  BY DEF LFUInv, CacheOK, CacheType, Get, config
<1> DEFINE others == Cached(cache') \ {k}
<1>2. CASE cache.freq[k] > 0
  <2>1. cache' = IncrementFreq(cache, k)
    BY <1>1, <1>2 DEF LFUGet
  <2> DEFINE d == RemoveEntry(cache, k)
  <2>2. CacheOK(d) /\ Cached(d) = Cached(cache) \ {k} /\ OrderKept(d, recent)
    BY <1>1, <1>2, RemoveEntryOK
  <2>3. /\ CacheOK(cache') /\ cache'.capacity = cache.capacity /\ Cached(cache') = Cached(cache)
        /\ cache.list[cache.minFreq] # <<>> => cache'.list[cache'.minFreq] # <<>>
        /\ \A p : OrderKept(d, p) /\ (\A x \in Cached(cache) \ {k} : <<k, x>> \in p)
             => OrderKept(cache', p)
    BY <1>1, <1>2, <2>1, IncrementFreqOK
  <2> HIDE DEF d
  <2>4. k \in Cached(cache)
    BY <1>2 DEF Cached
  <2>5. recent' = (recent \cap (others \X others)) \cup ({k} \X others)
    BY <1>1, <2>3, <2>4 DEF Recent
  <2>6. Roomy(cache) => Roomy(cache')
    BY <2>3 DEF Roomy, Size
  <2>7. recent \cap (Cached(d) \X Cached(d)) \subseteq recent'
    BY <2>2, <2>3, <2>5
  <2>8. \A x \in Cached(cache) \ {k} : <<k, x>> \in recent'
    BY <2>3, <2>5
  <2>9. OrderKept(cache', recent')
    BY <2>2, <2>3, <2>7, <2>8, OrderOfCached
  <2>10. Cached(cache)' = Cached(cache')
    BY DEF Cached
  <2>11. EvictsLeast
    BY <1>1, <2>3, <2>10, KeepsKeys
  <2>12. LFUInv'
    BY <1>1, <2>3, <2>6, <2>9 DEF LFUInv
  <2> QED BY <2>11, <2>12
<1>3. CASE ~(cache.freq[k] > 0)
  <2>1. cache' = cache
    BY <1>1, <1>3 DEF LFUGet
  <2>2. k \notin Cached(cache)
    BY <1>3 DEF Cached
  <2>3. recent' = recent \cap (Cached(cache) \X Cached(cache))
    BY <1>1, <2>1, <2>2 DEF Recent
  <2>4. OrderKept(cache, recent')
    BY <1>1, <2>3, OrderOfCached
  <2>5. LFUInv'
    BY <1>1, <2>1, <2>4 DEF LFUInv
  <2>6. EvictsLeast
    BY <1>1, <2>1, KeepsKeys DEF Cached
  <2> QED BY <2>5, <2>6
<1> QED BY <1>2, <1>3

(* Delete, ...                                                             *)
LEMMA LFUDeleteStep ==
  ASSUME LFUInv, NEW k \in Keys, Delete(k)
  PROVE  LFUInv' /\ EvictsLeast
<1>1. /\ CacheOK(cache) /\ OrderKept(cache, recent) /\ cache.capacity \in Nat
      /\ cache' = LFUDelete(cache, k) /\ Recent(cache', k)
      /\ UNCHANGED <<minCapacity, maxCapacity, shrunk>>
  BY DEF LFUInv, CacheOK, CacheType, Delete, config
<1>2. /\ CacheOK(cache') /\ cache'.capacity = cache.capacity
      /\ Cached(cache') = Cached(cache) \ {k} /\ OrderKept(cache', recent)
      /\ cache' = cache \/ k \in Cached(cache)
  <2>1. CASE cache.freq[k] > 0
    BY <1>1, <2>1, RemoveEntryOK DEF LFUDelete, Cached
  <2>2. CASE ~(cache.freq[k] > 0)
    BY <1>1, <2>2 DEF LFUDelete, Cached
  <2> QED BY <2>1, <2>2
<1>3. recent' = recent \cap (Cached(cache') \X Cached(cache'))
  BY <1>1, <1>2 DEF Recent
<1>4. OrderKept(cache', recent')
  BY <1>2, <1>3, OrderOfCached
<1>5. ASSUME Roomy(cache) PROVE Roomy(cache')
  <2>1. CASE cache' = cache
    BY <1>5, <2>1
  <2>2. CASE k \in Cached(cache)
    <3>1. Size(cache') = Size(cache) - 1
      BY <1>2, <2>2, SizeType, FS_RemoveElement
    <3> QED BY <1>1, <1>2, <1>5, <3>1, SizeType DEF Roomy
  <2> QED BY <1>2, <2>1, <2>2
<1>6. Cached(cache)' = Cached(cache')
  BY DEF Cached
<1>7. EvictsLeast
  BY <1>1, <1>2, <1>6, KeepsKeys
<1>8. LFUInv'
  BY <1>1, <1>2, <1>4, <1>5 DEF LFUInv
<1> QED BY <1>7, <1>8

(* Set, ...                                                                *)
LEMMA LFUSetStep ==
  ASSUME LFUInv, NEW k \in Keys, NEW low \in BOOLEAN, NEW high \in BOOLEAN, Set(k, low, high)
  PROVE  LFUInv' /\ EvictsLeast
<1> DEFINE c == Grown(cache, low)
<1>1. /\ cache.freq[k] < MaxFreq
      /\ (cache' = c /\ recent' = recent) \/ (cache' = LFUSet(c, k) /\ Recent(cache', k))
      /\ UNCHANGED <<minCapacity, maxCapacity, shrunk>>
  BY DEF Set, config
<1>2. CacheOK(cache) /\ OrderKept(cache, recent) /\ cache.capacity \in Nat
  BY DEF LFUInv, CacheOK, CacheType
<1>3. /\ CacheOK(c) /\ Trims(cache, c, recent) /\ OrderKept(c, recent)
      /\ c.capacity >= cache.capacity
      /\ shrunk \/ Roomy(c)
  BY GrownOK
<1> HIDE DEF c
<1>4. Cached(cache)' = Cached(cache') /\ c.capacity \in Nat
  BY <1>3 DEF Cached, CacheOK, CacheType
<1>5. CASE cache' = c /\ recent' = recent
  <2>1. LFUInv'
    BY <1>1, <1>3, <1>5 DEF LFUInv
  <2>2. Cached(cache') \subseteq Cached(cache)
    BY <1>3, <1>5 DEF Trims
  <2>3. EvictsLeast
    BY <1>2, <1>3, <1>4, <1>5, <2>2, KeepsKeys
  <2> QED BY <2>1, <2>3
<1>6. CASE cache' = LFUSet(c, k) /\ Recent(cache', k)
  <2>1. c.freq[k] < MaxFreq
    <3>1. CASE k \in Cached(c)
      BY <1>1, <1>3, <3>1 DEF Trims
    <3>2. CASE k \notin Cached(c)
      <4>1. c.freq[k] = 0
        BY <1>3, <3>2 DEF Cached, CacheOK, CacheType, Freqs
      <4> QED BY <4>1, LFUAssumption
    <3> QED BY <3>1, <3>2
  <2> DEFINE others == Cached(cache') \ {k}
  <2>2. /\ CacheOK(cache') /\ cache'.capacity = c.capacity
        /\ Roomy(c) => Roomy(cache')
        /\ k \in Cached(cache')
        /\ OrderKept(cache', (recent \cap (others \X others)) \cup ({k} \X others))
        /\ \/ k \in Cached(c) /\ Cached(cache') = Cached(c)
           \/ k \notin Cached(c) /\ \E m : Trims(c, m, recent) /\ Cached(cache') = Cached(m) \cup {k}
    <3> DEFINE e == LFUSet(c, k)
               rest == Cached(e) \ {k}
    <3>1. /\ CacheOK(e) /\ e.capacity = c.capacity
          /\ Roomy(c) => Roomy(e)
          /\ k \in Cached(e)
          /\ OrderKept(e, (recent \cap (rest \X rest)) \cup ({k} \X rest))
          /\ \/ k \in Cached(c) /\ Cached(e) = Cached(c)
             \/ k \notin Cached(c) /\ \E m : Trims(c, m, recent) /\ Cached(e) = Cached(m) \cup {k}
      BY <1>3, <2>1, LFUSetOK
    <3>2. cache' = e
      BY <1>6
    <3> HIDE DEF e
    <3> QED BY <3>1, <3>2
  <2>3. recent' = (recent \cap (others \X others)) \cup ({k} \X others)
    BY <1>6, <2>2 DEF Recent
  <2>4. LFUInv'
    BY <1>1, <1>3, <2>2, <2>3 DEF LFUInv
  <2>5. CASE Cached(cache') \subseteq Cached(cache)
    BY <1>2, <1>3, <1>4, <2>2, <2>4, <2>5, KeepsKeys
  <2>6. CASE ~(Cached(cache') \subseteq Cached(cache))
    <3>1. Cached(c) \subseteq Cached(cache)
      BY <1>3 DEF Trims
    <3>2. PICK m : Trims(c, m, recent) /\ Cached(cache') = Cached(m) \cup {k}
      BY <2>2, <2>6, <3>1
    <3>3. Cached(m) \subseteq Cached(c) /\ k \notin Cached(cache)
      BY <2>6, <3>1, <3>2 DEF Trims
    <3>4. ASSUME NEW x \in Cached(cache) \ Cached(cache'), NEW l \in Cached(cache) \cap Cached(cache')
          PROVE  Before(x, l)
      <4>1. x \notin Cached(m) /\ l \in Cached(m)
        BY <3>2, <3>3
      <4>2. \/ cache.freq[x] < cache.freq[l]
            \/ cache.freq[x] = cache.freq[l] /\ <<l, x>> \in recent
        BY <1>3, <3>2, <3>3, <4>1 DEF Trims
      <4> QED BY <4>2 DEF Before
    <3> QED BY <1>4, <2>4, <3>4 DEF EvictsLeast
  <2> QED BY <2>4, <2>5, <2>6
<1> QED BY <1>1, <1>5, <1>6

(* Clear, ...                                                              *)
LEMMA LFUClearStep ==
  ASSUME LFUInv, Clear
  PROVE  LFUInv' /\ EvictsLeast
<1>1. /\ CacheOK(cache) /\ cache.capacity \in Nat
      /\ cache' = LFUClear(cache) /\ recent' = {}
      /\ UNCHANGED <<minCapacity, maxCapacity, shrunk>>
  BY DEF LFUInv, CacheOK, CacheType, Clear, config
<1>2. /\ CacheOK(cache') /\ OrderKept(cache', recent') /\ Roomy(cache')
      /\ cache'.capacity = cache.capacity /\ Cached(cache') = {}
  BY <1>1, ClearOK
<1>3. Cached(cache)' = Cached(cache')
  BY DEF Cached
<1>4. EvictsLeast
  BY <1>1, <1>2, <1>3, KeepsKeys
<1> QED BY <1>1, <1>2, <1>4 DEF LFUInv

(* Resize and SetCapacityLimits, ...                                       *)
LEMMA ResizeToStep ==
  ASSUME LFUInv, NEW n \in Nat, ResizeTo(n), minCapacity' \in Nat \ {0}, maxCapacity' \in Nat
  PROVE  LFUInv' /\ EvictsLeast
<1>1. /\ CacheOK(cache) /\ OrderKept(cache, recent)
      /\ cache' = LFUResize(cache, n)
      /\ recent' = recent \cap (Cached(cache') \X Cached(cache'))
      /\ shrunk' = (shrunk \/ cache'.capacity < cache.capacity)
  BY DEF LFUInv, ResizeTo
<1>2. /\ CacheOK(cache') /\ Trims(cache, cache', recent) /\ OrderKept(cache', recent)
      /\ shrunk \/ cache'.capacity < cache.capacity \/ Roomy(cache')
  BY <1>1, ResizedOK
<1>3. OrderKept(cache', recent')
  BY <1>1, <1>2, OrderOfCached
<1>4. shrunk' \/ Roomy(cache')
  BY <1>1, <1>2
<1>5. Cached(cache)' = Cached(cache')
  BY DEF Cached
<1>6. ASSUME NEW x \in Cached(cache) \ Cached(cache'), NEW l \in Cached(cache) \cap Cached(cache')
      PROVE  Before(x, l)
  BY <1>2 DEF Trims, Before
<1>7. EvictsLeast
  BY <1>5, <1>6 DEF EvictsLeast
<1> QED BY <1>2, <1>3, <1>4, <1>7 DEF LFUInv

(* ... all the operations of DynamicLFU keep the invariant and evict what  *)
(* is least used.                                                          *)
LEMMA LFUStep == LFUInv /\ [Next]_vars => LFUInv' /\ [EvictsLeast]_vars
<1> SUFFICES ASSUME LFUInv, [Next]_vars PROVE LFUInv' /\ [EvictsLeast]_vars
  OBVIOUS
<1>1. ASSUME NEW k \in Keys, Get(k) PROVE LFUInv' /\ EvictsLeast
  BY <1>1, LFUGetStep
<1>2. ASSUME NEW k \in Keys, Delete(k) PROVE LFUInv' /\ EvictsLeast
  BY <1>2, LFUDeleteStep
<1>3. ASSUME NEW k \in Keys, NEW low \in BOOLEAN, NEW high \in BOOLEAN, Set(k, low, high)
      PROVE  LFUInv' /\ EvictsLeast
  BY <1>3, LFUSetStep
<1>4. CASE Clear
  BY <1>4, LFUClearStep
<1>5. ASSUME NEW n \in Sizes, Resize(n) PROVE LFUInv' /\ EvictsLeast
  <2> DEFINE m == AtMost(AtLeast(n, AtLeast(minCapacity, 1)), maxCapacity)
  <2>1. m \in Nat
    BY DynamicLFUAssumption DEF AtMost, AtLeast, LFUInv
  <2>2. ResizeTo(m) /\ minCapacity' \in Nat \ {0} /\ maxCapacity' \in Nat
    BY <1>5 DEF Resize, config, LFUInv
  <2> HIDE DEF m
  <2> QED BY <2>1, <2>2, ResizeToStep
<1>6. ASSUME NEW m \in Sizes, NEW n \in Sizes, SetCapacityLimits(m, n)
      PROVE  LFUInv' /\ EvictsLeast
  <2>1. minCapacity' \in Nat \ {0} /\ maxCapacity' \in Nat
    BY <1>6, DynamicLFUAssumption DEF SetCapacityLimits, AtLeast
  <2>2. CASE ResizeTo(minCapacity')
    BY <2>1, <2>2, ResizeToStep
  <2>3. CASE ResizeTo(maxCapacity')
    BY <2>1, <2>3, ResizeToStep
  <2>4. CASE UNCHANGED <<cache, recent, stuck, shrunk>>
    <3>1. LFUInv'
      BY <2>1, <2>4 DEF LFUInv
    <3>2. Cached(cache)' = Cached(cache) /\ cache.capacity \in Nat
      BY <2>4 DEF Cached, LFUInv, CacheOK, CacheType
    <3> QED BY <2>4, <3>1, <3>2, KeepsKeys
  <2> QED BY <1>6, <2>2, <2>3, <2>4 DEF SetCapacityLimits
<1>7. CASE Configure
  <2>1. UNCHANGED <<cache, minCapacity, maxCapacity, recent, shrunk>>
    BY <1>7 DEF Configure
  <2>2. LFUInv'
    BY <2>1 DEF LFUInv
  <2>3. Cached(cache)' = Cached(cache) /\ cache.capacity \in Nat
    BY <2>1 DEF Cached, LFUInv, CacheOK, CacheType
  <2> QED BY <2>1, <2>2, <2>3, KeepsKeys
<1>8. CASE UNCHANGED vars
  <2>1. LFUInv'
    BY <1>8 DEF vars, config, LFUInv
  <2> QED BY <1>8, <2>1
<1> QED BY <1>1, <1>2, <1>3, <1>4, <1>5, <1>6, <1>7, <1>8 DEF Next

(* The conjuncts of CacheExact are parts of the invariant.                 *)
LEMMA LFUInvImplies == LFUInv => CacheExact
BY DEF LFUInv, CacheExact, CacheOK, CapacityKept, Roomy

--------------------------------------------------------------------------------
(* LoadBalancer.                                                           *)

(* The index goes around.                                                  *)
LEMMA ModStep ==
  ASSUME NEW x \in Nat, NEW n \in Nat \ {0}
  PROVE  /\ x % n \in 0 .. n - 1
         /\ (x + 1) % n = IF x % n = n - 1 THEN 0 ELSE (x % n) + 1
         /\ x < n => x % n = x
<1> DEFINE q == x \div n
           r == x % n
<1>1. q \in Int /\ r \in 0 .. n - 1 /\ x = n * q + r
  OBVIOUS
<1> HIDE DEF q, r
<1>2. x < n => r = x
  <2>1. ASSUME x < n, q >= 1 PROVE FALSE
    <3>1. n * q >= n
      BY <2>1, <1>1
    <3> QED BY <1>1, <2>1, <3>1
  <2>2. ASSUME q <= -1 PROVE FALSE
    <3>1. n * q <= -n
      BY <2>2, <1>1
    <3> QED BY <1>1, <2>2, <3>1
  <2>3. q = 0 => x = r
    BY <1>1
  <2> QED BY <1>1, <2>1, <2>2, <2>3
<1>3. CASE r = n - 1
  <2>1. x + 1 = n * (q + 1) + 0
    BY <1>1, <1>3
  <2>2. (x + 1) % n = 0
    BY <1>1, <2>1
  <2> QED BY <1>1, <1>2, <1>3, <2>2 DEF r
<1>4. CASE r # n - 1
  <2>1. x + 1 = n * q + (r + 1)
    BY <1>1
  <2>2. (x + 1) % n = r + 1
    BY <1>1, <1>4, <2>1
  <2> QED BY <1>1, <1>2, <1>4, <2>2 DEF r
<1> QED BY <1>3, <1>4

(* The loop of AvailableTargetIDs.                                         *)
IdsLoop(s, A, n, g) ==
  g = [i \in 0 .. n |-> IF i = 0 THEN <<>>
                        ELSE IF s[i] \in A THEN Append(g[i - 1], s[i]) ELSE g[i - 1]]
Ids(s, A) == (CHOOSE g : IdsLoop(s, A, Len(s), g))[Len(s)]

(* The list is there, after every iteration of the loop, ...               *)
LEMMA IdsLoopExists ==
  ASSUME NEW s, NEW A, NEW n \in Nat
  PROVE  \E g : IdsLoop(s, A, n, g)
<1> DEFINE S == {m \in Nat : \E g : IdsLoop(s, A, m, g)}
<1>1. 0 \in S
  <2> DEFINE h == [i \in 0 .. 0 |-> <<>>]
  <2>1. h = [i \in 0 .. 0 |-> IF i = 0 THEN <<>>
                              ELSE IF s[i] \in A THEN Append(h[i - 1], s[i]) ELSE h[i - 1]]
    OBVIOUS
  <2> HIDE DEF h
  <2> QED BY <2>1 DEF IdsLoop
<1>2. ASSUME NEW m \in Nat, m \in S PROVE m + 1 \in S
  <2>1. PICK g : IdsLoop(s, A, m, g)
    BY <1>2
  <2> DEFINE last == IF s[m + 1] \in A THEN Append(g[m], s[m + 1]) ELSE g[m]
             h == [i \in 0 .. (m + 1) |-> IF i = m + 1 THEN last ELSE g[i]]
  <2> HIDE DEF last
  <2>2. ASSUME NEW i \in 0 .. (m + 1)
        PROVE  h[i] = IF i = 0 THEN <<>>
                      ELSE IF s[i] \in A THEN Append(h[i - 1], s[i]) ELSE h[i - 1]
    <3>1. CASE i = m + 1
      <4>1. i # 0 /\ h[i] = last /\ i - 1 \in 0 .. (m + 1) /\ i - 1 # m + 1 /\ i - 1 = m
        BY <3>1
      <4>2. h[i - 1] = g[m]
        BY <4>1
      <4> QED BY <3>1, <4>1, <4>2 DEF last
    <3>2. CASE i # m + 1
      <4>1. i \in 0 .. m /\ h[i] = g[i]
        BY <3>2
      <4>2. g[i] = IF i = 0 THEN <<>>
                   ELSE IF s[i] \in A THEN Append(g[i - 1], s[i]) ELSE g[i - 1]
        BY <2>1, <4>1 DEF IdsLoop
      <4>3. CASE i = 0
        BY <4>1, <4>2, <4>3
      <4>4. CASE i # 0
        <5>1. h[i - 1] = g[i - 1]
          BY <4>1, <4>4
        <5> QED BY <4>1, <4>2, <4>4, <5>1
      <4> QED BY <4>3, <4>4
    <3> QED BY <3>1, <3>2
  <2>3. h = [i \in 0 .. (m + 1) |-> h[i]]
    OBVIOUS
  <2> HIDE DEF h
  <2>4. IdsLoop(s, A, m + 1, h)
    BY <2>2, <2>3 DEF IdsLoop
  <2> QED BY <2>4
<1>3. Nat \subseteq S
  <2> HIDE DEF S
  <2> QED BY <1>1, <1>2, Induction
<1> QED BY <1>3

(* ... and is what the iterations make it.                                 *)
LEMMA IdsAre ==
  ASSUME NEW s, Len(s) \in Nat, NEW A
  PROVE  \E g : /\ Ids(s, A) = g[Len(s)] /\ g[0] = <<>>
                /\ \A i \in 1 .. Len(s) :
                     g[i] = IF s[i] \in A THEN Append(g[i - 1], s[i]) ELSE g[i - 1]
<1> DEFINE g == CHOOSE g : IdsLoop(s, A, Len(s), g)
<1>1. Len(s) \in Nat
  OBVIOUS
<1>2. IdsLoop(s, A, Len(s), g)
  BY <1>1, IdsLoopExists
<1>3. Ids(s, A) = g[Len(s)]
  BY DEF Ids
<1> HIDE DEF g
<1>4. g[0] = <<>> /\ \A i \in 1 .. Len(s) :
        g[i] = IF s[i] \in A THEN Append(g[i - 1], s[i]) ELSE g[i - 1]
  <2>1. ASSUME NEW i \in 0 .. Len(s)
        PROVE  g[i] = IF i = 0 THEN <<>>
                      ELSE IF s[i] \in A THEN Append(g[i - 1], s[i]) ELSE g[i - 1]
    BY <1>2 DEF IdsLoop
  <2>2. 0 \in 0 .. Len(s) /\ \A i \in 1 .. Len(s) : i \in 0 .. Len(s) /\ i # 0
    BY <1>1
  <2> QED BY <2>1, <2>2
<1> QED BY <1>3, <1>4

(* The list has the available elements, each once.                         *)
LEMMA IdsElements ==
  ASSUME NEW S, NEW s \in Seq(S), NEW A, Distinct(s)
  PROVE  /\ Ids(s, A) \in Seq(S) /\ Distinct(Ids(s, A))
         /\ \A x : Holds(Ids(s, A), x) <=> Holds(s, x) /\ x \in A
<1>1. PICK g : /\ Ids(s, A) = g[Len(s)] /\ g[0] = <<>>
               /\ \A i \in 1 .. Len(s) :
                    g[i] = IF s[i] \in A THEN Append(g[i - 1], s[i]) ELSE g[i - 1]
  <2>1. Len(s) \in Nat
    OBVIOUS
  <2> QED BY <2>1, IdsAre
<1>2. Len(s) \in Nat /\ DOMAIN s = 1 .. Len(s) /\ \A i \in 1 .. Len(s) : s[i] \in S
  OBVIOUS
<1> DEFINE Good(i) ==
             /\ g[i] \in Seq(S) /\ Distinct(g[i])
             /\ \A x : Holds(g[i], x) <=> x \in A /\ \E j \in 1 .. i : s[j] = x
           T == {i \in Nat : i <= Len(s) => Good(i)}
<1>3. 0 \in T
  <2>1. <<>> \in Seq(S) /\ Distinct(<<>>) /\ \A x : ~Holds(<<>>, x)
    BY DEF Distinct, Holds
  <2>2. \A x : ~(\E j \in 1 .. 0 : s[j] = x)
    OBVIOUS
  <2>3. Good(0)
    BY <1>1, <2>1, <2>2
  <2> QED BY <2>3
<1>4. ASSUME NEW m \in Nat, m \in T PROVE m + 1 \in T
  <2>1. SUFFICES ASSUME m + 1 <= Len(s) PROVE Good(m + 1)
    OBVIOUS
  <2>2. Good(m)
    BY <1>2, <1>4, <2>1
  <2> DEFINE y == s[m + 1]
  <2>3. m + 1 \in 1 .. Len(s) /\ (m + 1) - 1 = m /\ y \in S
    BY <1>2, <2>1
  <2>4. g[m + 1] = IF y \in A THEN Append(g[m], y) ELSE g[m]
    BY <1>1, <2>3
  <2>5. ASSUME NEW x
        PROVE  (\E j \in 1 .. m + 1 : s[j] = x) <=> x = y \/ \E j \in 1 .. m : s[j] = x
    <3>1. 1 .. m + 1 = 1 .. m \cup {m + 1}
      OBVIOUS
    <3> QED BY <3>1
  <2>6. ~(\E j \in 1 .. m : s[j] = y)
    <3>1. \A j \in 1 .. m : j \in DOMAIN s /\ m + 1 \in DOMAIN s /\ j # m + 1
      BY <1>2, <2>3
    <3> QED BY <3>1 DEF Distinct
  <2> DEFINE u == g[m]
  <2>7. u \in Seq(S) /\ Distinct(u) /\ ~Holds(u, y)
    BY <2>2, <2>6
  <2> HIDE DEF u, y
  <2>8. CASE y \in A
    <3> DEFINE w == Append(u, y)
    <3>1. /\ w \in Seq(S) /\ DOMAIN w = 1 .. Len(u) + 1 /\ w[Len(u) + 1] = y
          /\ \A j \in DOMAIN u : w[j] = u[j]
          /\ DOMAIN u = 1 .. Len(u) /\ Len(u) \in Nat
      BY <2>3, <2>7
    <3> HIDE DEF w
    <3>2. DOMAIN w = DOMAIN u \cup {Len(u) + 1} /\ Len(u) + 1 \notin DOMAIN u
      BY <3>1
    <3>3. \A x : Holds(w, x) <=> Holds(u, x) \/ x = y
      BY <3>1, <3>2 DEF Holds
    <3>4. Distinct(w)
      <4>1. ASSUME NEW a \in DOMAIN w, NEW b \in DOMAIN w, w[a] = w[b] PROVE a = b
        <5>1. CASE a \in DOMAIN u /\ b \in DOMAIN u
          BY <2>7, <3>1, <4>1, <5>1 DEF Distinct
        <5>2. CASE a = Len(u) + 1 \/ b = Len(u) + 1
          BY <2>7, <3>1, <3>2, <4>1, <5>2 DEF Holds
        <5> QED BY <3>2, <5>1, <5>2
      <4> QED BY <4>1 DEF Distinct
    <3>5. g[m + 1] = w
      BY <2>4, <2>8 DEF u, w
    <3>6. \A x : Holds(w, x) <=> x \in A /\ \E j \in 1 .. m + 1 : s[j] = x
      BY <2>2, <2>5, <2>8, <3>3 DEF u
    <3> QED BY <3>1, <3>4, <3>5, <3>6
  <2>9. CASE y \notin A
    <3>1. g[m + 1] = g[m]
      BY <2>4, <2>9
    <3>2. \A x : Holds(g[m], x) <=> x \in A /\ \E j \in 1 .. m + 1 : s[j] = x
      BY <2>2, <2>5, <2>9
    <3> QED BY <2>2, <3>1, <3>2
  <2> QED BY <2>8, <2>9
<1>5. Nat \subseteq T
  <2> HIDE DEF T
  <2> QED BY <1>3, <1>4, Induction
<1>6. Good(Len(s))
  <2> HIDE DEF Good
  <2> QED BY <1>2, <1>5
<1> QED BY <1>1, <1>2, <1>6 DEF Holds

(* The list is not longer than the list it is taken from.                  *)
LEMMA IdsShorter ==
  ASSUME NEW S, NEW s \in Seq(S), NEW A
  PROVE  Len(Ids(s, A)) <= Len(s)
<1>1. Len(s) \in Nat /\ \A i \in 1 .. Len(s) : s[i] \in S
  OBVIOUS
<1>2. PICK g : /\ Ids(s, A) = g[Len(s)] /\ g[0] = <<>>
               /\ \A i \in 1 .. Len(s) :
                    g[i] = IF s[i] \in A THEN Append(g[i - 1], s[i]) ELSE g[i - 1]
  BY <1>1, IdsAre
<1> DEFINE Good(i) == g[i] \in Seq(S) /\ Len(g[i]) <= i
           T == {i \in Nat : i <= Len(s) => Good(i)}
<1>3. 0 \in T
  <2>1. <<>> \in Seq(S) /\ Len(<<>>) = 0
    OBVIOUS
  <2>2. Good(0)
    BY <1>2, <2>1
  <2> QED BY <2>2
<1>4. ASSUME NEW m \in Nat, m \in T PROVE m + 1 \in T
  <2>1. SUFFICES ASSUME m + 1 <= Len(s) PROVE Good(m + 1)
    OBVIOUS
  <2>2. g[m] \in Seq(S) /\ Len(g[m]) <= m
    BY <1>1, <1>4, <2>1
  <2>3. m + 1 \in 1 .. Len(s) /\ (m + 1) - 1 = m /\ s[m + 1] \in S
    BY <1>1, <2>1
  <2>4. g[m + 1] = IF s[m + 1] \in A THEN Append(g[m], s[m + 1]) ELSE g[m]
    BY <1>2, <2>3
  <2> DEFINE u == g[m]
  <2>5. Append(u, s[m + 1]) \in Seq(S) /\ Len(Append(u, s[m + 1])) = Len(u) + 1 /\ Len(u) \in Nat
    <3> HIDE DEF u
    <3>1. u \in Seq(S)
      BY <2>2 DEF u
    <3> QED BY <2>3, <3>1
  <2> QED BY <2>2, <2>4, <2>5
<1>5. Nat \subseteq T
  <2> HIDE DEF T
  <2> QED BY <1>3, <1>4, Induction
<1>6. Good(Len(s))
  <2> HIDE DEF Good
  <2> QED BY <1>1, <1>5
<1> QED BY <1>2, <1>6

(* An element that is not available does not show in the list.            *)
LEMMA IdsWithout ==
  ASSUME NEW S, NEW s \in Seq(S), NEW A, NEW p \in DOMAIN s, s[p] \notin A
  PROVE  Ids(RemoveAt(s, p), A) = Ids(s, A)
<1> DEFINE t == RemoveAt(s, p)
<1>1. /\ t \in Seq(S) /\ Len(t) = Len(s) - 1
      /\ \A j \in 1 .. Len(s) - 1 : t[j] = IF j < p THEN s[j] ELSE s[j + 1]
  BY RemoveAtIs
<1> HIDE DEF t
<1>2. PICK g : /\ Ids(s, A) = g[Len(s)] /\ g[0] = <<>>
               /\ \A i \in 1 .. Len(s) :
                    g[i] = IF s[i] \in A THEN Append(g[i - 1], s[i]) ELSE g[i - 1]
  <2>1. Len(s) \in Nat
    OBVIOUS
  <2> QED BY <2>1, IdsAre
<1>3. PICK h : /\ Ids(t, A) = h[Len(t)] /\ h[0] = <<>>
               /\ \A i \in 1 .. Len(t) :
                    h[i] = IF t[i] \in A THEN Append(h[i - 1], t[i]) ELSE h[i - 1]
  <2>1. Len(t) \in Nat
    BY <1>1
  <2> QED BY <2>1, IdsAre
<1>4. Len(s) \in Nat /\ p \in 1 .. Len(s) /\ Len(t) \in Nat
  BY <1>1
<1>5. g[p] = g[p - 1]
  BY <1>2, <1>4
<1> DEFINE T == {i \in Nat : i <= Len(t) => h[i] = IF i < p THEN g[i] ELSE g[i + 1]}
<1>6. 0 \in T
  BY <1>2, <1>3, <1>4
<1>7. ASSUME NEW m \in Nat, m \in T PROVE m + 1 \in T
  <2>1. SUFFICES ASSUME m + 1 <= Len(t)
                 PROVE  h[m + 1] = IF m + 1 < p THEN g[m + 1] ELSE g[m + 2]
    OBVIOUS
  <2>2. m + 1 \in 1 .. Len(t) /\ (m + 1) - 1 = m /\ m <= Len(t) /\ m + 1 \in 1 .. Len(s) - 1
        /\ m + 2 \in 1 .. Len(s) /\ (m + 2) - 1 = m + 1 /\ m + 1 \in 1 .. Len(s)
    BY <1>1, <1>4, <2>1
  <2>3. h[m + 1] = IF t[m + 1] \in A THEN Append(h[m], t[m + 1]) ELSE h[m]
    BY <1>3, <2>2
  <2>4. h[m] = IF m < p THEN g[m] ELSE g[m + 1]
    BY <1>7, <2>2
  <2>5. CASE m + 1 < p
    <3>1. t[m + 1] = s[m + 1] /\ m < p
      BY <1>1, <1>4, <2>2, <2>5
    <3>2. g[m + 1] = IF s[m + 1] \in A THEN Append(g[m], s[m + 1]) ELSE g[m]
      BY <1>2, <2>2
    <3> QED BY <2>3, <2>4, <2>5, <3>1, <3>2
  <2>6. CASE ~(m + 1 < p)
    <3>1. t[m + 1] = s[m + 2]
      BY <1>1, <1>4, <2>2, <2>6
    <3>2. h[m] = g[m + 1]
      <4>1. CASE m < p
        <5>1. p = m + 1
          BY <1>4, <2>6, <4>1
        <5> QED BY <1>5, <2>2, <2>4, <4>1, <5>1
      <4>2. CASE ~(m < p)
        BY <2>4, <4>2
      <4> QED BY <4>1, <4>2
    <3>3. g[m + 2] = IF s[m + 2] \in A THEN Append(g[m + 1], s[m + 2]) ELSE g[m + 1]
      BY <1>2, <2>2
    <3> QED BY <2>3, <2>6, <3>1, <3>2, <3>3
  <2> QED BY <2>5, <2>6
<1>8. Nat \subseteq T
  <2> HIDE DEF T
  <2> QED BY <1>6, <1>7, Induction
<1>9. h[Len(t)] = IF Len(t) < p THEN g[Len(t)] ELSE g[Len(t) + 1]
  BY <1>4, <1>8
<1>10. h[Len(t)] = g[Len(s)]
  <2>1. CASE Len(t) < p
    <3>1. p = Len(s) /\ Len(t) = p - 1
      BY <1>1, <1>4, <2>1
    <3> QED BY <1>5, <1>9, <2>1, <3>1
  <2>2. CASE ~(Len(t) < p)
    BY <1>1, <1>4, <1>9, <2>2
  <2> QED BY <2>1, <2>2
<1> QED BY <1>2, <1>3, <1>10 DEF t

(* The places i of a circle from s on up to but not including c.           *)
Arc(s, c, i) == IF s <= c THEN s <= i /\ i < c ELSE s <= i \/ i < c

(* The targets on the list take turns: those from some place on up to the  *)
(* index have been selected once more than the others.                     *)
InTurn(ids, index, had) ==
  \E s \in 0 .. Len(ids) - 1, b \in Nat :
    \A i \in 0 .. Len(ids) - 1 :
      had[ids[i + 1]] = IF Arc(s, index, i) THEN b + 1 ELSE b

BalancerInv ==
  /\ targetOrder \in Seq(Targets) /\ Distinct(targetOrder)
  /\ available \subseteq Targets /\ \A t \in available : Holds(targetOrder, t)
  /\ currentIndex \in Nat /\ turns \in [Targets -> Nat]
  /\ \/ turns = None
     \/ /\ currentIndex < Len(Ids(targetOrder, available))
        /\ InTurn(Ids(targetOrder, available), currentIndex, turns)

(* AvailableTargetIDs is this loop over targetOrder.                       *)
LEMMA AvailableIds == AvailableTargetIDs = Ids(targetOrder, available)
BY DEF AvailableTargetIDs, Ids, IdsLoop

(* The list of the available targets has each of them, once.               *)
LEMMA BalancerIds ==
  ASSUME BalancerInv
  PROVE  LET ids == Ids(targetOrder, available)
         IN  /\ ids \in Seq(Targets) /\ Distinct(ids) /\ Len(ids) \in Nat
             /\ \A i \in 0 .. Len(ids) - 1 : i + 1 \in DOMAIN ids /\ ids[i + 1] \in Targets
             /\ \A t \in available : \E i \in 0 .. Len(ids) - 1 : ids[i + 1] = t
<1> DEFINE ids == Ids(targetOrder, available)
<1>1. /\ ids \in Seq(Targets) /\ Distinct(ids)
      /\ \A x : Holds(ids, x) <=> Holds(targetOrder, x) /\ x \in available
  BY IdsElements DEF BalancerInv
<1> HIDE DEF ids
<1>2. Len(ids) \in Nat /\ DOMAIN ids = 1 .. Len(ids) /\ \A j \in DOMAIN ids : ids[j] \in Targets
  BY <1>1
<1>3. \A i \in 0 .. Len(ids) - 1 : i + 1 \in DOMAIN ids /\ ids[i + 1] \in Targets
  BY <1>2
<1>4. ASSUME NEW t \in available PROVE \E i \in 0 .. Len(ids) - 1 : ids[i + 1] = t
  <2>1. PICK j \in DOMAIN ids : ids[j] = t
    BY <1>1 DEF BalancerInv, Holds
  <2>2. j - 1 \in 0 .. Len(ids) - 1 /\ (j - 1) + 1 = j
    BY <1>2
  <2> QED BY <2>1, <2>2
<1> QED BY <1>1, <1>2, <1>3, <1>4 DEF ids

(* The arc grows by one place when its end moves by one, and starts anew   *)
(* when it has gone around.                                                *)
LEMMA ArcGrows ==
  ASSUME NEW n \in Nat \ {0}, NEW c \in 0 .. n - 1, NEW s \in 0 .. n - 1, NEW i \in 0 .. n - 1
  PROVE  LET d == IF c = n - 1 THEN 0 ELSE c + 1
         IN  /\ ~Arc(s, c, c) /\ ~Arc(s, s, i)
             /\ s = d => (Arc(s, c, i) <=> i # c)
             /\ s # d => (Arc(s, d, i) <=> Arc(s, c, i) \/ i = c)
BY DEF Arc

(* SelectTarget gives the next target its turn.                            *)
LEMMA SelectTargetStep ==
  ASSUME BalancerInv, SelectTarget
  PROVE  BalancerInv'
<1> DEFINE ids == Ids(targetOrder, available)
           n == Len(ids)
           c == currentIndex % n
           d == IF c = n - 1 THEN 0 ELSE c + 1
<1>1. /\ ids \in Seq(Targets) /\ Distinct(ids) /\ n \in Nat
      /\ \A i \in 0 .. n - 1 : i + 1 \in DOMAIN ids /\ ids[i + 1] \in Targets
  BY BalancerIds
<1>2. /\ ids # <<>> /\ currentIndex' = (currentIndex + 1) % n
      /\ turns' = [turns EXCEPT ![ids[c + 1]] = @ + 1]
      /\ UNCHANGED <<targetOrder, available>>
  BY AvailableIds DEF SelectTarget
<1> HIDE DEF ids
<1>3. n \in Nat \ {0}
  BY <1>1, <1>2
<1> HIDE DEF n
<1>4. c \in 0 .. n - 1 /\ currentIndex' = d /\ (currentIndex < n => c = currentIndex)
  BY <1>2, <1>3, ModStep DEF BalancerInv
<1> HIDE DEF c
<1>5. d \in 0 .. n - 1 /\ d \in Nat
  BY <1>3, <1>4
<1>6. PICK s \in 0 .. n - 1, b \in Nat :
        \A i \in 0 .. n - 1 : turns[ids[i + 1]] = IF Arc(s, c, i) THEN b + 1 ELSE b
  <2>1. CASE turns = None
    <3>1. \A i \in 0 .. n - 1 : turns[ids[i + 1]] = IF Arc(c, c, i) THEN 0 + 1 ELSE 0
      BY <1>1, <1>3, <1>4, <2>1, ArcGrows DEF None
    <3> QED BY <1>4, <3>1
  <2>2. CASE turns # None
    <3>1. currentIndex < n /\ InTurn(ids, currentIndex, turns)
      BY <2>2 DEF BalancerInv, ids, n
    <3>2. c = currentIndex
      BY <1>4, <3>1
    <3> QED BY <3>1, <3>2 DEF InTurn, n
  <2> QED BY <2>1, <2>2
<1>7. \A i \in 0 .. n - 1 : turns'[ids[i + 1]] = IF i = c THEN turns[ids[i + 1]] + 1
                                                ELSE turns[ids[i + 1]]
  <2>1. ASSUME NEW i \in 0 .. n - 1
        PROVE  turns'[ids[i + 1]] = IF i = c THEN turns[ids[i + 1]] + 1 ELSE turns[ids[i + 1]]
    <3>1. /\ i + 1 \in DOMAIN ids /\ c + 1 \in DOMAIN ids
          /\ ids[i + 1] \in Targets /\ ids[c + 1] \in Targets
      BY <1>1, <1>4
    <3>2. ids[i + 1] = ids[c + 1] => i = c
      <4>1. ids[i + 1] = ids[c + 1] => i + 1 = c + 1
        BY <1>1, <3>1 DEF Distinct
      <4> QED BY <1>3, <1>4, <4>1
    <3> QED BY <1>2, <3>1, <3>2 DEF BalancerInv
  <2> QED BY <2>1
<1>8. \E r \in 0 .. n - 1, a \in Nat : \A i \in 0 .. n - 1 :
        turns'[ids[i + 1]] = IF Arc(r, d, i) THEN a + 1 ELSE a
  <2>1. \A i \in 0 .. n - 1 :
          /\ ~Arc(s, c, c) /\ ~Arc(s, s, i)
          /\ s = d => (Arc(s, c, i) <=> i # c)
          /\ s # d => (Arc(s, d, i) <=> Arc(s, c, i) \/ i = c)
    BY <1>3, <1>4, ArcGrows
  <2> HIDE DEF d
  <2>2. CASE s = d
    <3>1. \A i \in 0 .. n - 1 : turns'[ids[i + 1]] = IF Arc(s, d, i) THEN (b + 1) + 1 ELSE b + 1
      BY <1>4, <1>6, <1>7, <2>1, <2>2
    <3> DEFINE a == b + 1
    <3>2. a \in Nat
      OBVIOUS
    <3> HIDE DEF a
    <3> QED BY <3>1, <3>2 DEF a
  <2>3. CASE s # d
    <3>1. \A i \in 0 .. n - 1 : turns'[ids[i + 1]] = IF Arc(s, d, i) THEN b + 1 ELSE b
      BY <1>4, <1>6, <1>7, <2>1, <2>3
    <3> QED BY <3>1
  <2> QED BY <2>2, <2>3
<1>9. Ids(targetOrder, available)' = ids
  BY <1>2 DEF ids
<1>10. InTurn(ids, currentIndex', turns')
  <2> HIDE DEF d
  <2> QED BY <1>4, <1>8 DEF InTurn, n
<1>11. (ids[c + 1] \in Targets) /\ turns' \in [Targets -> Nat]
  <2>1. ids[c + 1] \in Targets
    BY <1>1, <1>4
  <2> QED BY <1>2, <2>1 DEF BalancerInv
<1> QED BY <1>2, <1>4, <1>5, <1>9, <1>10, <1>11 DEF BalancerInv, n, ids

(* Every method of the load balancer keeps the turns fair.                 *)
LEMMA BalancerStep == BalancerInv /\ [LoadBalancerNext]_balancerVars => BalancerInv'
<1> SUFFICES ASSUME BalancerInv, [LoadBalancerNext]_balancerVars PROVE BalancerInv'
  OBVIOUS
<1>1. CASE SelectTarget
  BY <1>1, SelectTargetStep
<1>2. None \in [Targets -> Nat]
  BY DEF None
<1>3. CASE Reset
  BY <1>2, <1>3 DEF Reset, BalancerInv
<1>4. ASSUME NEW t \in Targets, AddTarget(t) PROVE BalancerInv'
  <2>1. /\ t \notin ToSet(targetOrder) /\ targetOrder' = Append(targetOrder, t)
        /\ available' = available \cup {t} /\ turns' = None /\ currentIndex' = currentIndex
    BY <1>4 DEF AddTarget
  <2>2. targetOrder \in Seq(Targets) /\ Distinct(targetOrder)
    BY DEF BalancerInv
  <2>3. ~(\E i \in DOMAIN targetOrder : targetOrder[i] = t)
    BY <2>1 DEF ToSet
  <2> DEFINE u == targetOrder
             w == Append(u, t)
  <2>4. /\ w \in Seq(Targets) /\ DOMAIN w = 1 .. Len(u) + 1 /\ w[Len(u) + 1] = t
        /\ \A j \in DOMAIN u : w[j] = u[j]
        /\ DOMAIN u = 1 .. Len(u) /\ Len(u) \in Nat
    BY <2>2
  <2>5. targetOrder' = w
    BY <2>1
  <2> HIDE DEF w
  <2>6. DOMAIN w = DOMAIN u \cup {Len(u) + 1} /\ Len(u) + 1 \notin DOMAIN u
    BY <2>4
  <2>7. Distinct(w)
    BY <2>2, <2>3, <2>4, <2>6 DEF Distinct
  <2>8. \A x \in available' : Holds(w, x)
    BY <2>1, <2>4, <2>6 DEF Holds, BalancerInv
  <2> QED BY <1>2, <2>1, <2>4, <2>5, <2>7, <2>8 DEF BalancerInv
<1>5. ASSUME NEW t \in Targets, RemoveTarget(t) PROVE BalancerInv'
  <2> DEFINE w == RemoveFirst(targetOrder, t)
  <2>1. /\ Holds(targetOrder, t) /\ targetOrder' = w
        /\ available' = available \ {t}
        /\ currentIndex' = IF currentIndex >= Len(targetOrder') THEN 0 ELSE currentIndex
        /\ turns' = IF t \in available THEN None ELSE turns
    BY <1>5 DEF RemoveTarget, ToSet, Holds
  <2>2. available' = available \ {t} /\ turns' = IF t \in available THEN None ELSE turns
    BY <2>1
  <2>3. targetOrder \in Seq(Targets) /\ Distinct(targetOrder)
    BY DEF BalancerInv
  <2>4. /\ w \in Seq(Targets) /\ Distinct(w)
        /\ \A x : Holds(w, x) <=> Holds(targetOrder, x) /\ x # t
    BY <2>1, <2>3, RemoveFirstList
  <2>5. currentIndex' \in Nat
    BY <2>1 DEF BalancerInv
  <2>6. \A x \in available' : Holds(w, x)
    BY <2>2, <2>4 DEF BalancerInv
  <2>7. /\ targetOrder' = w /\ available' \subseteq Targets /\ turns' \in [Targets -> Nat]
    BY <1>2, <2>1 DEF BalancerInv
  <2>8. CASE turns' = None
    BY <2>4, <2>5, <2>6, <2>7, <2>8 DEF BalancerInv
  <2>9. CASE turns' # None
    <3>1. t \notin available /\ turns' = turns /\ available' = available
      BY <2>2, <2>9
    <3>2. Ids(w, available) = Ids(targetOrder, available)
      <4>1. PICK p \in DOMAIN targetOrder :
               targetOrder[p] = t /\ RemoveFirst(targetOrder, t) = RemoveAt(targetOrder, p)
        BY <2>1, <2>3, RemoveFirstIs
      <4> QED BY <2>3, <3>1, <4>1, IdsWithout
    <3> DEFINE ids == Ids(targetOrder, available)
    <3>3. currentIndex < Len(ids) /\ InTurn(ids, currentIndex, turns)
      BY <2>9, <3>1 DEF BalancerInv
    <3>4. Len(ids) <= Len(w)
      BY <2>3, <2>4, <3>2, IdsShorter
    <3>5. currentIndex' = currentIndex
      <4> HIDE DEF ids, w
      <4>1. Len(ids) \in Nat /\ Len(w) \in Nat
        BY <2>3, <2>4, BalancerIds DEF ids
      <4> QED BY <2>1, <2>7, <3>3, <3>4, <4>1 DEF BalancerInv
    <3>6. Ids(targetOrder, available)' = ids
      BY <2>7, <3>1, <3>2
    <3> HIDE DEF ids, w
    <3> QED BY <2>4, <2>5, <2>6, <2>7, <3>1, <3>3, <3>5, <3>6 DEF BalancerInv
  <2> QED BY <2>8, <2>9
<1>6. ASSUME NEW t \in Targets, NEW isAvailable \in BOOLEAN, SetTargetAvailability(t, isAvailable)
      PROVE  BalancerInv'
  <2>1. /\ t \in ToSet(targetOrder)
        /\ available' = IF isAvailable THEN available \cup {t} ELSE available \ {t}
        /\ turns' = IF available' = available THEN turns ELSE None
        /\ UNCHANGED <<targetOrder, currentIndex>>
    BY <1>6 DEF SetTargetAvailability
  <2>2. Holds(targetOrder, t)
    BY <2>1 DEF ToSet, Holds
  <2>3. available' \subseteq Targets /\ \A x \in available' : Holds(targetOrder, x)
    BY <2>1, <2>2 DEF BalancerInv
  <2>4. CASE available' = available
    <3>1. Ids(targetOrder, available)' = Ids(targetOrder, available)
      BY <2>1, <2>4
    <3> QED BY <2>1, <2>3, <2>4, <3>1 DEF BalancerInv
  <2>5. CASE available' # available
    BY <1>2, <2>1, <2>3, <2>5 DEF BalancerInv
  <2> QED BY <2>4, <2>5
<1>7. CASE UNCHANGED balancerVars
  <2>1. UNCHANGED <<targetOrder, available, currentIndex, turns>>
    BY <1>7 DEF balancerVars
  <2>2. Ids(targetOrder, available)' = Ids(targetOrder, available)
    BY <2>1
  <2> QED BY <2>1, <2>2 DEF BalancerInv
<1> QED BY <1>1, <1>3, <1>4, <1>5, <1>6, <1>7 DEF LoadBalancerNext

(* A new load balancer has no targets, and no one had a turn.              *)
LEMMA BalancerInit == LoadBalancerInit => BalancerInv
<1>1. None \in [Targets -> Nat] /\ <<>> \in Seq(Targets)
  BY DEF None
<1> QED BY <1>1 DEF LoadBalancerInit, BalancerInv, Distinct

(* The invariant says that the turns are fair.                             *)
LEMMA BalancerInvImplies == BalancerInv => TurnsFair
<1> SUFFICES ASSUME BalancerInv, NEW t \in available, NEW u \in available
             PROVE  turns[t] - turns[u] <= 1
  BY DEF TurnsFair
<1>1. t \in Targets /\ u \in Targets
  BY DEF BalancerInv
<1>2. CASE turns = None
  BY <1>1, <1>2 DEF None
<1>3. CASE turns # None
  <2> DEFINE ids == Ids(targetOrder, available)
  <2>1. PICK s \in 0 .. Len(ids) - 1, b \in Nat : \A i \in 0 .. Len(ids) - 1 :
               turns[ids[i + 1]] = IF Arc(s, currentIndex, i) THEN b + 1 ELSE b
    BY <1>3 DEF BalancerInv, InTurn
  <2>2. PICK i \in 0 .. Len(ids) - 1 : ids[i + 1] = t
    BY BalancerIds
  <2>3. PICK j \in 0 .. Len(ids) - 1 : ids[j + 1] = u
    BY BalancerIds
  <2> HIDE DEF ids
  <2>4. (turns[t] = b + 1 \/ turns[t] = b) /\ (turns[u] = b + 1 \/ turns[u] = b)
    BY <2>1, <2>2, <2>3
  <2> QED BY <2>4
<1> QED BY <1>2, <1>3

--------------------------------------------------------------------------------
(* TTLCaches.                                                              *)

Entries == [number : Nat, expiration : Nat]
CachesInv ==
  /\ policy \in {"hashtable", "lru"} /\ now \in Nat /\ sets \in Nat
  /\ items \in [CacheKeys -> Entries]
  /\ \A k \in CacheKeys : items[k] # Missing => items[k].number \in 1 .. sets
  /\ evictList \in Seq(CacheKeys) /\ Distinct(evictList)
  /\ policy = "lru" =>
       /\ \A k \in CacheKeys : Holds(evictList, k) <=> items[k] # Missing
       /\ Ordered(evictList, lastUse)
       /\ Len(evictList) <= CacheSize
       /\ \A l \in lost : l[1] > l[2]
  /\ policy = "hashtable" => lost = {}
  (* What a reader is going to remove has expired, or was stored later.    *)
  /\ reader \in [Readers -> {NotRemoving} \cup [key : CacheKeys, number : Nat \ {0}]]
  /\ \A r \in Readers : reader[r] # NotRemoving =>
       /\ reader[r].number <= sets
       /\ LET e == items[reader[r].key]
          IN  \/ e = Missing
              \/ e.number > reader[r].number
              \/ e.number = reader[r].number /\ IsExpired(e)

(* New caches are empty.                                                   *)
LEMMA CachesInitInv == CachesInit => CachesInv
<1> SUFFICES ASSUME CachesInit PROVE CachesInv
  OBVIOUS
<1>1. Missing \in Entries /\ <<>> \in Seq(CacheKeys)
  BY DEF Missing, Entries
<1>2. items \in [CacheKeys -> Entries] /\ \A k \in CacheKeys : items[k] = Missing
  BY <1>1 DEF CachesInit
<1>3. Len(evictList) <= CacheSize
  BY TTLCachesAssumption DEF CachesInit
<1> QED BY <1>1, <1>2, <1>3 DEF CachesInit, CachesInv, Distinct, Holds, Ordered

(* The key used last moves to the front.                                   *)
LEMMA MoveToFrontOK ==
  ASSUME NEW s \in Seq(CacheKeys), Distinct(s), NEW k \in CacheKeys
  PROVE  LET w == MoveToFront(s, k)
             others == CacheKeys \ {k}
         IN  /\ w \in Seq(CacheKeys) /\ Distinct(w)
             /\ \A x : Holds(w, x) <=> Holds(s, x) \/ x = k
             /\ Len(w) = IF Holds(s, k) THEN Len(s) ELSE Len(s) + 1
             /\ w # <<>>
             /\ \A r : Ordered(s, r) =>
                  Ordered(w, (r \cap (others \X others)) \cup ({k} \X others))
<1> DEFINE u == RemoveFirst(s, k)
           w == MoveToFront(s, k)
           others == CacheKeys \ {k}
<1>1. /\ u \in Seq(CacheKeys) /\ Distinct(u)
      /\ \A x : Holds(u, x) <=> Holds(s, x) /\ x # k
      /\ \A r : Ordered(s, r) => Ordered(u, r)
      /\ Len(u) = IF Holds(s, k) THEN Len(s) - 1 ELSE Len(s)
  <2>1. CASE Holds(s, k)
    BY <2>1, RemoveFirstList
  <2>2. CASE ~Holds(s, k)
    <3>1. u = s
      BY <2>2, RemoveFirstIs
    <3> QED BY <2>2, <3>1
  <2> QED BY <2>1, <2>2
<1>2. w = <<k>> \o u
  BY DEF MoveToFront
<1> HIDE DEF u, w
<1>3. ~Holds(u, k)
  BY <1>1
<1>4. /\ w \in Seq(CacheKeys) /\ Distinct(w) /\ Len(w) = Len(u) + 1 /\ w # <<>>
      /\ \A x : Holds(w, x) <=> Holds(u, x) \/ x = k
      /\ \A r : Ordered(u, r) /\ (\A x : Holds(u, x) => <<k, x>> \in r) => Ordered(w, r)
  BY <1>1, <1>2, <1>3, Prepended
<1>5. \A x : Holds(u, x) => x \in others
  BY <1>1, <1>3 DEF Holds
<1>6. ASSUME NEW r, Ordered(s, r)
      PROVE  Ordered(w, (r \cap (others \X others)) \cup ({k} \X others))
  <2> DEFINE q == (r \cap (others \X others)) \cup ({k} \X others)
  <2>1. Ordered(u, r)
    BY <1>1, <1>6
  <2>2. ASSUME NEW i \in DOMAIN u, NEW j \in DOMAIN u, i < j PROVE <<u[i], u[j]>> \in q
    <3>1. u[i] \in others /\ u[j] \in others
      BY <1>5 DEF Holds
    <3> QED BY <2>1, <2>2, <3>1 DEF Ordered
  <2>3. \A x : Holds(u, x) => <<k, x>> \in q
    BY <1>5
  <2> HIDE DEF q
  <2>4. Ordered(w, q)
    BY <1>4, <2>2, <2>3 DEF Ordered
  <2> QED BY <2>4 DEF q
<1>7. Len(u) \in Nat /\ Len(s) \in Nat
  BY <1>1
<1>8. Len(w) = IF Holds(s, k) THEN Len(s) ELSE Len(s) + 1
  BY <1>1, <1>4, <1>7
<1>9. \A x : Holds(w, x) <=> Holds(s, x) \/ x = k
  BY <1>1, <1>4
<1> QED BY <1>4, <1>6, <1>8, <1>9 DEF w

(* Evicting the back of a list.                                            *)
LEMMA FrontOK ==
  ASSUME NEW s \in Seq(CacheKeys), Distinct(s), s # <<>>
  PROVE  /\ Front(s) \in Seq(CacheKeys) /\ Distinct(Front(s)) /\ Len(Front(s)) = Len(s) - 1
         /\ Last(s) \in CacheKeys /\ Holds(s, Last(s))
         /\ \A x : Holds(Front(s), x) <=> Holds(s, x) /\ x # Last(s)
         /\ \A r : Ordered(s, r) => Ordered(Front(s), r)
<1> DEFINE n == Len(s)
           w == Front(s)
<1>1. n \in Nat \ {0} /\ DOMAIN s = 1 .. n /\ Last(s) = s[n] /\ n \in DOMAIN s
  BY DEF Last
<1>2. w = SubSeq(s, 1, n - 1)
  BY DEF Front
<1>3. w \in Seq(CacheKeys) /\ DOMAIN w = 1 .. n - 1 /\ Len(w) = n - 1 /\ \A i \in 1 .. n - 1 : w[i] = s[i]
  BY <1>1, <1>2
<1> HIDE DEF w
<1>4. \A i \in DOMAIN w : i \in DOMAIN s /\ i # n /\ w[i] = s[i]
  BY <1>1, <1>3
<1>5. \A i \in DOMAIN s : i # n => i \in DOMAIN w
  BY <1>1, <1>3
<1> HIDE DEF n
<1>6. Distinct(w)
  BY <1>4 DEF Distinct
<1>7. ASSUME NEW x PROVE Holds(w, x) <=> Holds(s, x) /\ x # s[n]
  <2>1. ASSUME Holds(w, x) PROVE Holds(s, x) /\ x # s[n]
    BY <1>1, <1>4, <2>1 DEF Holds, Distinct
  <2>2. ASSUME Holds(s, x), x # s[n] PROVE Holds(w, x)
    BY <1>4, <1>5, <2>2 DEF Holds
  <2> QED BY <2>1, <2>2
<1>8. ASSUME NEW r, Ordered(s, r) PROVE Ordered(w, r)
  BY <1>4, <1>8 DEF Ordered
<1>9. s[n] \in CacheKeys /\ Holds(s, s[n])
  BY <1>1 DEF Holds
<1> QED BY <1>1, <1>3, <1>6, <1>7, <1>8, <1>9 DEF w, n

(* What the invariant says of one reader.                                  *)
Doomed(e, seen, time) ==
  \/ e = Missing
  \/ e.number > seen.number
  \/ e.number = seen.number /\ e.expiration > 0 /\ time > e.expiration

(* The invariant, with what it says of a reader by name.                   *)
LEMMA CachesInvIs ==
  CachesInv <=>
    /\ policy \in {"hashtable", "lru"} /\ now \in Nat /\ sets \in Nat
    /\ items \in [CacheKeys -> Entries]
    /\ \A k \in CacheKeys : items[k] # Missing => items[k].number \in 1 .. sets
    /\ evictList \in Seq(CacheKeys) /\ Distinct(evictList)
    /\ policy = "lru" =>
         /\ \A k \in CacheKeys : Holds(evictList, k) <=> items[k] # Missing
         /\ Ordered(evictList, lastUse)
         /\ Len(evictList) <= CacheSize
         /\ \A l \in lost : l[1] > l[2]
    /\ policy = "hashtable" => lost = {}
    /\ reader \in [Readers -> {NotRemoving} \cup [key : CacheKeys, number : Nat \ {0}]]
    /\ \A r \in Readers : reader[r] # NotRemoving =>
         reader[r].number <= sets /\ Doomed(items[reader[r].key], reader[r], now)
BY DEF CachesInv, Doomed, IsExpired

(* A reader that is going to remove an entry has a key and a number of it. *)
LEMMA ReaderType ==
  ASSUME CachesInv, NEW r \in Readers, reader[r] # NotRemoving
  PROVE  /\ reader[r].key \in CacheKeys /\ reader[r].number \in Nat \ {0}
         /\ items[reader[r].key] \in Entries
BY DEF CachesInv

(* Time passes, and what has expired stays expired.                        *)
LEMMA TickStep ==
  ASSUME CachesInv, Tick
  PROVE  CachesInv'
<1>1. /\ now \in Nat /\ now' = now + 1
      /\ UNCHANGED <<policy, items, evictList, reader, sets, lastUse, lost>>
  BY DEF Tick, CachesInv
<1>2. ASSUME NEW r \in Readers, reader[r] # NotRemoving
      PROVE  Doomed(items[reader[r].key], reader[r], now + 1)
  <2>1. Doomed(items[reader[r].key], reader[r], now)
    BY <1>2, CachesInvIs
  <2>2. items[reader[r].key].expiration \in Nat
    BY <1>2, ReaderType DEF Entries
  <2> QED BY <1>1, <2>1, <2>2 DEF Doomed
<1> QED BY <1>1, <1>2, CachesInvIs DEF CachesInv, Doomed, IsExpired

(* Set stores an entry that is newer than all that readers have seen, and  *)
(* the LRU cache evicts the one used longest ago.                          *)
LEMMA SetEntryStep ==
  ASSUME CachesInv, NEW k \in CacheKeys, NEW expiration \in {0, now}, SetEntry(k, expiration)
  PROVE  CachesInv'
<1> DEFINE e == [number |-> sets + 1, expiration |-> expiration]
           added == MoveToFront(evictList, k)
           evicted == policy = "lru" /\ Len(added) > CacheSize
           others == CacheKeys \ {k}
           back == Last(added)
<1>1. /\ sets' = sets + 1
      /\ items' = [items EXCEPT ![k] = e,
                                ![IF evicted THEN back ELSE k] = IF evicted THEN Missing ELSE e]
      /\ evictList' = IF policy = "hashtable" THEN <<>>
                      ELSE IF evicted THEN Front(added) ELSE added
      /\ lastUse' = (lastUse \cap (others \X others)) \cup ({k} \X others)
      /\ UNCHANGED <<policy, now, reader, lost>>
  BY DEF SetEntry, Used
<1>2. /\ policy \in {"hashtable", "lru"} /\ now \in Nat /\ sets \in Nat
      /\ items \in [CacheKeys -> Entries] /\ evictList \in Seq(CacheKeys) /\ Distinct(evictList)
      /\ CacheSize \in Nat \ {0}
  BY TTLCachesAssumption DEF CachesInv
<1>3. /\ added \in Seq(CacheKeys) /\ Distinct(added) /\ added # <<>>
      /\ \A x : Holds(added, x) <=> Holds(evictList, x) \/ x = k
      /\ Len(added) = IF Holds(evictList, k) THEN Len(evictList) ELSE Len(evictList) + 1
      /\ policy = "lru" => Ordered(added, lastUse')
  <2>1. policy = "lru" => Ordered(evictList, lastUse)
    BY DEF CachesInv
  <2> QED BY <1>1, <1>2, <2>1, MoveToFrontOK
<1>4. e \in Entries /\ e # Missing /\ e.number = sets + 1 /\ Missing \in Entries
  BY <1>2 DEF Entries, Missing
<1>5. /\ Front(added) \in Seq(CacheKeys) /\ Distinct(Front(added))
      /\ Len(Front(added)) = Len(added) - 1
      /\ back \in CacheKeys /\ Holds(added, back)
      /\ \A x : Holds(Front(added), x) <=> Holds(added, x) /\ x # back
      /\ \A r : Ordered(added, r) => Ordered(Front(added), r)
  BY <1>3, FrontOK
<1> HIDE DEF e, added, back
<1>6. /\ items' \in [CacheKeys -> Entries]
      /\ \A x \in CacheKeys : items'[x] = IF evicted /\ x = back THEN Missing
                                          ELSE IF x = k THEN e ELSE items[x]
  <2>1. CASE evicted
    <3>1. items' = [items EXCEPT ![k] = e, ![back] = Missing]
      BY <1>1, <2>1
    <3> HIDE DEF evicted
    <3> QED BY <1>2, <1>4, <1>5, <2>1, <3>1
  <2>2. CASE ~evicted
    <3>1. items' = [items EXCEPT ![k] = e, ![k] = e]
      BY <1>1, <2>2
    <3> HIDE DEF evicted
    <3> QED BY <1>2, <1>4, <2>2, <3>1
  <2> QED BY <2>1, <2>2
<1>7. \A x \in CacheKeys : items'[x] # Missing => items'[x].number \in 1 .. sets'
  BY <1>1, <1>2, <1>4, <1>6 DEF CachesInv
<1>8. evictList' \in Seq(CacheKeys) /\ Distinct(evictList')
  <2>1. <<>> \in Seq(CacheKeys) /\ Distinct(<<>>)
    BY DEF Distinct
  <2> QED BY <1>1, <1>3, <1>5, <2>1
<1>9. ASSUME policy = "lru"
      PROVE  /\ \A x \in CacheKeys : Holds(evictList', x) <=> items'[x] # Missing
             /\ Ordered(evictList', lastUse')
             /\ Len(evictList') <= CacheSize
  <2>1. /\ \A x \in CacheKeys : Holds(evictList, x) <=> items[x] # Missing
        /\ Len(evictList) <= CacheSize /\ Len(evictList) \in Nat
    BY <1>2, <1>9 DEF CachesInv
  <2>2. CASE evicted
    <3>1. evictList' = Front(added)
      BY <1>1, <1>9, <2>2
    <3>2. Len(evictList') <= CacheSize
      BY <1>2, <1>3, <1>5, <2>1, <3>1
    <3>3. ASSUME NEW x \in CacheKeys PROVE Holds(evictList', x) <=> items'[x] # Missing
      <4> HIDE DEF evicted
      <4> QED BY <1>3, <1>4, <1>5, <1>6, <2>1, <2>2, <3>1
    <3> QED BY <1>3, <1>5, <1>9, <3>1, <3>2, <3>3
  <2>3. CASE ~evicted
    <3>1. evictList' = added
      BY <1>1, <1>9, <2>3
    <3>2. Len(evictList') <= CacheSize
      BY <1>2, <1>3, <1>9, <2>1, <2>3, <3>1
    <3>3. ASSUME NEW x \in CacheKeys PROVE Holds(evictList', x) <=> items'[x] # Missing
      <4> HIDE DEF evicted
      <4> QED BY <1>3, <1>4, <1>6, <2>1, <2>3, <3>1
    <3> QED BY <1>3, <1>9, <3>1, <3>2, <3>3
  <2> QED BY <2>2, <2>3
<1>10. ASSUME NEW r \in Readers, reader[r] # NotRemoving
       PROVE  reader[r].number <= sets' /\ Doomed(items'[reader[r].key], reader[r], now)
  <2>1. reader[r].key \in CacheKeys /\ reader[r].number \in Nat \ {0}
    BY <1>10, ReaderType
  <2>2. reader[r].number <= sets /\ Doomed(items[reader[r].key], reader[r], now)
    BY <1>10, CachesInvIs
  <2> DEFINE x == reader[r].key
  <2>3. items'[x] = Missing \/ items'[x] = e \/ items'[x] = items[x]
    BY <1>6, <2>1
  <2> QED BY <1>1, <1>2, <1>4, <2>1, <2>2, <2>3 DEF Doomed
<1>11. /\ policy = "lru" => \A l \in lost : l[1] > l[2]
       /\ policy = "hashtable" => lost = {}
       /\ reader \in [Readers -> {NotRemoving} \cup [key : CacheKeys, number : Nat \ {0}]]
  BY DEF CachesInv
<1>12. sets' \in Nat
  BY <1>1, <1>2
<1> QED BY <1>1, <1>2, <1>6, <1>7, <1>8, <1>9, <1>10, <1>11, <1>12 DEF CachesInv, Doomed, IsExpired

(* A reader finds an entry, which is renewed, or sees that it has expired. *)
LEMMA LookStep ==
  ASSUME CachesInv, NEW r \in Readers, NEW k \in CacheKeys, Look(r, k)
  PROVE  CachesInv'
<1> DEFINE others == CacheKeys \ {k}
           added == MoveToFront(evictList, k)
           seen == [key |-> k, number |-> items[k].number]
<1>1. /\ items[k] # Missing
      /\ reader' = [reader EXCEPT ![r] = IF IsExpired(items[k]) THEN seen ELSE @]
      /\ evictList' = IF policy = "hashtable" THEN <<>> ELSE added
      /\ lastUse' = (lastUse \cap (others \X others)) \cup ({k} \X others)
      /\ UNCHANGED <<policy, now, items, sets, lost>>
  BY DEF Look, Used, Present
<1>2. /\ policy \in {"hashtable", "lru"} /\ now \in Nat /\ sets \in Nat
      /\ items \in [CacheKeys -> Entries] /\ evictList \in Seq(CacheKeys) /\ Distinct(evictList)
      /\ items[k].number \in 1 .. sets
  BY <1>1 DEF CachesInv
<1>3. /\ added \in Seq(CacheKeys) /\ Distinct(added)
      /\ \A x : Holds(added, x) <=> Holds(evictList, x) \/ x = k
      /\ Len(added) = IF Holds(evictList, k) THEN Len(evictList) ELSE Len(evictList) + 1
      /\ policy = "lru" => Ordered(added, lastUse')
  <2>1. policy = "lru" => Ordered(evictList, lastUse)
    BY DEF CachesInv
  <2> QED BY <1>1, <1>2, <2>1, MoveToFrontOK
<1> HIDE DEF added
<1>4. evictList' \in Seq(CacheKeys) /\ Distinct(evictList')
  <2>1. <<>> \in Seq(CacheKeys) /\ Distinct(<<>>)
    BY DEF Distinct
  <2> QED BY <1>1, <1>3, <2>1
<1>5. ASSUME policy = "lru"
      PROVE  /\ \A x \in CacheKeys : Holds(evictList', x) <=> items'[x] # Missing
             /\ Ordered(evictList', lastUse')
             /\ Len(evictList') <= CacheSize
  <2>1. /\ \A x \in CacheKeys : Holds(evictList, x) <=> items[x] # Missing
        /\ Len(evictList) <= CacheSize /\ evictList' = added
    BY <1>1, <1>5 DEF CachesInv
  <2> QED BY <1>1, <1>3, <1>5, <2>1
<1>6. /\ seen \in [key : CacheKeys, number : Nat \ {0}]
      /\ seen.key = k /\ seen.number = items[k].number /\ seen.number <= sets
  BY <1>2
<1> HIDE DEF seen
<1>7. reader \in [Readers -> {NotRemoving} \cup [key : CacheKeys, number : Nat \ {0}]]
  BY DEF CachesInv
<1>8. reader' \in [Readers -> {NotRemoving} \cup [key : CacheKeys, number : Nat \ {0}]]
  BY <1>1, <1>6, <1>7
<1>9. ASSUME NEW q \in Readers, reader'[q] # NotRemoving
      PROVE  reader'[q].number <= sets /\ Doomed(items[reader'[q].key], reader'[q], now)
  <2>1. CASE q = r /\ IsExpired(items[k])
    <3>1. reader'[q] = seen
      BY <1>1, <1>7, <2>1
    <3> QED BY <1>6, <2>1, <3>1 DEF Doomed, IsExpired
  <2>2. CASE ~(q = r /\ IsExpired(items[k]))
    <3>1. reader'[q] = reader[q]
      BY <1>1, <1>7, <2>2
    <3> QED BY <1>9, <3>1, CachesInvIs
  <2> QED BY <2>1, <2>2
<1>10. /\ \A x \in CacheKeys : items[x] # Missing => items[x].number \in 1 .. sets
       /\ policy = "lru" => \A l \in lost : l[1] > l[2]
       /\ policy = "hashtable" => lost = {}
  BY DEF CachesInv
<1> QED BY <1>1, <1>2, <1>4, <1>5, <1>8, <1>9, <1>10 DEF CachesInv, Doomed, IsExpired

(* An entry is removed from the list and the map.                          *)
LEMMA DropEntryOK ==
  ASSUME CachesInv, NEW k \in CacheKeys, DropEntry(k)
  PROVE  /\ items' \in [CacheKeys -> Entries]
         /\ \A x \in CacheKeys : items'[x] = IF x = k THEN Missing ELSE items[x]
         /\ evictList' \in Seq(CacheKeys) /\ Distinct(evictList')
         /\ UNCHANGED <<policy, now, sets, lastUse>>
         /\ policy = "lru" =>
              /\ \A x \in CacheKeys : Holds(evictList', x) <=> items'[x] # Missing
              /\ Ordered(evictList', lastUse')
              /\ Len(evictList') <= CacheSize
<1>1. /\ items' = [items EXCEPT ![k] = Missing]
      /\ evictList' = RemoveFirst(evictList, k)
      /\ UNCHANGED <<policy, now, sets, lastUse>>
  BY DEF DropEntry
<1>2. /\ items \in [CacheKeys -> Entries] /\ evictList \in Seq(CacheKeys) /\ Distinct(evictList)
      /\ Missing \in Entries /\ CacheSize \in Nat
  BY TTLCachesAssumption DEF CachesInv, Missing, Entries
<1>3. /\ evictList' \in Seq(CacheKeys) /\ Distinct(evictList')
      /\ \A x : Holds(evictList', x) <=> Holds(evictList, x) /\ x # k
      /\ \A r : Ordered(evictList, r) => Ordered(evictList', r)
      /\ Len(evictList') <= Len(evictList) /\ Len(evictList) \in Nat /\ Len(evictList') \in Nat
  <2>1. CASE Holds(evictList, k)
    BY <1>1, <1>2, <2>1, RemoveFirstList
  <2>2. CASE ~Holds(evictList, k)
    <3>1. evictList' = evictList
      BY <1>1, <1>2, <2>2, RemoveFirstIs
    <3> QED BY <1>2, <2>2, <3>1
  <2> QED BY <2>1, <2>2
<1>4. \A x \in CacheKeys : items'[x] = IF x = k THEN Missing ELSE items[x]
  BY <1>1, <1>2
<1>5. ASSUME policy = "lru"
      PROVE  /\ \A x \in CacheKeys : Holds(evictList', x) <=> items'[x] # Missing
             /\ Ordered(evictList', lastUse')
             /\ Len(evictList') <= CacheSize
  BY <1>1, <1>2, <1>3, <1>4, <1>5 DEF CachesInv
<1> QED BY <1>1, <1>2, <1>3, <1>4, <1>5

(* An entry is dropped, and the readers m have done with it.               *)
LEMMA DroppedInv ==
  ASSUME CachesInv, NEW k \in CacheKeys, DropEntry(k),
         NEW m \in SUBSET Readers,
         reader' = [q \in Readers |-> IF q \in m THEN NotRemoving ELSE reader[q]],
         policy = "lru" => \A l \in lost' : l[1] > l[2],
         policy = "hashtable" => lost' = {}
  PROVE  CachesInv'
<1>1. /\ items' \in [CacheKeys -> Entries]
      /\ \A x \in CacheKeys : items'[x] = IF x = k THEN Missing ELSE items[x]
      /\ evictList' \in Seq(CacheKeys) /\ Distinct(evictList')
      /\ UNCHANGED <<policy, now, sets, lastUse>>
      /\ policy = "lru" =>
           /\ \A x \in CacheKeys : Holds(evictList', x) <=> items'[x] # Missing
           /\ Ordered(evictList', lastUse')
           /\ Len(evictList') <= CacheSize
  BY DropEntryOK
<1>2. /\ policy \in {"hashtable", "lru"} /\ now \in Nat /\ sets \in Nat
      /\ \A x \in CacheKeys : items'[x] # Missing => items'[x].number \in 1 .. sets
  BY <1>1 DEF CachesInv
<1>3. reader' \in [Readers -> {NotRemoving} \cup [key : CacheKeys, number : Nat \ {0}]]
  BY DEF CachesInv
<1>4. ASSUME NEW q \in Readers, reader'[q] # NotRemoving
      PROVE  reader'[q].number <= sets /\ Doomed(items'[reader'[q].key], reader'[q], now)
  <2>1. reader'[q] = reader[q]
    BY <1>4
  <2>2. reader[q].key \in CacheKeys
    BY <1>4, <2>1, ReaderType
  <2>3. reader[q].number <= sets /\ Doomed(items[reader[q].key], reader[q], now)
    BY <1>4, <2>1, CachesInvIs
  <2> QED BY <1>1, <2>1, <2>2, <2>3 DEF Doomed
<1> QED BY <1>1, <1>2, <1>3, <1>4 DEF CachesInv, Doomed, IsExpired

(* A reader removes the entry, which the hashtable looks at again.         *)
LEMMA RemoveExpiredStep ==
  ASSUME CachesInv, NEW r \in Readers, RemoveExpired(r)
  PROVE  CachesInv'
<1> DEFINE k == reader[r].key
<1>1. reader[r] # NotRemoving /\ reader' = [reader EXCEPT ![r] = NotRemoving]
  BY DEF RemoveExpired
<1>2. /\ k \in CacheKeys /\ reader[r].number \in Nat \ {0} /\ items[k] \in Entries
      /\ reader \in [Readers -> {NotRemoving} \cup [key : CacheKeys, number : Nat \ {0}]]
  BY <1>1, ReaderType DEF CachesInv
<1>3. reader' = [q \in Readers |-> IF q \in {r} THEN NotRemoving ELSE reader[q]]
  BY <1>1, <1>2
<1>4. CASE policy = "hashtable" /\ ~IsExpired(items[k])
  <2>1. UNCHANGED <<policy, now, items, evictList, sets, lastUse, lost>>
    BY <1>4 DEF RemoveExpired
  <2>2. \A q \in Readers : reader'[q] # NotRemoving => reader'[q] = reader[q]
    BY <1>3
  <2>3. reader' \in [Readers -> {NotRemoving} \cup [key : CacheKeys, number : Nat \ {0}]]
    BY <1>2, <1>3
  <2> QED BY <2>1, <2>2, <2>3 DEF CachesInv, IsExpired
<1>5. CASE ~(policy = "hashtable" /\ ~IsExpired(items[k]))
  <2>1. /\ DropEntry(k)
        /\ lost' = IF Present(k) /\ ~IsExpired(items[k])
                   THEN lost \cup {<<items[k].number, reader[r].number>>} ELSE lost
    BY <1>5 DEF RemoveExpired
  <2>2. Doomed(items[k], reader[r], now)
    BY <1>1, CachesInvIs
  <2>3. ASSUME policy = "lru" PROVE \A l \in lost' : l[1] > l[2]
    <3>1. \A l \in lost : l[1] > l[2]
      BY <2>3 DEF CachesInv
    <3>2. Present(k) /\ ~IsExpired(items[k]) => items[k].number > reader[r].number
      BY <2>2 DEF Doomed, IsExpired, Present
    <3> DEFINE p == <<items[k].number, reader[r].number>>
    <3>3. p[1] = items[k].number /\ p[2] = reader[r].number
      OBVIOUS
    <3> HIDE DEF p
    <3>4. lost' = IF Present(k) /\ ~IsExpired(items[k]) THEN lost \cup {p} ELSE lost
      BY <2>1 DEF p
    <3>5. ASSUME NEW l \in lost' PROVE l[1] > l[2]
      <4>1. l \in lost \/ (Present(k) /\ ~IsExpired(items[k]) /\ l = p)
        BY <3>4
      <4>2. CASE l \in lost
        BY <3>1, <4>2
      <4>3. CASE Present(k) /\ ~IsExpired(items[k]) /\ l = p
        BY <3>2, <3>3, <4>3
      <4> QED BY <4>1, <4>2, <4>3
    <3> QED BY <3>5
  <2>4. ASSUME policy = "hashtable" PROVE lost' = {}
    <3>1. IsExpired(items[k])
      BY <1>5, <2>4
    <3>2. lost = {}
      BY <2>4 DEF CachesInv
    <3>3. lost' = lost
      BY <2>1, <3>1
    <3> QED BY <3>2, <3>3
  <2>5. /\ policy = "lru" => \A l \in lost' : l[1] > l[2]
        /\ policy = "hashtable" => lost' = {}
        /\ {r} \in SUBSET Readers
    BY <2>3, <2>4
  <2> HIDE DEF k
  <2> QED BY <1>2, <1>3, <2>1, <2>5, DroppedInv
<1> QED BY <1>4, <1>5

(* Every operation of the caches keeps the invariant.                      *)
LEMMA CachesStep == CachesInv /\ [CachesNext]_cacheVars => CachesInv'
<1> SUFFICES ASSUME CachesInv, [CachesNext]_cacheVars PROVE CachesInv'
  OBVIOUS
<1>1. CASE Tick
  BY <1>1, TickStep
<1>2. CASE ClearEntries
  <2>1. /\ items' = [k \in CacheKeys |-> Missing] /\ policy = "hashtable"
        /\ UNCHANGED <<policy, now, evictList, reader, sets, lastUse, lost>>
    BY <1>2 DEF ClearEntries
  <2>2. items' \in [CacheKeys -> Entries] /\ \A k \in CacheKeys : items'[k] = Missing
    BY <2>1 DEF Missing, Entries
  <2>3. \A r \in Readers : reader[r] # NotRemoving => items'[reader[r].key] = Missing
    BY <2>2, ReaderType
  <2> QED BY <2>1, <2>2, <2>3 DEF CachesInv
<1>3. ASSUME NEW k \in CacheKeys, NEW expiration \in {0, now}, SetEntry(k, expiration)
      PROVE  CachesInv'
  BY <1>3, SetEntryStep
<1>4. ASSUME NEW k \in CacheKeys, DeleteEntry(k) PROVE CachesInv'
  <2>1. DropEntry(k) /\ reader' = reader /\ lost' = lost /\ {} \in SUBSET Readers
    BY <1>4 DEF DeleteEntry
  <2>2. reader' = [q \in Readers |-> IF q \in {} THEN NotRemoving ELSE reader[q]]
    BY <2>1 DEF CachesInv
  <2>3. /\ policy = "lru" => \A l \in lost' : l[1] > l[2]
        /\ policy = "hashtable" => lost' = {}
    BY <2>1 DEF CachesInv
  <2> QED BY <2>1, <2>2, <2>3, DroppedInv
<1>5. ASSUME NEW r \in Readers, NEW k \in CacheKeys, Look(r, k) PROVE CachesInv'
  BY <1>5, LookStep
<1>6. ASSUME NEW r \in Readers, RemoveExpired(r) PROVE CachesInv'
  BY <1>6, RemoveExpiredStep
<1>7. CASE UNCHANGED cacheVars
  BY <1>7 DEF cacheVars, CachesInv, IsExpired
<1> QED BY <1>1, <1>2, <1>3, <1>4, <1>5, <1>6, <1>7 DEF CachesNext

(* The invariant says that the caches are exact.                           *)
LEMMA CachesInvImplies == CachesInv => CachesExact
BY DEF CachesInv, CachesExact, Present, Holds, Ordered, ToSet

--------------------------------------------------------------------------------
(* UnionFind.                                                              *)

(* Parents stay within their block, and ranks rise towards the one root    *)
(* that each block has.                                                    *)
Forest(parents, ranks, b) ==
  /\ parents \in [Members -> Members] /\ ranks \in [Members -> Nat]
  /\ b \in [Members -> SUBSET Members]
  /\ \A m \in Members : m \in b[m] /\ parents[m] \in b[m]
  /\ \A m \in Members : \A n \in b[m] : b[n] = b[m]
  /\ \A m \in Members : parents[m] # m => ranks[m] < ranks[parents[m]]
  /\ \A m \in Members : \A n \in b[m] : parents[m] = m /\ parents[n] = n => m = n

AskerRecord == [at : {"idle", "climb", "load", "store"}, same : BOOLEAN,
                second : Members \cup {NoMember}, first : Members \cup {NoMember},
                p : Members \cup {NoMember}, root : Members \cup {NoMember},
                newp : Members \cup {NoMember}]

(* An asker is on its way in the block it has begun in, to the root it has *)
(* found, and knows whether the other element is in this block.            *)
AskerExact(s, parents, b) ==
  s.at # "idle" =>
    /\ s.p \in Members /\ s.root \in b[s.p]
    /\ s.at # "climb" => parents[s.root] = s.root
    /\ s.at = "store" => s.p # s.root /\ s.newp \in b[s.p]
    /\ s.first = NoMember => s.second \in Members /\ s.same = (s.second \in b[s.p])
    /\ s.first # NoMember => parents[s.first] = s.first /\ s.same = (s.first \in b[s.p])

BlocksOf(b) == {b[m] : m \in Members}
UnionInv ==
  /\ Forest(ufParent, ufRank, blocks)
  /\ ufCount = Cardinality(BlocksOf(blocks))
  /\ misled = FALSE
  /\ asker \in [Askers -> AskerRecord]
  /\ \A a \in Askers : AskerExact(asker[a], ufParent, blocks)

(* The ways, as a recursive function, are there.                           *)
WayOf(n, g) ==
  g = [i \in 0 .. n |-> [m \in Members |-> IF i = 0 \/ ufParent[m] = m THEN {m}
                                           ELSE {m} \cup g[i - 1][ufParent[m]]]]

(* There is such a function for every length of the ways.                  *)
LEMMA WaysExist ==
  ASSUME NEW n \in Nat
  PROVE  \E g : WayOf(n, g)
<1> DEFINE S == {k \in Nat : \E g : WayOf(k, g)}
<1>1. 0 \in S
  <2>1. WayOf(0, [i \in 0 .. 0 |-> [m \in Members |-> {m}]])
    BY DEF WayOf
  <2> QED BY <2>1
<1>2. ASSUME NEW k \in Nat, k \in S PROVE k + 1 \in S
  <2>1. PICK g : WayOf(k, g)
    BY <1>2
  <2> DEFINE h == [i \in 0 .. k + 1 |->
                     IF i <= k THEN g[i]
                     ELSE [m \in Members |-> IF ufParent[m] = m THEN {m}
                                             ELSE {m} \cup g[k][ufParent[m]]]]
             w == [i \in 0 .. k + 1 |-> [m \in Members |->
                     IF i = 0 \/ ufParent[m] = m THEN {m} ELSE {m} \cup h[i - 1][ufParent[m]]]]
  <2>2. ASSUME NEW i \in 0 .. k + 1 PROVE h[i] = w[i]
    <3>1. CASE i <= k
      <4>1. i \in 0 .. k /\ h[i] = g[i]
        BY <3>1
      <4>2. g[i] = [m \in Members |-> IF i = 0 \/ ufParent[m] = m THEN {m}
                                      ELSE {m} \cup g[i - 1][ufParent[m]]]
        BY <2>1, <4>1 DEF WayOf
      <4>3. i # 0 => i - 1 \in 0 .. k + 1 /\ i - 1 <= k
        BY <3>1
      <4>4. i # 0 => h[i - 1] = g[i - 1]
        BY <4>3
      <4> QED BY <4>1, <4>2, <4>4
    <3>2. CASE ~(i <= k)
      <4>1. i = k + 1 /\ i # 0 /\ i - 1 = k /\ k \in 0 .. k + 1 /\ k <= k
        BY <3>2
      <4>2. h[k] = g[k]
        BY <4>1
      <4>3. h[i] = [m \in Members |-> IF ufParent[m] = m THEN {m}
                                      ELSE {m} \cup g[k][ufParent[m]]]
        BY <3>2
      <4> QED BY <4>1, <4>2, <4>3
    <3> QED BY <3>1, <3>2
  <2>3. h = w
    <3>1. h = [i \in 0 .. k + 1 |-> h[i]] /\ w = [i \in 0 .. k + 1 |-> w[i]]
      OBVIOUS
    <3> HIDE DEF h, w
    <3> QED BY <2>2, <3>1
  <2>4. WayOf(k + 1, h)
    BY <2>3 DEF WayOf
  <2> QED BY <2>4
<1>3. Nat \subseteq S
  <2> HIDE DEF S
  <2> QED BY <1>1, <1>2, Induction
<1> QED BY <1>3

(* A way is the element itself, and the way of its parent unless it is a   *)
(* root.                                                                   *)
LEMMA WayIs ==
  ASSUME NEW m \in Members
  PROVE  /\ Way[0][m] = {m}
         /\ \A i \in 1 .. NumElements :
              Way[i][m] = IF ufParent[m] = m THEN {m} ELSE {m} \cup Way[i - 1][ufParent[m]]
<1>1. WayOf(NumElements, Way)
  <2>1. Way = CHOOSE g : WayOf(NumElements, g)
    BY Zenon DEF Way, WayOf
  <2>2. \E g : WayOf(NumElements, g)
    BY WaysExist, UnionFindAssumption
  <2> QED BY <2>1, <2>2, Zenon
<1>2. Way = [i \in 0 .. NumElements |-> [n \in Members |->
               IF i = 0 \/ ufParent[n] = n THEN {n} ELSE {n} \cup Way[i - 1][ufParent[n]]]]
  BY <1>1 DEF WayOf
<1>3. 0 \in 0 .. NumElements /\ \A i \in 1 .. NumElements : i \in 0 .. NumElements /\ i # 0
  BY UnionFindAssumption
<1>4. ASSUME NEW i \in 0 .. NumElements
      PROVE  Way[i] = [n \in Members |->
               IF i = 0 \/ ufParent[n] = n THEN {n} ELSE {n} \cup Way[i - 1][ufParent[n]]]
  BY <1>2
<1>5. Way[0][m] = {m}
  <2>1. Way[0] = [n \in Members |->
               IF 0 = 0 \/ ufParent[n] = n THEN {n} ELSE {n} \cup Way[0 - 1][ufParent[n]]]
    BY <1>3, <1>4
  <2> QED BY <2>1
<1>6. ASSUME NEW i \in 1 .. NumElements
      PROVE  Way[i][m] = IF ufParent[m] = m THEN {m} ELSE {m} \cup Way[i - 1][ufParent[m]]
  <2>1. i \in 0 .. NumElements /\ i # 0
    BY <1>3
  <2>2. Way[i] = [n \in Members |->
               IF i = 0 \/ ufParent[n] = n THEN {n} ELSE {n} \cup Way[i - 1][ufParent[n]]]
    BY <1>4, <2>1
  <2> DEFINE before == Way[i - 1]
  <2>3. Way[i] = [n \in Members |-> IF ufParent[n] = n THEN {n} ELSE {n} \cup before[ufParent[n]]]
    BY <2>1, <2>2
  <2> HIDE DEF before
  <2>4. Way[i][m] = IF ufParent[m] = m THEN {m} ELSE {m} \cup before[ufParent[m]]
    BY <2>3
  <2> QED BY <2>4 DEF before
<1> QED BY <1>5, <1>6

(* The way from an element stays in its block, rises in rank, and comes to *)
(* the root before it could have met every element.                        *)
LEMMA WayRises ==
  ASSUME Forest(ufParent, ufRank, blocks), NEW m \in Members
  PROVE  /\ WayFrom(m) \subseteq blocks[m]
         /\ \A x \in WayFrom(m) : x # m => ufRank[m] < ufRank[x]
         /\ \E x \in WayFrom(m) : ufParent[x] = x
<1> DEFINE Good(i, n) ==
             /\ Way[i][n] \subseteq blocks[n]
             /\ \A x \in Way[i][n] : x # n => ufRank[n] < ufRank[x]
             /\ \/ \E x \in Way[i][n] : ufParent[x] = x
                \/ IsFiniteSet(Way[i][n]) /\ Cardinality(Way[i][n]) = i + 1
           S == {i \in Nat : i <= NumElements => \A n \in Members : Good(i, n)}
<1>1. 0 \in S
  <2>1. ASSUME NEW n \in Members PROVE Good(0, n)
    <3>1. Way[0][n] = {n} /\ n \in blocks[n]
      BY WayIs DEF Forest
    <3>2. Cardinality({n}) = 1 /\ IsFiniteSet({n})
      BY FS_Singleton
    <3> QED BY <3>1, <3>2
  <2> HIDE DEF Good
  <2> QED BY <2>1
<1>2. ASSUME NEW i \in Nat, i \in S PROVE i + 1 \in S
  <2> SUFFICES ASSUME i + 1 <= NumElements, NEW n \in Members PROVE Good(i + 1, n)
    <3> HIDE DEF Good
    <3> QED OBVIOUS
  <2>1. i <= NumElements /\ i + 1 \in 1 .. NumElements /\ (i + 1) - 1 = i
    BY UnionFindAssumption
  <2>2. CASE ufParent[n] = n
    <3>1. Way[i + 1][n] = {n} /\ n \in blocks[n]
      BY <2>1, <2>2, WayIs DEF Forest
    <3> QED BY <2>2, <3>1
  <2>3. CASE ufParent[n] # n
    <3> DEFINE q == ufParent[n]
               W == Way[i][q]
    <3>1. q \in Members /\ q \in blocks[n] /\ blocks[q] = blocks[n] /\ n \in blocks[n]
          /\ ufRank[n] < ufRank[q] /\ ufRank \in [Members -> Nat] /\ blocks[n] \subseteq Members
      BY <2>3 DEF Forest
    <3>2. Good(i, q)
      <4> HIDE DEF Good
      <4> QED BY <1>2, <2>1, <3>1
    <3>3. Way[i + 1][n] = {n} \cup W
      <4>1. Way[i + 1][n] = IF ufParent[n] = n THEN {n} ELSE {n} \cup Way[(i + 1) - 1][ufParent[n]]
        BY <2>1, WayIs
      <4> QED BY <2>1, <2>3, <4>1
    <3>4. W \subseteq blocks[n] /\ (\A x \in W : x = q \/ ufRank[q] < ufRank[x])
      BY <3>1, <3>2
    <3>5. \A x \in W : ufRank[n] < ufRank[x]
      <4> SUFFICES ASSUME NEW x \in W PROVE ufRank[n] < ufRank[x]
        OBVIOUS
      <4>1. x \in Members /\ ufRank[x] \in Nat /\ ufRank[n] \in Nat /\ ufRank[q] \in Nat
        BY <3>1, <3>4
      <4>2. x = q \/ ufRank[q] < ufRank[x]
        BY <3>4
      <4> HIDE DEF q, W
      <4> QED BY <3>1, <4>1, <4>2
    <3>6. n \notin W
      <4>1. ufRank[n] \in Nat /\ ~(ufRank[n] < ufRank[n])
        BY <3>1
      <4> QED BY <3>5, <4>1
    <3>7. \/ \E x \in W : ufParent[x] = x
          \/ IsFiniteSet({n} \cup W) /\ Cardinality({n} \cup W) = (i + 1) + 1
      <4>1. CASE \E x \in W : ufParent[x] = x
        BY <4>1
      <4>2. CASE IsFiniteSet(W) /\ Cardinality(W) = i + 1
        <5>1. IsFiniteSet(W \cup {n}) /\ Cardinality(W \cup {n}) = Cardinality(W) + 1
          BY <3>6, <4>2, FS_AddElement
        <5>2. W \cup {n} = {n} \cup W
          OBVIOUS
        <5> QED BY <4>2, <5>1, <5>2
      <4> QED BY <3>2, <4>1, <4>2
    <3> HIDE DEF q, W
    <3> QED BY <3>1, <3>3, <3>4, <3>5, <3>7
  <2> QED BY <2>2, <2>3
<1>3. Good(NumElements, m)
  <2> HIDE DEF Good
  <2>1. NumElements \in Nat
    BY UnionFindAssumption
  <2>2. Nat \subseteq S
    <3> HIDE DEF S
    <3> QED BY <1>1, <1>2, Induction
  <2> QED BY <2>1, <2>2
<1>4. ~(IsFiniteSet(WayFrom(m)) /\ Cardinality(WayFrom(m)) = NumElements + 1)
  <2>1. WayFrom(m) \subseteq Members
    BY <1>3 DEF Forest, WayFrom
  <2>2. IsFiniteSet(Members) /\ Cardinality(Members) = NumElements
    BY FS_Interval, UnionFindAssumption DEF Members
  <2>3. Cardinality(WayFrom(m)) <= NumElements
    BY <2>1, <2>2, FS_Subset
  <2> QED BY <2>3, UnionFindAssumption
<1> QED BY <1>3, <1>4 DEF WayFrom

(* Each block has one root, which is where find ends, and which has the    *)
(* highest rank.                                                           *)
LEMMA RootIs ==
  ASSUME Forest(ufParent, ufRank, blocks), NEW m \in Members
  PROVE  /\ RootOf(m) \in Members /\ RootOf(m) \in blocks[m] /\ ufParent[RootOf(m)] = RootOf(m)
         /\ \A n \in blocks[m] : ufParent[n] = n => n = RootOf(m)
         /\ m # RootOf(m) => ufRank[m] < ufRank[RootOf(m)]
<1>1. RootOf(m) \in WayFrom(m) /\ ufParent[RootOf(m)] = RootOf(m)
  BY WayRises DEF RootOf
<1>2. RootOf(m) \in blocks[m] /\ RootOf(m) \in Members
  BY <1>1, WayRises DEF Forest
<1>3. ASSUME NEW n \in blocks[m], ufParent[n] = n PROVE n = RootOf(m)
  <2>1. n \in Members /\ blocks[n] = blocks[m]
    BY DEF Forest
  <2> QED BY <1>1, <1>2, <1>3, <2>1 DEF Forest
<1> QED BY <1>1, <1>2, <1>3, WayRises

(* Parents may be replaced by the root, which changes nothing that counts. *)
Rewritten(parents) ==
  /\ parents \in [Members -> Members]
  /\ \A m \in Members : \/ parents[m] = ufParent[m]
                        \/ ufParent[m] # m /\ parents[m] = RootOf(m)

(* So rewritten, the parents still make the forest, with the same roots,   *)
(* and every asker that is on its way goes on as before.                   *)
LEMMA RewrittenOK ==
  ASSUME Forest(ufParent, ufRank, blocks), NEW g, Rewritten(g)
  PROVE  /\ Forest(g, ufRank, blocks)
         /\ \A m \in Members : g[m] = m <=> ufParent[m] = m
         /\ \A s \in AskerRecord : AskerExact(s, ufParent, blocks) => AskerExact(s, g, blocks)
<1>1. \A m \in Members : g[m] = m <=> ufParent[m] = m
  <2> SUFFICES ASSUME NEW m \in Members PROVE g[m] = m <=> ufParent[m] = m
    OBVIOUS
  <2>1. CASE g[m] = ufParent[m]
    BY <2>1
  <2>2. CASE ufParent[m] # m /\ g[m] = RootOf(m)
    BY <2>2, RootIs
  <2> QED BY <2>1, <2>2 DEF Rewritten
<1>2. \A m \in Members : g[m] \in blocks[m] /\ (g[m] # m => ufRank[m] < ufRank[g[m]])
  <2> SUFFICES ASSUME NEW m \in Members
               PROVE  g[m] \in blocks[m] /\ (g[m] # m => ufRank[m] < ufRank[g[m]])
    OBVIOUS
  <2>1. CASE g[m] = ufParent[m]
    BY <2>1 DEF Forest
  <2>2. CASE ufParent[m] # m /\ g[m] = RootOf(m)
    BY <2>2, RootIs
  <2> QED BY <2>1, <2>2 DEF Rewritten
<1>3. Forest(g, ufRank, blocks)
  <2>1. ASSUME NEW m \in Members, NEW n \in blocks[m], g[m] = m, g[n] = n PROVE m = n
    <3>1. n \in Members
      BY DEF Forest
    <3> QED BY <1>1, <2>1, <3>1 DEF Forest
  <2> QED BY <1>2, <2>1 DEF Forest, Rewritten
<1>4. ASSUME NEW s \in AskerRecord, AskerExact(s, ufParent, blocks)
      PROVE  AskerExact(s, g, blocks)
  <2>1. s.at # "idle" => s.root \in Members
    BY <1>4 DEF AskerExact, Forest
  <2>2. s.first # NoMember => s.first \in Members
    BY DEF AskerRecord
  <2> QED BY <1>1, <1>4, <2>1, <2>2 DEF AskerExact
<1> QED BY <1>1, <1>3, <1>4

(* Compressing a path rewrites the parents so.                             *)
LEMMA CompressedIs ==
  ASSUME Forest(ufParent, ufRank, blocks), NEW ps
  PROVE  Rewritten(Compressed(ps))
<1>1. ASSUME NEW m \in Members
      PROVE  /\ Compressed(ps)[m] \in Members
             /\ \/ Compressed(ps)[m] = ufParent[m]
                \/ ufParent[m] # m /\ Compressed(ps)[m] = RootOf(m)
  BY RootIs DEF Compressed, Forest
<1>2. Compressed(ps) \in [Members -> Members]
  <2>1. Compressed(ps) = [m \in Members |-> Compressed(ps)[m]]
    BY DEF Compressed
  <2> QED BY <1>1, <2>1
<1> QED BY <1>1, <1>2 DEF Rewritten

(* Two elements have the same root if they are in the same block.          *)
LEMMA SameRoot ==
  ASSUME Forest(ufParent, ufRank, blocks), NEW p \in Members, NEW q \in Members
  PROVE  /\ RootOf(p) = RootOf(q) <=> q \in blocks[p]
         /\ RootOf(p) = RootOf(q) <=> blocks[p] = blocks[q]
<1>1. RootOf(p) = RootOf(q) => blocks[p] = blocks[q]
  BY RootIs DEF Forest
<1>2. blocks[p] = blocks[q] => q \in blocks[p]
  BY DEF Forest
<1>3. q \in blocks[p] => RootOf(p) = RootOf(q)
  <2> SUFFICES ASSUME q \in blocks[p] PROVE RootOf(p) = RootOf(q)
    OBVIOUS
  <2>1. blocks[q] = blocks[p]
    BY DEF Forest
  <2> QED BY <2>1, RootIs
<1> QED BY <1>1, <1>2, <1>3

(* Two blocks become one, whose root is one of the roots.                  *)
United(b, p, q) == [m \in Members |-> IF m \in b[p] \cup b[q] THEN b[p] \cup b[q] ELSE b[m]]

(* Where the root that becomes a child has the lower rank, or the other    *)
(* one is given a higher one, the forest stays one.                        *)
LEMMA UnitedOK ==
  ASSUME NEW f, NEW rk, NEW b, Forest(f, rk, b),
         NEW p \in Members, NEW q \in Members, b[p] # b[q],
         NEW r \in b[p] \cup b[q], NEW t \in b[p] \cup b[q], b[r] # b[t], f[r] = r, f[t] = t,
         NEW k, k = rk \/ k = [rk EXCEPT ![r] = @ + 1], rk[t] < k[r]
  PROVE  Forest([f EXCEPT ![t] = r], k, United(b, p, q))
<1> DEFINE B == b[p] \cup b[q]
           g == [f EXCEPT ![t] = r]
           c == United(b, p, q)
<1>1. /\ f \in [Members -> Members] /\ rk \in [Members -> Nat]
      /\ b \in [Members -> SUBSET Members] /\ r \in Members /\ t \in Members
      /\ \A m \in Members : m \in b[m] /\ f[m] \in b[m]
      /\ \A m \in Members : \A n \in b[m] : b[n] = b[m]
      /\ \A m \in Members : f[m] # m => rk[m] < rk[f[m]]
      /\ \A m \in Members : \A n \in b[m] : f[m] = m /\ f[n] = n => m = n
  BY DEF Forest
<1>2. g \in [Members -> Members] /\ (\A m \in Members : g[m] = IF m = t THEN r ELSE f[m])
  BY <1>1
<1>3. k \in [Members -> Nat] /\ (\A m \in Members : k[m] = rk[m] \/ (m = r /\ k[m] = rk[m] + 1))
  BY <1>1
<1>4. /\ c \in [Members -> SUBSET Members]
      /\ \A m \in Members : c[m] = IF m \in B THEN B ELSE b[m]
  BY <1>1 DEF United
<1>5. \A m \in Members : \A n \in b[m] : n \in Members /\ (n \in B <=> m \in B)
  BY <1>1
<1>6. r # t
  OBVIOUS
<1> HIDE DEF g, c, B
<1>7. B \subseteq Members /\ r \in B /\ t \in B
  BY <1>1 DEF B
<1>8. ASSUME NEW m \in Members PROVE m \in c[m] /\ g[m] \in c[m]
  BY <1>1, <1>2, <1>4, <1>5, <1>7
<1>9. ASSUME NEW m \in Members, NEW n \in c[m] PROVE c[n] = c[m]
  <2>1. CASE m \in B
    BY <1>4, <1>7, <1>9, <2>1
  <2>2. CASE m \notin B
    <3>1. n \in b[m] /\ n \in Members /\ n \notin B
      BY <1>4, <1>5, <1>9, <2>2
    <3> QED BY <1>1, <1>4, <2>2, <3>1
  <2> QED BY <2>1, <2>2
<1>10. ASSUME NEW m \in Members, g[m] # m PROVE k[m] < k[g[m]]
  <2>1. CASE m = t
    <3>1. g[m] = r /\ k[m] = rk[t]
      BY <1>2, <1>3, <1>6, <2>1
    <3> QED BY <3>1
  <2>2. CASE m # t
    <3>1. g[m] = f[m] /\ rk[m] < rk[f[m]] /\ m # r /\ f[m] \in Members
      BY <1>1, <1>2, <1>10, <2>2
    <3>2. k[m] = rk[m] /\ (k[f[m]] = rk[f[m]] \/ k[f[m]] = rk[f[m]] + 1)
      BY <1>3, <3>1
    <3>3. rk[m] \in Nat /\ rk[f[m]] \in Nat
      BY <1>1, <3>1
    <3> QED BY <3>1, <3>2, <3>3
  <2> QED BY <2>1, <2>2
<1>11. ASSUME NEW m \in Members, NEW n \in c[m], g[m] = m, g[n] = n PROVE m = n
  <2>1. n \in Members
    BY <1>4, <1>11
  <2>2. m # t /\ n # t /\ f[m] = m /\ f[n] = n
    BY <1>2, <1>6, <1>11, <2>1
  <2>3. CASE m \in B
    <3>1. n \in B
      BY <1>4, <1>11, <2>3
    <3>2. \A x \in B : f[x] = x /\ x # t => x = r
      <4> SUFFICES ASSUME NEW x \in B, f[x] = x, x # t PROVE x = r
        OBVIOUS
      <4>1. x \in Members /\ (b[x] = b[p] \/ b[x] = b[q])
        BY <1>1, <1>7 DEF B
      <4>2. (b[r] = b[p] \/ b[r] = b[q]) /\ (b[t] = b[p] \/ b[t] = b[q])
        BY <1>1
      <4>3. b[x] = b[r] \/ b[x] = b[t]
        BY <4>1, <4>2
      <4>4. x \in b[r] \/ x \in b[t]
        BY <1>1, <4>1, <4>3
      <4> QED BY <1>1, <4>1, <4>4
    <3> QED BY <2>2, <2>3, <3>1, <3>2
  <2>4. CASE m \notin B
    <3>1. n \in b[m]
      BY <1>4, <1>11, <2>4
    <3> QED BY <1>1, <2>2, <3>1
  <2> QED BY <2>3, <2>4
<1> QED BY <1>2, <1>3, <1>4, <1>8, <1>9, <1>10, <1>11 DEF Forest, g, c

(* Which makes one block less.                                             *)
LEMMA OneBlockLess ==
  ASSUME NEW f, NEW rk, NEW b, Forest(f, rk, b),
         NEW p \in Members, NEW q \in Members, b[p] # b[q]
  PROVE  Cardinality(BlocksOf(United(b, p, q))) = Cardinality(BlocksOf(b)) - 1
<1> DEFINE c == United(b, p, q)
           B == b[p] \cup b[q]
           S == BlocksOf(b)
           T == BlocksOf(c)
           R == (S \ {b[p]}) \ {b[q]}
<1>1. /\ b \in [Members -> SUBSET Members]
      /\ \A m \in Members : m \in b[m]
      /\ \A m \in Members : \A n \in b[m] : b[n] = b[m]
  BY DEF Forest
<1>2. \A m \in Members : c[m] = IF m \in B THEN B ELSE b[m]
  BY DEF United
<1>3. \A m \in Members : m \in B <=> b[m] = b[p] \/ b[m] = b[q]
  BY <1>1
<1>4. p \in B
  BY <1>1
<1>5. T = R \cup {B}
  <2> USE DEF BlocksOf
  <2> HIDE DEF c, B
  <2>1. \A m \in Members : c[m] \in R \cup {B}
    BY <1>2, <1>3
  <2>2. B \in T
    BY <1>2, <1>4
  <2>3. ASSUME NEW x \in R PROVE x \in T
    <3>1. PICK m \in Members : x = b[m]
      OBVIOUS
    <3>2. c[m] = x
      BY <1>2, <1>3, <3>1
    <3> QED BY <3>2
  <2> QED BY <2>1, <2>2, <2>3
<1>6. B \notin R
  <2> SUFFICES ASSUME NEW m \in Members, B = b[m] PROVE b[m] = b[p]
    BY DEF BlocksOf
  <2> QED BY <1>1, <1>4
<1>7. IsFiniteSet(S)
  <2>1. IsFiniteSet(Members)
    BY FS_Interval, UnionFindAssumption DEF Members
  <2> DEFINE f2 == [m \in Members |-> b[m]]
  <2>2. f2 \in Surjection(Members, S)
    BY DEF Surjection, BlocksOf
  <2> HIDE DEF f2, S
  <2> QED BY <2>1, <2>2, FS_Surjection
<1>8. b[p] \in S /\ b[q] \in S \ {b[p]}
  BY DEF BlocksOf
<1> HIDE DEF c, B, S
<1>9. IsFiniteSet(S \ {b[p]}) /\ Cardinality(S \ {b[p]}) = Cardinality(S) - 1
  BY <1>7, <1>8, FS_RemoveElement
<1>10. IsFiniteSet(R) /\ Cardinality(R) = (Cardinality(S) - 1) - 1
  BY <1>8, <1>9, FS_RemoveElement
<1>11. Cardinality(R \cup {B}) = Cardinality(R) + 1
  BY <1>6, <1>10, FS_AddElement
<1>12. Cardinality(S) \in Nat
  BY <1>7, FS_CardinalityType
<1>13. Cardinality(R \cup {B}) = Cardinality(S) - 1
  <2> HIDE DEF R
  <2> QED BY <1>10, <1>11, <1>12
<1> QED BY <1>5, <1>13 DEF S, c

(* Union makes one block of two, or compresses paths if they are one.      *)
LEMMA UniteStep ==
  ASSUME UnionInv, NEW p \in Members, NEW q \in Members, UniteMembers(p, q)
  PROVE  UnionInv'
<1> DEFINE rootP == RootOf(p)
           rootQ == RootOf(q)
           flat == Compressed({p, q})
<1>1. /\ Forest(ufParent, ufRank, blocks) /\ ufCount = Cardinality(BlocksOf(blocks))
      /\ misled = FALSE /\ asker \in [Askers -> AskerRecord]
  BY DEF UnionInv
<1>2. /\ blocks' = United(blocks, p, q) /\ UNCHANGED <<asker, misled>>
      /\ \A a \in Askers : asker[a].at = "idle"
  BY DEF UniteMembers, Merge, WriteLocks, United
<1>3. /\ ufParent' = IF rootP = rootQ THEN flat
                     ELSE IF ufRank[rootP] < ufRank[rootQ] THEN [flat EXCEPT ![rootP] = rootQ]
                     ELSE [flat EXCEPT ![rootQ] = rootP]
      /\ ufRank' = IF rootP # rootQ /\ ufRank[rootP] = ufRank[rootQ]
                   THEN [ufRank EXCEPT ![rootP] = @ + 1] ELSE ufRank
      /\ ufCount' = IF rootP = rootQ THEN ufCount ELSE ufCount - 1
  BY DEF UniteMembers
<1>4. /\ rootP \in Members /\ rootP \in blocks[p] /\ ufParent[rootP] = rootP
      /\ rootQ \in Members /\ rootQ \in blocks[q] /\ ufParent[rootQ] = rootQ
      /\ rootP = rootQ <=> blocks[p] = blocks[q]
  BY <1>1, RootIs, SameRoot
<1>5. /\ Forest(flat, ufRank, blocks)
      /\ flat[rootP] = rootP /\ flat[rootQ] = rootQ
  BY <1>1, <1>4, CompressedIs, RewrittenOK
<1>6. blocks[rootP] = blocks[p] /\ blocks[rootQ] = blocks[q]
  BY <1>1, <1>4 DEF Forest
<1>7. \A a \in Askers : AskerExact(asker[a], ufParent, blocks)'
  BY <1>2 DEF AskerExact
<1> HIDE DEF rootP, rootQ, flat
<1>8. CASE rootP = rootQ
  <2>1. blocks' = blocks
    <3>1. blocks = [m \in Members |-> blocks[m]] /\ blocks[p] = blocks[q]
      BY <1>1, <1>4, <1>8 DEF Forest
    <3>2. \A m \in blocks[p] \cup blocks[q] : blocks[m] = blocks[p] \cup blocks[q]
      <4>1. \A m \in blocks[p] : blocks[m] = blocks[p]
        BY <1>1 DEF Forest
      <4> QED BY <3>1, <4>1
    <3> QED BY <1>2, <3>1, <3>2 DEF United
  <2>2. ufParent' = flat /\ ufRank' = ufRank /\ ufCount' = ufCount
    BY <1>3, <1>8
  <2> QED BY <1>1, <1>2, <1>5, <1>7, <2>1, <2>2 DEF UnionInv
<1>9. CASE rootP # rootQ
  <2>1. blocks[p] # blocks[q]
    BY <1>4, <1>9
  <2>2. ufCount' = Cardinality(BlocksOf(blocks'))
    <3>1. Cardinality(BlocksOf(United(blocks, p, q))) = Cardinality(BlocksOf(blocks)) - 1
      BY <1>1, <2>1, OneBlockLess
    <3>2. ufCount' = ufCount - 1
      BY <1>3, <1>9
    <3> QED BY <1>1, <1>2, <3>1, <3>2
  <2>3. ufRank[rootP] \in Nat /\ ufRank[rootQ] \in Nat /\ ufRank \in [Members -> Nat]
    BY <1>1, <1>4 DEF Forest
  <2>4. Forest(ufParent', ufRank', blocks')
    <3>1. CASE ufRank[rootP] < ufRank[rootQ]
      <4>1. ufParent' = [flat EXCEPT ![rootP] = rootQ] /\ ufRank' = ufRank
        BY <1>3, <1>9, <2>3, <3>1
      <4>2. rootQ \in blocks[p] \cup blocks[q] /\ rootP \in blocks[p] \cup blocks[q]
            /\ blocks[rootQ] # blocks[rootP] /\ ufRank[rootP] < ufRank'[rootQ]
        BY <1>4, <1>6, <2>1, <3>1, <4>1
      <4> QED BY <1>2, <1>5, <2>1, <4>1, <4>2, UnitedOK
    <3>2. CASE ~(ufRank[rootP] < ufRank[rootQ])
      <4>1. ufParent' = [flat EXCEPT ![rootQ] = rootP]
        BY <1>3, <1>9, <3>2
      <4>2. /\ ufRank' = ufRank \/ ufRank' = [ufRank EXCEPT ![rootP] = @ + 1]
            /\ ufRank[rootQ] < ufRank'[rootP]
        BY <1>3, <1>4, <1>9, <2>3, <3>2
      <4>3. rootQ \in blocks[p] \cup blocks[q] /\ rootP \in blocks[p] \cup blocks[q]
            /\ blocks[rootP] # blocks[rootQ]
        BY <1>4, <1>6, <2>1
      <4> QED BY <1>2, <1>5, <2>1, <4>1, <4>2, <4>3, UnitedOK
    <3> QED BY <3>1, <3>2
  <2> QED BY <1>1, <1>2, <1>7, <2>2, <2>4 DEF UnionInv
<1> QED BY <1>8, <1>9

(* Nothing but the parents is rewritten, and some asker goes on.           *)
LEMMA RewriteStep ==
  ASSUME UnionInv, Rewritten(ufParent'), UNCHANGED <<ufRank, ufCount, blocks, misled>>,
         asker' \in [Askers -> AskerRecord],
         \A a \in Askers : asker'[a] = asker[a] \/ AskerExact(asker'[a], ufParent, blocks)
  PROVE  UnionInv'
<1>1. Forest(ufParent', ufRank, blocks)
  BY RewrittenOK DEF UnionInv
<1>2. ASSUME NEW a \in Askers PROVE AskerExact(asker'[a], ufParent', blocks)
  <2>1. AskerExact(asker'[a], ufParent, blocks) /\ asker'[a] \in AskerRecord
    BY DEF UnionInv
  <2> QED BY <2>1, RewrittenOK DEF UnionInv
<1> QED BY <1>1, <1>2 DEF UnionInv

(* Parents that stay are rewritten, too.                                   *)
LEMMA Unwritten ==
  ASSUME UnionInv, ufParent' = ufParent
  PROVE  Rewritten(ufParent')
BY DEF UnionInv, Forest, Rewritten

(* Connected, at any step of its walks under the read lock, keeps the      *)
(* invariant, whatever other askers have rewritten meanwhile.              *)
LEMMA AskerStep ==
  ASSUME UnionInv, NEW a \in Askers, Climb(a) \/ LoadParent(a) \/ StoreParent(a)
  PROVE  UnionInv'
<1> DEFINE s == asker[a]
           z == asker'[a]
<1>1. s \in AskerRecord /\ AskerExact(s, ufParent, blocks) /\ Forest(ufParent, ufRank, blocks)
      /\ s.at # "idle" /\ asker \in [Askers -> AskerRecord]
  BY DEF UnionInv, Climb, LoadParent, StoreParent
<1>2. s.p \in Members /\ s.root \in Members /\ s.root \in blocks[s.p]
      /\ blocks[s.root] = blocks[s.p]
  BY <1>1 DEF AskerExact, Forest
<1>3. UNCHANGED <<ufRank, ufCount, blocks, misled>>
  BY DEF Climb, LoadParent, StoreParent, AskerOnly
<1>4. CASE Climb(a)
  <2> DEFINE up == ufParent[s.root]
  <2>1. /\ s.at = "climb" /\ ufParent' = ufParent
        /\ asker' = [asker EXCEPT ![a] = IF up = s.root THEN [s EXCEPT !.at = "load"]
                                                        ELSE [s EXCEPT !.root = up]]
    BY <1>4 DEF Climb
  <2>2. up \in Members /\ up \in blocks[s.p]
    BY <1>1, <1>2 DEF Forest
  <2> HIDE DEF up
  <2>3. z = (IF up = s.root THEN [s EXCEPT !.at = "load"] ELSE [s EXCEPT !.root = up])
        /\ z \in AskerRecord
    BY <1>1, <2>1, <2>2 DEF AskerRecord
  <2>4. asker' \in [Askers -> AskerRecord] /\ \A y \in Askers : y # a => asker'[y] = asker[y]
    BY <1>1, <2>1, <2>3
  <2>5. AskerExact(z, ufParent, blocks)
    BY <1>1, <1>2, <2>1, <2>2, <2>3 DEF AskerExact, AskerRecord, up
  <2> QED BY <1>3, <2>1, <2>4, <2>5, Unwritten, RewriteStep
<1>5. CASE LoadParent(a)
  <2>1. /\ s.at = "load" /\ s.p # s.root /\ ufParent' = ufParent
        /\ asker' = [asker EXCEPT ![a] = [s EXCEPT !.at = "store", !.newp = ufParent[s.p]]]
    BY <1>5 DEF LoadParent
  <2>2. ufParent[s.p] \in Members /\ ufParent[s.p] \in blocks[s.p]
    BY <1>1, <1>2 DEF Forest
  <2>3. z = [s EXCEPT !.at = "store", !.newp = ufParent[s.p]] /\ z \in AskerRecord
    BY <1>1, <2>1, <2>2 DEF AskerRecord
  <2>4. asker' \in [Askers -> AskerRecord] /\ \A y \in Askers : y # a => asker'[y] = asker[y]
    BY <1>1, <2>1, <2>3
  <2>5. AskerExact(z, ufParent, blocks)
    BY <1>1, <1>2, <2>1, <2>2, <2>3 DEF AskerExact, AskerRecord
  <2> QED BY <1>3, <2>1, <2>4, <2>5, Unwritten, RewriteStep
<1>6. CASE StoreParent(a)
  <2>1. /\ s.at = "store" /\ ufParent' = [ufParent EXCEPT ![s.p] = s.root]
        /\ asker' = [asker EXCEPT ![a] = [s EXCEPT !.at = "load", !.p = s.newp, !.newp = NoMember]]
    BY <1>6 DEF StoreParent
  <2>2. s.p # s.root /\ s.newp \in blocks[s.p] /\ ufParent[s.root] = s.root
        /\ s.newp \in Members /\ blocks[s.newp] = blocks[s.p]
    BY <1>1, <1>2, <2>1 DEF AskerExact, Forest
  <2>3. s.root = RootOf(s.p)
    BY <1>1, <1>2, <2>2, RootIs
  <2>4. ufParent[s.p] # s.p
    BY <1>1, <1>2, <2>2 DEF Forest
  <2>5. Rewritten(ufParent')
    BY <1>1, <1>2, <2>1, <2>3, <2>4 DEF Rewritten, Forest
  <2>6. z = [s EXCEPT !.at = "load", !.p = s.newp, !.newp = NoMember] /\ z \in AskerRecord
    BY <1>1, <2>1, <2>2 DEF AskerRecord
  <2>7. asker' \in [Askers -> AskerRecord] /\ \A y \in Askers : y # a => asker'[y] = asker[y]
    BY <1>1, <2>1, <2>6
  <2>8. AskerExact(z, ufParent, blocks)
    BY <1>1, <1>2, <2>1, <2>2, <2>6 DEF AskerExact, AskerRecord
  <2> QED BY <1>3, <2>5, <2>7, <2>8, RewriteStep
<1> QED BY <1>4, <1>5, <1>6

(* When a walk ends, Connected goes on to the other element or answers,    *)
(* which it does rightly.                                                  *)
LEMMA FindNextOrAnswerStep ==
  ASSUME UnionInv, NEW a \in Askers, FindNextOrAnswer(a)
  PROVE  UnionInv'
<1> DEFINE s == asker[a]
           z == asker'[a]
<1>1. s \in AskerRecord /\ AskerExact(s, ufParent, blocks) /\ Forest(ufParent, ufRank, blocks)
      /\ s.at = "load" /\ s.p = s.root /\ asker \in [Askers -> AskerRecord] /\ misled = FALSE
  BY DEF UnionInv, FindNextOrAnswer
<1>2. s.root \in Members /\ ufParent[s.root] = s.root
  BY <1>1 DEF AskerExact
<1>3. UNCHANGED <<ufRank, ufCount, blocks, ufParent>>
  BY DEF FindNextOrAnswer, AskerOnly
<1>4. CASE s.first = NoMember
  <2>1. asker' = [asker EXCEPT ![a] = [s EXCEPT !.at = "climb", !.first = s.root,
                                                !.second = NoMember, !.p = s.second,
                                                !.root = s.second]]
        /\ misled' = misled
    BY <1>4 DEF FindNextOrAnswer
  <2>2. s.second \in Members /\ s.same = (s.second \in blocks[s.root])
    BY <1>1, <1>4 DEF AskerExact
  <2>3. z = [s EXCEPT !.at = "climb", !.first = s.root, !.second = NoMember, !.p = s.second,
                      !.root = s.second] /\ z \in AskerRecord
    BY <1>1, <1>2, <2>1, <2>2 DEF AskerRecord
  <2>4. asker' \in [Askers -> AskerRecord] /\ \A y \in Askers : y # a => asker'[y] = asker[y]
    BY <1>1, <2>1, <2>3
  <2>5. s.second \in blocks[s.root] <=> s.root \in blocks[s.second]
    BY <1>1, <1>2, <2>2 DEF Forest
  <2>6. s.second \in blocks[s.second] /\ s.root # NoMember
    BY <1>1, <1>2, <2>2 DEF Forest, Members, NoMember
  <2>7. z.same = (z.first \in blocks[z.p])
    BY <1>1, <2>2, <2>3, <2>5 DEF AskerRecord
  <2>8. z.at = "climb" /\ z.p = s.second /\ z.root = s.second /\ z.first = s.root
    BY <1>1, <2>3 DEF AskerRecord
  <2>9. AskerExact(z, ufParent, blocks)
    BY <1>2, <2>2, <2>6, <2>7, <2>8 DEF AskerExact
  <2> QED BY <1>3, <2>1, <2>4, <2>9, Unwritten, RewriteStep
<1>5. CASE s.first # NoMember
  <2>1. asker' = [asker EXCEPT ![a] = NotAsking]
        /\ misled' = (misled \/ (s.first = s.root) # s.same)
    BY <1>5 DEF FindNextOrAnswer
  <2>2. s.first \in Members /\ ufParent[s.first] = s.first /\ s.same = (s.first \in blocks[s.root])
    BY <1>1, <1>5 DEF AskerExact, AskerRecord
  <2>3. s.first = s.root <=> s.first \in blocks[s.root]
    BY <1>1, <1>2, <2>2 DEF Forest
  <2>4. misled' = misled
    <3>1. s.same = (s.first = s.root)
      BY <2>2, <2>3
    <3>2. ~((s.first = s.root) # s.same)
      BY <3>1
    <3> QED BY <1>1, <2>1, <3>2
  <2>5. NotAsking \in AskerRecord /\ AskerExact(NotAsking, ufParent, blocks)
    BY DEF NotAsking, AskerRecord, AskerExact
  <2>6. /\ asker' \in [Askers -> AskerRecord] /\ z = NotAsking
        /\ \A y \in Askers : y # a => asker'[y] = asker[y]
    BY <1>1, <2>1, <2>5
  <2>7. \A y \in Askers : asker'[y] = asker[y] \/ AskerExact(asker'[y], ufParent, blocks)
    BY <2>5, <2>6
  <2> HIDE DEF z
  <2> QED BY <1>3, <2>4, <2>6, <2>7, Unwritten, RewriteStep
<1> QED BY <1>4, <1>5

(* Every operation of the union-find keeps the invariant.                  *)
LEMMA UnionStep == UnionInv /\ [UnionFindNext]_unionVars => UnionInv'
<1> SUFFICES ASSUME UnionInv, [UnionFindNext]_unionVars PROVE UnionInv'
  OBVIOUS
<1>1. ASSUME NEW p \in Members, NEW q \in Members, UniteMembers(p, q) PROVE UnionInv'
  BY <1>1, UniteStep
<1>2. ASSUME NEW p \in Members, NEW q \in Members, NEW a \in Askers, StartConnected(a, p, q)
      PROVE  UnionInv'
  <2> DEFINE z == [NotAsking EXCEPT !.at = "climb", !.same = q \in blocks[p],
                                    !.second = q, !.p = p, !.root = p]
  <2>1. asker' = [asker EXCEPT ![a] = z] /\ UNCHANGED <<ufParent, ufRank, ufCount, blocks, misled>>
    BY <1>2 DEF StartConnected, AskerOnly
  <2>2. z.same = (q \in blocks[p]) /\ (q \in blocks[p]) \in BOOLEAN
    BY DEF NotAsking
  <2>3. z \in AskerRecord /\ z.at = "climb" /\ z.p = p /\ z.root = p /\ z.second = q
        /\ z.first = NoMember
    BY <2>2 DEF NotAsking, AskerRecord
  <2>4. p \in blocks[p]
    BY DEF UnionInv, Forest
  <2> HIDE DEF z
  <2>5. AskerExact(z, ufParent, blocks)
    BY <2>2, <2>3, <2>4 DEF AskerExact
  <2>6. asker' \in [Askers -> AskerRecord] /\ \A y \in Askers : asker'[y] = IF y = a THEN z ELSE asker[y]
    BY <2>1, <2>3 DEF UnionInv
  <2> QED BY <2>1, <2>5, <2>6, Unwritten, RewriteStep
<1>3. ASSUME NEW p \in Members, Find(p) PROVE UnionInv'
  <2>1. ufParent' = Compressed({p}) /\ UNCHANGED <<ufRank, ufCount, blocks, misled, asker>>
    BY <1>3 DEF Find
  <2>2. Rewritten(ufParent')
    BY <2>1, CompressedIs DEF UnionInv
  <2>3. asker' \in [Askers -> AskerRecord]
    BY <2>1 DEF UnionInv
  <2> QED BY <2>1, <2>2, <2>3, RewriteStep
<1>4. ASSUME NEW a \in Askers, Climb(a) \/ LoadParent(a) \/ StoreParent(a) PROVE UnionInv'
  BY <1>4, AskerStep
<1>5. ASSUME NEW a \in Askers, FindNextOrAnswer(a) PROVE UnionInv'
  BY <1>5, FindNextOrAnswerStep
<1>6. CASE UNCHANGED unionVars
  BY <1>6 DEF unionVars, UnionInv
<1> QED BY <1>1, <1>2, <1>3, <1>4, <1>5, <1>6 DEF UnionFindNext

(* Each element is a block of its own at first.                            *)
LEMMA UnionInit == UnionFindInit => UnionInv
<1> SUFFICES ASSUME UnionFindInit PROVE UnionInv
  OBVIOUS
<1>1. Forest(ufParent, ufRank, blocks)
  BY DEF UnionFindInit, Forest
<1>2. NotAsking \in AskerRecord /\ AskerExact(NotAsking, ufParent, blocks)
  BY DEF NotAsking, AskerRecord, AskerExact
<1>3. Cardinality(BlocksOf(blocks)) = NumElements
  <2> DEFINE f == [m \in Members |-> {m}]
             T == {{m} : m \in Members}
  <2>1. f \in Bijection(Members, T)
    BY DEF Bijection, Injection, Surjection, IsInjective
  <2>2. IsFiniteSet(Members) /\ Cardinality(Members) = NumElements
    BY FS_Interval, UnionFindAssumption DEF Members
  <2>3. Cardinality(T) = Cardinality(Members)
    <3> HIDE DEF f, T
    <3> QED BY <2>1, <2>2, FS_Bijection DEF ExistsBijection
  <2>4. BlocksOf(blocks) = T
    BY DEF UnionFindInit, BlocksOf
  <2> QED BY <2>2, <2>3, <2>4
<1> QED BY <1>1, <1>2, <1>3 DEF UnionInv, UnionFindInit

(* The invariant says that the partition is exact.                         *)
LEMMA UnionInvImplies == UnionInv => PartitionExact
<1> SUFFICES ASSUME UnionInv PROVE PartitionExact
  OBVIOUS
<1>1. \A p, q \in Members : (RootOf(p) = RootOf(q)) = (q \in blocks[p])
  BY SameRoot DEF UnionInv
<1> QED BY <1>1 DEF UnionInv, Forest, PartitionExact, BlocksOf

--------------------------------------------------------------------------------
(* Pipeline.                                                               *)

(* Going through a list, changing the marks b for each target by f.        *)
MarksOf(f, target, m) == f[<<target, m>>]

Through(f, b, list) == FoldLeft(LAMBDA m, target : MarksOf(f, target, m), b, list)
ThroughLoop(f, b, list, n, g) ==
  g = [s \in SUBSET (1 .. n) |->
         IF s = {} THEN b
         ELSE LET x == Max(s) IN MarksOf(f, list[x], g[s \ {x}])]

LEMMA ThroughIs ==
  ASSUME NEW f, NEW b, NEW list, DOMAIN list = 1 .. Len(list)
  PROVE  Through(f, b, list) = (CHOOSE g : ThroughLoop(f, b, list, Len(list), g))[1 .. Len(list)]
<1> QED BY Zenon DEF Through, ThroughLoop, FoldLeft, MapThenFoldSet

(* The largest of some numbers up to n.                                    *)
LEMMA LargestIs ==
  ASSUME NEW n \in Nat, NEW s \in SUBSET (1 .. n), s # {}
  PROVE  Max(s) \in s /\ \A x \in s : x <= Max(s)
<1> DEFINE R == {n - x : x \in s}
<1>1. R # {} /\ R \subseteq Nat
  <2>1. \A x \in s : n - x \in Nat
    OBVIOUS
  <2>2. PICK x \in s : TRUE
    OBVIOUS
  <2> QED BY <2>1, <2>2
<1> HIDE DEF R
<1>2. PICK r \in R : \A k \in R : r <= k
  BY <1>1, Least
<1> USE DEF R
<1>3. PICK y \in s : r = n - y
  BY <1>2
<1>4. /\ \A x \in s : x \in Int
      /\ \A x \in s : n - x \in R
  <2>1. \A x \in s : x \in Int
    OBVIOUS
  <2>2. \A x \in s : n - x \in R
    OBVIOUS
  <2> QED BY <2>1, <2>2
<1>5. \A x \in s : y >= x
  <2> SUFFICES ASSUME NEW x \in s PROVE y >= x
    OBVIOUS
  <2>1. r <= n - x
    BY <1>2, <1>4
  <2> QED BY <1>3, <1>4, <2>1
<1>6. Max(s) \in s /\ \A x \in s : Max(s) >= x
  BY <1>3, <1>5, Zenon DEF Max
<1> QED BY <1>4, <1>6

(* The loop is a function on the sets of places, ...                       *)
LEMMA ThroughLoopExists ==
  ASSUME NEW f, NEW b, NEW list, NEW n \in Nat
  PROVE  \E g : ThroughLoop(f, b, list, n, g)
<1> DEFINE N == {m \in Nat : \E g : ThroughLoop(f, b, list, m, g)}
<1>1. 0 \in N
  <2> DEFINE h == [s \in SUBSET (1 .. 0) |-> b]
  <2>1. \A s \in SUBSET (1 .. 0) : s = {}
    OBVIOUS
  <2>2. h = [s \in SUBSET (1 .. 0) |->
               IF s = {} THEN b ELSE LET x == Max(s) IN MarksOf(f, list[x], h[s \ {x}])]
    BY <2>1
  <2> HIDE DEF h
  <2> QED BY <2>2 DEF ThroughLoop
<1>2. ASSUME NEW m \in Nat, m \in N PROVE m + 1 \in N
  <2>1. PICK g : ThroughLoop(f, b, list, m, g)
    BY <1>2
  <2> DEFINE h == [s \in SUBSET (1 .. (m + 1)) |->
                     IF m + 1 \in s THEN MarksOf(f, list[m + 1], g[s \ {m + 1}]) ELSE g[s]]
  <2>2. ASSUME NEW s \in SUBSET (1 .. (m + 1))
        PROVE  h[s] = IF s = {} THEN b ELSE LET x == Max(s) IN MarksOf(f, list[x], h[s \ {x}])
    <3>1. CASE m + 1 \in s
      <4>1. s # {} /\ m + 1 \in Nat
        BY <3>1
      <4>2. Max(s) = m + 1
        <5>1. Max(s) \in s /\ m + 1 <= Max(s)
          BY <3>1, <4>1, LargestIs
        <5>2. Max(s) \in 1 .. (m + 1)
          BY <5>1
        <5> QED BY <5>1, <5>2
      <4>3. s \ {m + 1} \in SUBSET (1 .. (m + 1)) /\ m + 1 \notin s \ {m + 1}
        OBVIOUS
      <4>4. h[s \ {m + 1}] = g[s \ {m + 1}]
        BY <4>3
      <4>5. h[s] = MarksOf(f, list[m + 1], g[s \ {m + 1}])
        BY <3>1
      <4> HIDE DEF h
      <4> QED BY <4>1, <4>2, <4>4, <4>5
    <3>2. CASE m + 1 \notin s
      <4>1. s \in SUBSET (1 .. m)
        BY <3>2
      <4>2. g[s] = IF s = {} THEN b ELSE LET x == Max(s) IN MarksOf(f, list[x], g[s \ {x}])
        BY <2>1, <4>1 DEF ThroughLoop
      <4>3. h[s] = g[s]
        BY <3>2
      <4>4. CASE s # {}
        <5>1. s \ {Max(s)} \in SUBSET (1 .. (m + 1)) /\ m + 1 \notin s \ {Max(s)}
          BY <3>2
        <5>2. h[s \ {Max(s)}] = g[s \ {Max(s)}]
          BY <5>1
        <5> HIDE DEF h
        <5> QED BY <4>2, <4>3, <4>4, <5>2
      <4> QED BY <4>2, <4>3, <4>4
    <3> QED BY <3>1, <3>2
  <2>3. h = [s \in SUBSET (1 .. (m + 1)) |-> h[s]]
    OBVIOUS
  <2> HIDE DEF h
  <2>4. h = [s \in SUBSET (1 .. (m + 1)) |->
               IF s = {} THEN b ELSE LET x == Max(s) IN MarksOf(f, list[x], h[s \ {x}])]
    BY <2>2, <2>3, Zenon
  <2>5. ThroughLoop(f, b, list, m + 1, h)
    BY <2>4 DEF ThroughLoop
  <2> QED BY <2>5
<1>3. Nat \subseteq N
  <2> HIDE DEF N
  <2> QED BY <1>1, <1>2, Induction
<1> QED BY <1>3

(* ... which goes through the list from its beginning: g[i] is marked when  *)
(* i targets have been dealt with.                                         *)
GoesThrough(f, b, list, g) ==
  /\ Through(f, b, list) = g[Len(list)] /\ g[0] = b
  /\ \A i \in 1 .. Len(list) : g[i] = MarksOf(f, list[i], g[i - 1])

LEMMA ThroughSteps ==
  ASSUME NEW f, NEW b, NEW list, Len(list) \in Nat, DOMAIN list = 1 .. Len(list)
  PROVE  \E g : GoesThrough(f, b, list, g)
<1> DEFINE n == Len(list)
           k == CHOOSE k : ThroughLoop(f, b, list, n, k)
           g == [i \in 0 .. n |-> k[1 .. i]]
<1>1. ThroughLoop(f, b, list, n, k)
  BY ThroughLoopExists, Zenon
<1>2. Through(f, b, list) = k[1 .. n]
  BY ThroughIs, Zenon
<1> HIDE DEF k
<1>3. n \in Nat
  OBVIOUS
<1> HIDE DEF n
<1>4. ASSUME NEW s \in SUBSET (1 .. n)
      PROVE  k[s] = IF s = {} THEN b ELSE MarksOf(f, list[Max(s)], k[s \ {Max(s)}])
  BY <1>1 DEF ThroughLoop
<1>5. g[n] = k[1 .. n]
  BY <1>3
<1>6. g[0] = b
  <2>1. 1 .. 0 = {} /\ g[0] = k[1 .. 0]
    BY <1>3
  <2> QED BY <1>4, <2>1
<1>7. ASSUME NEW i \in 1 .. n PROVE g[i] = MarksOf(f, list[i], g[i - 1])
  <2>1. /\ 1 .. i \in SUBSET (1 .. n) /\ i \in 1 .. i /\ i \in Nat
        /\ (1 .. i) \ {i} = 1 .. i - 1 /\ i - 1 \in 0 .. n
    BY <1>3
  <2>2. Max(1 .. i) = i
    <3>1. Max(1 .. i) \in 1 .. i /\ i <= Max(1 .. i)
      BY <2>1, LargestIs
    <3> QED BY <3>1
  <2>3. k[1 .. i] = MarksOf(f, list[i], k[1 .. i - 1])
    BY <1>4, <2>1, <2>2
  <2>4. g[i] = k[1 .. i] /\ g[i - 1] = k[1 .. i - 1]
    BY <1>3, <2>1
  <2> QED BY <2>3, <2>4
<1> HIDE DEF g
<1>8. GoesThrough(f, b, list, g)
  BY <1>2, <1>5, <1>6, <1>7 DEF n, GoesThrough
<1> QED BY <1>8

(* What MarkReachable does at stage s when m are marked, if f does it for  *)
(* the targets of s.                                                       *)
Marked(f, s, m) ==
  IF s = NoStage \/ s \in m THEN m ELSE Through(f, m \cup {s}, transitions[s])

Unmarked(m) == Cardinality(PipelineStages \ m)

NextStages(s) == ToSet(transitions[s])
PipelineTypes ==
  /\ root \in PipelineStages \cup {NoStage}
  /\ \A n \in DOMAIN stageNamed : stageNamed[n] \in PipelineStages
  /\ transitions \in [PipelineStages -> Seq(PipelineStages \cup {NoStage})]
  /\ calls \in Seq(PipelineStages)
  /\ executing \in {"no", "calling", "choosing"}

(* f marks more and more.                                                  *)
Adds(f) == \A s \in PipelineStages \cup {NoStage}, m \in SUBSET PipelineStages :
              MarksOf(f, s, m) \in SUBSET PipelineStages /\ m \subseteq MarksOf(f, s, m)

LEMMA UnmarkedIs ==
  ASSUME NEW m \in SUBSET PipelineStages
  PROVE  /\ Unmarked(m) \in Nat
         /\ \A s \in PipelineStages \ m, k \in SUBSET PipelineStages :
              m \cup {s} \subseteq k => Unmarked(k) < Unmarked(m)
         /\ Unmarked(m) <= Cardinality(PipelineStages) /\ Cardinality(PipelineStages) \in Nat
<1>1. IsFiniteSet(PipelineStages) /\ IsFiniteSet(PipelineStages \ m)
  BY PipelineAssumption, FS_Difference
<1>2. Unmarked(m) \in Nat /\ Cardinality(PipelineStages) \in Nat
  BY <1>1, FS_CardinalityType DEF Unmarked
<1>3. Unmarked(m) <= Cardinality(PipelineStages)
  BY <1>1, FS_Subset DEF Unmarked
<1>4. ASSUME NEW s \in PipelineStages \ m, NEW k \in SUBSET PipelineStages, m \cup {s} \subseteq k
      PROVE  Unmarked(k) < Unmarked(m)
  <2>1. PipelineStages \ k \subseteq (PipelineStages \ m) \ {s} /\ s \in PipelineStages \ m
    BY <1>4
  <2>2. /\ IsFiniteSet((PipelineStages \ m) \ {s})
        /\ Cardinality((PipelineStages \ m) \ {s}) = Unmarked(m) - 1
    BY <1>1, <2>1, FS_RemoveElement DEF Unmarked
  <2>3. /\ Unmarked(k) <= Unmarked(m) - 1 /\ Unmarked(k) \in Nat
    BY <2>1, <2>2, FS_Subset, FS_CardinalityType DEF Unmarked
  <2> QED BY <1>2, <2>3
<1> QED BY <1>2, <1>3, <1>4

(* Going through a list adds, and depends only on what f does to what has  *)
(* been marked at least.                                                   *)
AgreeOnceMarked(h, f, b) ==
  \A s \in PipelineStages \cup {NoStage}, m \in SUBSET PipelineStages :
     b \subseteq m => MarksOf(h, s, m) = MarksOf(f, s, m)

LEMMA ThroughAdds ==
  ASSUME NEW f, Adds(f), NEW b \in SUBSET PipelineStages,
         NEW list \in Seq(PipelineStages \cup {NoStage})
  PROVE  /\ Through(f, b, list) \in SUBSET PipelineStages /\ b \subseteq Through(f, b, list)
         /\ \A h : AgreeOnceMarked(h, f, b) => Through(h, b, list) = Through(f, b, list)
<1> DEFINE n == Len(list)
<1>1. Len(list) \in Nat /\ DOMAIN list = 1 .. Len(list)
  OBVIOUS
<1>2. ASSUME NEW h
      PROVE  \E k : GoesThrough(h, b, list, k)
  BY <1>1, ThroughSteps
<1>3. n \in Nat /\ DOMAIN list = 1 .. n /\ \A i \in 1 .. n : list[i] \in PipelineStages \cup {NoStage}
  OBVIOUS
<1>4. PICK g : /\ Through(f, b, list) = g[n] /\ g[0] = b
               /\ \A i \in 1 .. n : g[i] = MarksOf(f, list[i], g[i - 1])
  BY <1>2 DEF GoesThrough
<1> HIDE DEF n
<1> DEFINE N == {i \in Nat : i <= n => g[i] \in SUBSET PipelineStages /\ b \subseteq g[i]}
<1>5. Nat \subseteq N
  <2>1. 0 \in N
    BY <1>4
  <2>2. ASSUME NEW i \in Nat, i \in N PROVE i + 1 \in N
    <3>1. SUFFICES ASSUME i + 1 <= n
                   PROVE  g[i + 1] \in SUBSET PipelineStages /\ b \subseteq g[i + 1]
      OBVIOUS
    <3>2. i + 1 \in 1 .. n /\ (i + 1) - 1 = i /\ i <= n
      BY <1>3, <3>1
    <3>3. g[i + 1] = MarksOf(f, list[i + 1], g[i]) /\ g[i] \in SUBSET PipelineStages /\ b \subseteq g[i]
      BY <1>4, <2>2, <3>2
    <3>4. list[i + 1] \in PipelineStages \cup {NoStage}
      BY <1>3, <3>2
    <3> QED BY <3>3, <3>4 DEF Adds
  <2> HIDE DEF N
  <2> QED BY <2>1, <2>2, Induction
<1>6. \A i \in 0 .. n : g[i] \in SUBSET PipelineStages /\ b \subseteq g[i]
  <2> SUFFICES ASSUME NEW i \in 0 .. n PROVE g[i] \in SUBSET PipelineStages /\ b \subseteq g[i]
    OBVIOUS
  <2>1. i \in Nat /\ i <= n
    BY <1>3
  <2> QED BY <1>5, <2>1
<1>7. n \in 0 .. n
  BY <1>3
<1>8. ASSUME NEW h, AgreeOnceMarked(h, f, b)
      PROVE  Through(h, b, list) = Through(f, b, list)
  <2>1. PICK k : /\ Through(h, b, list) = k[n] /\ k[0] = b
                 /\ \A i \in 1 .. n : k[i] = MarksOf(h, list[i], k[i - 1])
    BY <1>2 DEF n, GoesThrough
  <2> DEFINE M == {i \in Nat : i <= n => k[i] = g[i]}
  <2>2. 0 \in M
    BY <1>4, <2>1
  <2>3. ASSUME NEW i \in Nat, i \in M PROVE i + 1 \in M
    <3>1. SUFFICES ASSUME i + 1 <= n PROVE k[i + 1] = g[i + 1]
      OBVIOUS
    <3>2. i + 1 \in 1 .. n /\ (i + 1) - 1 = i /\ i \in 0 .. n /\ k[i] = g[i]
      BY <1>3, <2>3, <3>1
    <3>3. g[i + 1] = MarksOf(f, list[i + 1], g[i]) /\ k[i + 1] = MarksOf(h, list[i + 1], g[i])
      BY <1>4, <2>1, <3>2
    <3>4. list[i + 1] \in PipelineStages \cup {NoStage}
      BY <1>3, <3>2
    <3>5. g[i] \in SUBSET PipelineStages /\ b \subseteq g[i]
      BY <1>6, <3>2
    <3>6. MarksOf(h, list[i + 1], g[i]) = MarksOf(f, list[i + 1], g[i])
      BY <1>8, <3>4, <3>5 DEF AgreeOnceMarked
    <3> QED BY <3>3, <3>6
  <2>4. Nat \subseteq M
    <3> HIDE DEF M
    <3> QED BY <2>2, <2>3, Induction
  <2> QED BY <1>3, <1>4, <2>1, <2>4
<1> QED BY <1>4, <1>6, <1>7, <1>8

(* What one stage and its targets mark.                                    *)
LEMMA MarkedIs ==
  ASSUME PipelineTypes, NEW f, Adds(f), NEW s \in PipelineStages \cup {NoStage},
         NEW m \in SUBSET PipelineStages
  PROVE  /\ Marked(f, s, m) \in SUBSET PipelineStages /\ m \subseteq Marked(f, s, m)
         /\ \A h : (s # NoStage /\ s \notin m => AgreeOnceMarked(h, f, m \cup {s}))
                   => Marked(h, s, m) = Marked(f, s, m)
<1>1. CASE s = NoStage \/ s \in m
  BY <1>1 DEF Marked
<1>2. CASE ~(s = NoStage \/ s \in m)
  <2>1. m \cup {s} \in SUBSET PipelineStages /\ s \in PipelineStages
    BY <1>2
  <2>2. transitions[s] \in Seq(PipelineStages \cup {NoStage})
    BY <2>1 DEF PipelineTypes
  <2>3. \A h : Marked(h, s, m) = Through(h, m \cup {s}, transitions[s])
    BY <1>2 DEF Marked
  <2> DEFINE b == m \cup {s}
             T(h) == Through(h, b, transitions[s])
  <2>4. /\ T(f) \in SUBSET PipelineStages /\ b \subseteq T(f)
        /\ \A h : AgreeOnceMarked(h, f, b) => T(h) = T(f)
    BY <2>1, <2>2, ThroughAdds
  <2>5. m \subseteq b /\ \A h : Marked(h, s, m) = T(h)
    BY <2>3
  <2> HIDE DEF T
  <2> QED BY <1>2, <2>4, <2>5
<1> QED BY <1>1, <1>2

MarkFunction(f) == f = [x \in (PipelineStages \cup {NoStage}) \X SUBSET PipelineStages |->
                          Marked(f, x[1], x[2])]

(* The marking ends: with each stage fewer are unmarked.                   *)
LEMMA MarksExist ==
  ASSUME PipelineTypes
  PROVE  \E f : MarkFunction(f) /\ Adds(f)
<1> DEFINE From == PipelineStages \cup {NoStage}
           Sets == SUBSET PipelineStages
           Good(k, f) == /\ Adds(f)
                         /\ \A s \in From, m \in Sets : Unmarked(m) < k => MarksOf(f, s, m) = Marked(f, s, m)
           N == {k \in Nat : \E f : Good(k, f)}
<1>1. 0 \in N
  <2> DEFINE h == [x \in From \X Sets |-> x[2]]
  <2>1. \A s \in From, m \in Sets : MarksOf(h, s, m) = m
    BY DEF MarksOf
  <2> HIDE DEF h
  <2>2. Adds(h)
    BY <2>1 DEF Adds
  <2>3. \A m \in Sets : ~(Unmarked(m) < 0)
    BY UnmarkedIs
  <2> QED BY <2>2, <2>3
<1>2. ASSUME NEW k \in Nat, k \in N PROVE k + 1 \in N
  <2>1. PICK f : Good(k, f)
    BY <1>2
  <2> DEFINE h == [x \in From \X Sets |->
                     IF Unmarked(x[2]) < k + 1 THEN Marked(f, x[1], x[2]) ELSE x[2]]
  <2>2. \A s \in From, m \in Sets : MarksOf(h, s, m) = IF Unmarked(m) < k + 1 THEN Marked(f, s, m) ELSE m
    BY DEF MarksOf
  <2> HIDE DEF h
  <2>3. ASSUME NEW s \in From, NEW m \in Sets
        PROVE  Marked(f, s, m) \in Sets /\ m \subseteq Marked(f, s, m)
    BY <2>1, MarkedIs
  <2>4. Adds(h)
    BY <2>2, <2>3 DEF Adds
  <2>5. ASSUME NEW s \in From, NEW m \in Sets, Unmarked(m) < k + 1
        PROVE  MarksOf(h, s, m) = Marked(h, s, m)
    <3>1. MarksOf(h, s, m) = Marked(f, s, m)
      BY <2>2, <2>5
    <3>2. ASSUME s # NoStage, s \notin m, NEW t \in From, NEW j \in Sets, m \cup {s} \subseteq j
          PROVE  MarksOf(h, t, j) = MarksOf(f, t, j)
      <4>1. s \in PipelineStages \ m
        BY <3>2
      <4>2. Unmarked(j) \in Nat /\ Unmarked(m) \in Nat /\ Unmarked(j) < Unmarked(m)
        BY <3>2, <4>1, UnmarkedIs
      <4>3. Unmarked(j) < k /\ Unmarked(j) < k + 1
        BY <2>5, <4>2
      <4>4. MarksOf(h, t, j) = Marked(f, t, j)
        BY <2>2, <4>3
      <4> QED BY <2>1, <4>3, <4>4
    <3>3. Marked(h, s, m) = Marked(f, s, m)
      <4>1. Adds(f)
        BY <2>1
      <4>2. s # NoStage /\ s \notin m => AgreeOnceMarked(h, f, m \cup {s})
        BY <3>2 DEF AgreeOnceMarked
      <4> QED BY <4>1, <4>2, MarkedIs
    <3> QED BY <3>1, <3>3
  <2>6. Good(k + 1, h)
    BY <2>4, <2>5
  <2> HIDE DEF Good
  <2> QED BY <2>6
<1>3. Nat \subseteq N
  <2> HIDE DEF N
  <2> QED BY <1>1, <1>2, Induction
<1> DEFINE c == Cardinality(PipelineStages) + 1
<1>4. c \in Nat /\ \A m \in Sets : Unmarked(m) < c
  <2>1. {} \in SUBSET PipelineStages
    OBVIOUS
  <2>2. \A m \in Sets : /\ Unmarked(m) \in Nat /\ Unmarked(m) <= Cardinality(PipelineStages)
                        /\ Cardinality(PipelineStages) \in Nat
    BY UnmarkedIs
  <2> QED BY <2>1, <2>2
<1> HIDE DEF c
<1>5. PICK f : Good(c, f)
  BY <1>3, <1>4
<1>6. \A s \in From, m \in Sets : MarksOf(f, s, m) = Marked(f, s, m)
  BY <1>4, <1>5
<1> DEFINE g == [x \in From \X Sets |-> Marked(f, x[1], x[2])]
<1>7. \A s \in From, m \in Sets : MarksOf(g, s, m) = Marked(f, s, m)
  BY DEF MarksOf
<1> HIDE DEF g
<1>8. \A s \in From, m \in Sets : Marked(g, s, m) = Marked(f, s, m)
  <2> SUFFICES ASSUME NEW s \in From, NEW m \in Sets PROVE Marked(g, s, m) = Marked(f, s, m)
    OBVIOUS
  <2>1. \A t \in From, k \in Sets : MarksOf(g, t, k) = MarksOf(f, t, k)
    BY <1>6, <1>7
  <2>2. AgreeOnceMarked(g, f, m \cup {s})
    BY <2>1 DEF AgreeOnceMarked
  <2> QED BY <1>5, <2>2, MarkedIs
<1>9. g = [x \in From \X Sets |-> Marked(g, x[1], x[2])]
  <2>1. \A x \in From \X Sets : Marked(g, x[1], x[2]) = Marked(f, x[1], x[2])
    BY <1>8
  <2> QED BY <2>1 DEF g
<1>10. Adds(g)
  BY <1>5, <1>6, <1>7 DEF Adds
<1> QED BY <1>9, <1>10 DEF MarkFunction

(* Stages that no transition leaves, and what is marked besides m.         *)
ClosedStages(C) == \A s \in C : NextStages(s) \subseteq C \cup {NoStage}

LEMMA MarkReachableIs ==
  ASSUME PipelineTypes, NEW start \in PipelineStages \cup {NoStage}
  PROVE  \E f : /\ MarkReachable(start) = MarksOf(f, start, {}) /\ Adds(f)
                /\ \A s \in PipelineStages \cup {NoStage}, m \in SUBSET PipelineStages :
                     MarksOf(f, s, m) = Marked(f, s, m)
<1> DEFINE From == PipelineStages \cup {NoStage}
           Sets == SUBSET PipelineStages
           f == CHOOSE f : MarkFunction(f)
<1>1. MarkReachable(start) = MarksOf(f, start, {})
  BY Zenon DEF MarkReachable, MarkFunction, Marked, Through, MarksOf
<1>2. MarkFunction(f)
  BY MarksExist, Zenon
<1> HIDE DEF f
<1>3. ASSUME NEW g, MarkFunction(g), NEW s \in From, NEW m \in Sets
      PROVE  MarksOf(g, s, m) = Marked(g, s, m)
  <2>1. <<s, m>> \in From \X Sets /\ <<s, m>>[1] = s /\ <<s, m>>[2] = m
    OBVIOUS
  <2>2. g[<<s, m>>] = Marked(g, <<s, m>>[1], <<s, m>>[2])
    BY <1>3, <2>1, Zenon DEF MarkFunction
  <2> QED BY <2>1, <2>2 DEF MarksOf
<1>4. PICK g : MarkFunction(g) /\ Adds(g)
  BY MarksExist
<1> DEFINE N == {k \in Nat : \A s \in From, m \in Sets :
                   Unmarked(m) < k => MarksOf(f, s, m) = MarksOf(g, s, m)}
<1>5. 0 \in N
  <2>1. \A m \in Sets : ~(Unmarked(m) < 0)
    BY UnmarkedIs
  <2> QED BY <2>1
<1>6. ASSUME NEW k \in Nat, k \in N PROVE k + 1 \in N
  <2> SUFFICES ASSUME NEW s \in From, NEW m \in Sets, Unmarked(m) < k + 1
               PROVE  MarksOf(f, s, m) = MarksOf(g, s, m)
    OBVIOUS
  <2>1. ASSUME s # NoStage, s \notin m, NEW t \in From, NEW j \in Sets, m \cup {s} \subseteq j
        PROVE  MarksOf(f, t, j) = MarksOf(g, t, j)
    <3>1. s \in PipelineStages \ m
      BY <2>1
    <3>2. Unmarked(j) \in Nat /\ Unmarked(m) \in Nat /\ Unmarked(j) < Unmarked(m)
      BY <2>1, <3>1, UnmarkedIs
    <3>3. Unmarked(j) < k
      BY <3>2
    <3> QED BY <1>6, <3>3
  <2>2. Marked(f, s, m) = Marked(g, s, m)
    <3>1. s # NoStage /\ s \notin m => AgreeOnceMarked(f, g, m \cup {s})
      BY <2>1 DEF AgreeOnceMarked
    <3> QED BY <1>4, <3>1, MarkedIs
  <2> QED BY <1>2, <1>3, <1>4, <2>2
<1>7. Nat \subseteq N
  <2> HIDE DEF N
  <2> QED BY <1>5, <1>6, Induction
<1>8. \A s \in From, m \in Sets : MarksOf(f, s, m) = MarksOf(g, s, m)
  <2> SUFFICES ASSUME NEW s \in From, NEW m \in Sets PROVE MarksOf(f, s, m) = MarksOf(g, s, m)
    OBVIOUS
  <2>1. Unmarked(m) + 1 \in Nat /\ Unmarked(m) < Unmarked(m) + 1
    BY UnmarkedIs
  <2> QED BY <1>7, <2>1
<1>9. Adds(f)
  BY <1>4, <1>8 DEF Adds
<1> QED BY <1>1, <1>2, <1>3, <1>9

(* What is marked besides m leads only to what is marked, ...              *)
LEMMA MarksLead ==
  ASSUME PipelineTypes, NEW f, Adds(f),
         \A s \in PipelineStages \cup {NoStage}, m \in SUBSET PipelineStages :
           MarksOf(f, s, m) = Marked(f, s, m)
  PROVE  \A s \in PipelineStages \cup {NoStage}, m \in SUBSET PipelineStages :
           /\ s \in MarksOf(f, s, m) \cup {NoStage}
           /\ \A x \in MarksOf(f, s, m) \ m : NextStages(x) \subseteq MarksOf(f, s, m) \cup {NoStage}
<1> DEFINE From == PipelineStages \cup {NoStage}
           Sets == SUBSET PipelineStages
           Leads(s, m, R) == /\ s \in R \cup {NoStage}
                             /\ \A x \in R \ m : NextStages(x) \subseteq R \cup {NoStage}
           N == {k \in Nat : \A s \in From, m \in Sets : Unmarked(m) < k => Leads(s, m, MarksOf(f, s, m))}
<1>1. 0 \in N
  <2>1. \A m \in Sets : ~(Unmarked(m) < 0)
    BY UnmarkedIs
  <2> QED BY <2>1
<1>2. ASSUME NEW k \in Nat, k \in N PROVE k + 1 \in N
  <2> SUFFICES ASSUME NEW s \in From, NEW m \in Sets, Unmarked(m) < k + 1
               PROVE  Leads(s, m, MarksOf(f, s, m))
    OBVIOUS
  <2>1. CASE s = NoStage \/ s \in m
    <3>1. MarksOf(f, s, m) = m
      BY <2>1 DEF Marked
    <3> QED BY <2>1, <3>1
  <2>2. CASE s # NoStage /\ s \notin m
    <3> DEFINE list == transitions[s]
               b == m \cup {s}
    <3>1. s \in PipelineStages \ m /\ b \in Sets /\ list \in Seq(From)
      BY <2>2 DEF PipelineTypes
    <3>2. /\ Len(list) \in Nat /\ DOMAIN list = 1 .. Len(list)
          /\ \A i \in 1 .. Len(list) : list[i] \in From
      BY <3>1
    <3>3. MarksOf(f, s, m) = Through(f, b, list)
      BY <2>2 DEF Marked
    <3>4. PICK g : /\ Through(f, b, list) = g[Len(list)] /\ g[0] = b
                   /\ \A i \in 1 .. Len(list) : g[i] = MarksOf(f, list[i], g[i - 1])
      <4>1. \E g : GoesThrough(f, b, list, g)
        BY <3>2, ThroughSteps
      <4> QED BY <4>1 DEF GoesThrough
    <3>5. NextStages(s) = {list[i] : i \in 1 .. Len(list)}
      BY <3>2 DEF NextStages, ToSet
    <3> DEFINE n == Len(list)
    <3>6. \A j \in Sets : b \subseteq j => Unmarked(j) < k
      <4>1. \A j \in Sets : b \subseteq j => /\ Unmarked(j) \in Nat /\ Unmarked(m) \in Nat
                                            /\ Unmarked(j) < Unmarked(m)
        BY <3>1, UnmarkedIs
      <4> QED BY <4>1
    <3> HIDE DEF list, b
    <3> HIDE DEF n
    <3> DEFINE Upto(i) == /\ g[i] \in Sets /\ b \subseteq g[i]
                          /\ \A j \in 1 .. i : list[j] \in g[i] \cup {NoStage}
                          /\ \A x \in g[i] \ b : NextStages(x) \subseteq g[i] \cup {NoStage}
               M == {i \in Nat : i <= n => Upto(i)}
    <3>7. 0 \in M
      <4>1. g[0] = b /\ b \in Sets /\ 1 .. 0 = {}
        BY <3>1, <3>4
      <4> QED BY <4>1
    <3>8. ASSUME NEW i \in Nat, i \in M PROVE i + 1 \in M
      <4> SUFFICES ASSUME i + 1 <= n PROVE Upto(i + 1)
        OBVIOUS
      <4>1. i + 1 \in 1 .. n /\ (i + 1) - 1 = i /\ i <= n
        BY <3>2 DEF n
      <4>2. Upto(i)
        BY <3>8, <4>1
      <4>3. g[i + 1] = MarksOf(f, list[i + 1], g[i]) /\ list[i + 1] \in From
        BY <3>2, <3>4, <4>1 DEF n
      <4>4. g[i + 1] \in Sets /\ g[i] \subseteq g[i + 1]
        <5>1. g[i] \in Sets
          BY <4>2
        <5> QED BY <4>3, <5>1 DEF Adds
      <4>5. Leads(list[i + 1], g[i], g[i + 1])
        BY <1>2, <3>6, <4>2, <4>3
      <4>6. \A j \in 1 .. i + 1 : list[j] \in g[i + 1] \cup {NoStage}
        <5> SUFFICES ASSUME NEW j \in 1 .. i + 1 PROVE list[j] \in g[i + 1] \cup {NoStage}
          OBVIOUS
        <5>1. CASE j = i + 1
          BY <4>5, <5>1
        <5>2. CASE j # i + 1
          <6>1. j \in 1 .. i
            BY <5>2
          <6> QED BY <4>2, <4>4, <6>1
        <5> QED BY <5>1, <5>2
      <4> QED BY <4>2, <4>4, <4>5, <4>6
    <3>9. Upto(n)
      <4>1. Nat \subseteq M
        <5> HIDE DEF M
        <5> QED BY <3>7, <3>8, Induction
      <4>2. n \in Nat /\ n <= n
        BY <3>2 DEF n
      <4> QED BY <4>1, <4>2
    <3>10. MarksOf(f, s, m) = g[n] /\ NextStages(s) = {list[i] : i \in 1 .. n}
      BY <3>3, <3>4, <3>5 DEF n
    <3>11. s \in g[n] /\ NextStages(s) \subseteq g[n] \cup {NoStage}
      BY <3>9, <3>10 DEF b
    <3> QED BY <3>9, <3>10, <3>11 DEF b
  <2> QED BY <2>1, <2>2
<1>3. Nat \subseteq N
  <2> HIDE DEF N
  <2> QED BY <1>1, <1>2, Induction
<1> SUFFICES ASSUME NEW s \in From, NEW m \in Sets PROVE Leads(s, m, MarksOf(f, s, m))
  OBVIOUS
<1>4. Unmarked(m) + 1 \in Nat /\ Unmarked(m) < Unmarked(m) + 1
  BY UnmarkedIs
<1> QED BY <1>3, <1>4

(* ... and lies within whatever stages no transition leaves.               *)
LEMMA MarksWithin ==
  ASSUME PipelineTypes, NEW f, Adds(f), NEW C \in SUBSET PipelineStages, ClosedStages(C),
         \A s \in PipelineStages \cup {NoStage}, m \in SUBSET PipelineStages :
           MarksOf(f, s, m) = Marked(f, s, m)
  PROVE  \A s \in C \cup {NoStage}, m \in SUBSET PipelineStages : MarksOf(f, s, m) \subseteq m \cup C
<1> DEFINE Sets == SUBSET PipelineStages
           N == {k \in Nat : \A s \in C \cup {NoStage}, m \in Sets :
                   Unmarked(m) < k => MarksOf(f, s, m) \subseteq m \cup C}
<1>1. 0 \in N
  <2>1. \A m \in Sets : ~(Unmarked(m) < 0)
    BY UnmarkedIs
  <2> QED BY <2>1
<1>2. ASSUME NEW k \in Nat, k \in N PROVE k + 1 \in N
  <2> SUFFICES ASSUME NEW s \in C \cup {NoStage}, NEW m \in Sets, Unmarked(m) < k + 1
               PROVE  MarksOf(f, s, m) \subseteq m \cup C
    OBVIOUS
  <2>1. CASE s = NoStage \/ s \in m
    BY <2>1 DEF Marked
  <2>2. CASE s # NoStage /\ s \notin m
    <3> DEFINE list == transitions[s]
               b == m \cup {s}
    <3>1. s \in PipelineStages \ m /\ s \in C /\ b \in Sets /\ list \in Seq(PipelineStages \cup {NoStage})
      BY <2>2 DEF PipelineTypes
    <3>2. Len(list) \in Nat /\ DOMAIN list = 1 .. Len(list)
      BY <3>1
    <3>3. MarksOf(f, s, m) = Through(f, b, list)
      BY <2>2, <3>1 DEF Marked
    <3>4. PICK g : /\ Through(f, b, list) = g[Len(list)] /\ g[0] = b
                   /\ \A i \in 1 .. Len(list) : g[i] = MarksOf(f, list[i], g[i - 1])
      <4>1. \E g : GoesThrough(f, b, list, g)
        BY <3>2, ThroughSteps
      <4> QED BY <4>1 DEF GoesThrough
    <3>5. \A i \in 1 .. Len(list) : list[i] \in C \cup {NoStage}
      BY <3>1, <3>2 DEF NextStages, ToSet, ClosedStages
    <3> DEFINE n == Len(list)
    <3>6. \A j \in Sets : b \subseteq j => Unmarked(j) < k
      <4>1. \A j \in Sets : b \subseteq j => /\ Unmarked(j) \in Nat /\ Unmarked(m) \in Nat
                                            /\ Unmarked(j) < Unmarked(m)
        BY <3>1, UnmarkedIs
      <4> QED BY <4>1
    <3> HIDE DEF list, b
    <3> HIDE DEF n
    <3> DEFINE Upto(i) == g[i] \in Sets /\ b \subseteq g[i] /\ g[i] \subseteq b \cup C
               M == {i \in Nat : i <= n => Upto(i)}
    <3>7. 0 \in M
      BY <3>1, <3>4
    <3>8. ASSUME NEW i \in Nat, i \in M PROVE i + 1 \in M
      <4> SUFFICES ASSUME i + 1 <= n PROVE Upto(i + 1)
        OBVIOUS
      <4>1. i + 1 \in 1 .. n /\ (i + 1) - 1 = i /\ i <= n
        BY <3>2 DEF n
      <4>2. Upto(i)
        BY <3>8, <4>1
      <4>3. g[i + 1] = MarksOf(f, list[i + 1], g[i]) /\ list[i + 1] \in C \cup {NoStage}
        BY <3>4, <3>5, <4>1 DEF n
      <4>4. g[i + 1] \in Sets /\ g[i] \subseteq g[i + 1]
        BY <4>2, <4>3 DEF Adds
      <4>5. g[i + 1] \subseteq g[i] \cup C
        BY <1>2, <3>6, <4>2, <4>3
      <4> QED BY <4>2, <4>4, <4>5
    <3>9. Upto(n)
      <4>1. Nat \subseteq M
        <5> HIDE DEF M
        <5> QED BY <3>7, <3>8, Induction
      <4>2. n \in Nat /\ n <= n
        BY <3>2 DEF n
      <4> QED BY <4>1, <4>2
    <3>10. MarksOf(f, s, m) = g[n]
      BY <3>3, <3>4 DEF n
    <3> QED BY <3>1, <3>9, <3>10 DEF b
  <2> QED BY <2>1, <2>2
<1>3. Nat \subseteq N
  <2> HIDE DEF N
  <2> QED BY <1>1, <1>2, Induction
<1> SUFFICES ASSUME NEW s \in C \cup {NoStage}, NEW m \in Sets PROVE MarksOf(f, s, m) \subseteq m \cup C
  OBVIOUS
<1>4. Unmarked(m) + 1 \in Nat /\ Unmarked(m) < Unmarked(m) + 1
  BY UnmarkedIs
<1> QED BY <1>3, <1>4

(* The stages that so many transitions lead to.                            *)
Onward(R) == R \cup UNION {ToSet(transitions[s]) : s \in R \ {NoStage}}
ReachLoop(start, n, g) == g = [d \in 0 .. n |-> IF d = 0 THEN {start} ELSE Onward(g[d - 1])]

LEMMA ReachLoopExists ==
  ASSUME NEW start, NEW n \in Nat
  PROVE  \E g : ReachLoop(start, n, g)
<1> DEFINE N == {m \in Nat : \E g : ReachLoop(start, m, g)}
<1>1. 0 \in N
  <2> DEFINE h == [d \in 0 .. 0 |-> {start}]
  <2>1. h = [d \in 0 .. 0 |-> IF d = 0 THEN {start} ELSE Onward(h[d - 1])]
    OBVIOUS
  <2> HIDE DEF h
  <2> QED BY <2>1 DEF ReachLoop
<1>2. ASSUME NEW m \in Nat, m \in N PROVE m + 1 \in N
  <2>1. PICK g : ReachLoop(start, m, g)
    BY <1>2
  <2> DEFINE h == [d \in 0 .. (m + 1) |-> IF d = m + 1 THEN Onward(g[m]) ELSE g[d]]
  <2>2. ASSUME NEW d \in 0 .. (m + 1)
        PROVE  h[d] = IF d = 0 THEN {start} ELSE Onward(h[d - 1])
    <3>1. CASE d = m + 1
      <4>1. d # 0 /\ d - 1 \in 0 .. (m + 1) /\ d - 1 # m + 1 /\ d - 1 = m
        BY <3>1
      <4>2. h[d] = Onward(g[m]) /\ h[d - 1] = g[m]
        BY <3>1, <4>1
      <4> QED BY <4>1, <4>2
    <3>2. CASE d # m + 1
      <4>1. d \in 0 .. m /\ h[d] = g[d]
        BY <3>2
      <4>2. g[d] = IF d = 0 THEN {start} ELSE Onward(g[d - 1])
        BY <2>1, <4>1 DEF ReachLoop
      <4>3. d # 0 => h[d - 1] = g[d - 1]
        BY <4>1
      <4> QED BY <4>1, <4>2, <4>3
    <3> QED BY <3>1, <3>2
  <2>3. h = [d \in 0 .. (m + 1) |-> h[d]]
    OBVIOUS
  <2> HIDE DEF h
  <2>4. ReachLoop(start, m + 1, h)
    BY <2>2, <2>3 DEF ReachLoop
  <2> QED BY <2>4
<1>3. Nat \subseteq N
  <2> HIDE DEF N
  <2> QED BY <1>1, <1>2, Induction
<1> QED BY <1>3

LEMMA LeadsToIs ==
  ASSUME NEW start
  PROVE  LET n == Cardinality(PipelineStages)
         IN  /\ n \in Nat
             /\ \E g : /\ LeadsTo(start) = g[n] \ {NoStage} /\ g[0] = {start}
                       /\ \A d \in 1 .. n : g[d] = Onward(g[d - 1])
<1> DEFINE n == Cardinality(PipelineStages)
           g == CHOOSE g : ReachLoop(start, n, g)
<1>1. n \in Nat
  BY PipelineAssumption, FS_CardinalityType
<1>2. LeadsTo(start) = g[n] \ {NoStage}
  BY Zenon DEF LeadsTo, ReachLoop, Onward
<1>3. ReachLoop(start, n, g)
  BY <1>1, ReachLoopExists, Zenon
<1> HIDE DEF n, g
<1>4. \A d \in 0 .. n : g[d] = IF d = 0 THEN {start} ELSE Onward(g[d - 1])
  BY <1>3 DEF ReachLoop
<1>5. g[0] = {start} /\ \A d \in 1 .. n : g[d] = Onward(g[d - 1])
  <2>1. 0 \in 0 .. n /\ \A d \in 1 .. n : d \in 0 .. n /\ d # 0
    BY <1>1
  <2> QED BY <1>4, <2>1
<1> QED BY <1>1, <1>2, <1>5 DEF n

(* With each step there are more, until no transition leaves them; and     *)
(* they lie within whatever stages no transition leaves.                   *)
LEMMA LeadsToClosed ==
  ASSUME PipelineTypes, NEW start \in PipelineStages
  PROVE  /\ LeadsTo(start) \in SUBSET PipelineStages /\ start \in LeadsTo(start)
         /\ ClosedStages(LeadsTo(start))
         /\ \A C \in SUBSET PipelineStages :
              start \in C /\ ClosedStages(C) => LeadsTo(start) \subseteq C
<1> DEFINE n == Cardinality(PipelineStages)
<1>1. PICK g : /\ LeadsTo(start) = g[n] \ {NoStage} /\ g[0] = {start}
               /\ \A d \in 1 .. n : g[d] = Onward(g[d - 1])
  BY LeadsToIs
<1>2. n \in Nat /\ IsFiniteSet(PipelineStages)
  BY LeadsToIs, PipelineAssumption
<1> HIDE DEF n
<1>3. NoStage \notin PipelineStages
  BY PipelineAssumption DEF NoStage
<1>4. \A s \in PipelineStages : ToSet(transitions[s]) \subseteq PipelineStages \cup {NoStage}
  <2> SUFFICES ASSUME NEW s \in PipelineStages
               PROVE  ToSet(transitions[s]) \subseteq PipelineStages \cup {NoStage}
    OBVIOUS
  <2>1. transitions[s] \in Seq(PipelineStages \cup {NoStage})
    BY DEF PipelineTypes
  <2> QED BY <2>1 DEF ToSet
<1> DEFINE Q(d) == g[d] \ {NoStage}
           Upto(d) == /\ g[d] \subseteq PipelineStages \cup {NoStage} /\ start \in g[d]
                      /\ \A C \in SUBSET PipelineStages :
                           start \in C /\ ClosedStages(C) => Q(d) \subseteq C
                      /\ ClosedStages(Q(d)) \/ Cardinality(Q(d)) >= d + 1
           N == {d \in Nat : d <= n => Upto(d)}
<1>5. 0 \in N
  <2>1. g[0] = {start} /\ Q(0) = {start} /\ IsFiniteSet({start})
    BY <1>1, <1>3, FS_Singleton
  <2>2. Cardinality(Q(0)) >= 0 + 1
    BY <2>1, FS_Singleton
  <2> QED BY <2>1, <2>2
<1>6. ASSUME NEW d \in Nat, d \in N PROVE d + 1 \in N
  <2> SUFFICES ASSUME d + 1 <= n PROVE Upto(d + 1)
    OBVIOUS
  <2>1. d + 1 \in 1 .. n /\ (d + 1) - 1 = d /\ d <= n
    BY <1>2
  <2>2. Upto(d)
    BY <1>6, <2>1
  <2>3. g[d + 1] = g[d] \cup UNION {ToSet(transitions[s]) : s \in Q(d)}
    BY <1>1, <2>1 DEF Onward
  <2>4. Q(d) \subseteq PipelineStages
    BY <2>2
  <2>5. g[d + 1] \subseteq PipelineStages \cup {NoStage} /\ start \in g[d + 1]
    BY <1>4, <2>2, <2>3, <2>4
  <2>6. ASSUME NEW C \in SUBSET PipelineStages, start \in C, ClosedStages(C)
        PROVE  Q(d + 1) \subseteq C
    <3>1. Q(d) \subseteq C
      BY <2>2, <2>6
    <3>2. \A s \in Q(d) : ToSet(transitions[s]) \subseteq C \cup {NoStage}
      BY <2>6, <3>1 DEF ClosedStages, NextStages
    <3> QED BY <2>3, <3>1, <3>2
  <2>7. ClosedStages(Q(d + 1)) \/ Cardinality(Q(d + 1)) >= (d + 1) + 1
    <3>1. CASE ClosedStages(Q(d))
      <4>1. Q(d + 1) = Q(d)
        BY <2>3, <3>1 DEF ClosedStages, NextStages
      <4> QED BY <3>1, <4>1
    <3>2. CASE ~ClosedStages(Q(d)) /\ Cardinality(Q(d)) >= d + 1
      <4>1. PICK s \in Q(d) : ~(NextStages(s) \subseteq Q(d) \cup {NoStage})
        BY <3>2 DEF ClosedStages
      <4>2. PICK t \in ToSet(transitions[s]) : t \notin Q(d) \cup {NoStage}
        BY <4>1 DEF NextStages
      <4>3. t \in Q(d + 1) /\ Q(d) \cup {t} \subseteq Q(d + 1) /\ t \notin Q(d)
        BY <2>3, <4>2
      <4>4. Q(d + 1) \subseteq PipelineStages
        BY <2>5
      <4> HIDE DEF Q
      <4>5. IsFiniteSet(Q(d)) /\ IsFiniteSet(Q(d + 1))
        BY <1>2, <2>4, <4>4, FS_Subset
      <4>6. IsFiniteSet(Q(d) \cup {t}) /\ Cardinality(Q(d) \cup {t}) = Cardinality(Q(d)) + 1
        BY <4>3, <4>5, FS_AddElement
      <4>7. Cardinality(Q(d) \cup {t}) <= Cardinality(Q(d + 1))
        BY <4>3, <4>5, FS_Subset
      <4>8. Cardinality(Q(d)) \in Nat /\ Cardinality(Q(d + 1)) \in Nat
        BY <4>5, FS_CardinalityType
      <4> QED BY <3>2, <4>6, <4>7, <4>8
    <3> QED BY <2>2, <3>1, <3>2
  <2> HIDE DEF Q
  <2> QED BY <2>5, <2>6, <2>7
<1>7. Upto(n)
  <2>1. Nat \subseteq N
    <3> HIDE DEF N
    <3> QED BY <1>5, <1>6, Induction
  <2> HIDE DEF Upto
  <2>2. n <= n
    BY <1>2
  <2> QED BY <1>2, <2>1, <2>2
<1>8. Q(n) \subseteq PipelineStages /\ Q(n) = LeadsTo(start) /\ start \in Q(n)
  BY <1>1, <1>3, <1>7
<1>9. ~(Cardinality(Q(n)) >= n + 1)
  <2> HIDE DEF Q
  <2>1. Cardinality(Q(n)) <= n /\ Cardinality(Q(n)) \in Nat
    BY <1>2, <1>8, FS_Subset, FS_CardinalityType DEF n
  <2> QED BY <1>2, <2>1
<1> HIDE DEF Q
<1> QED BY <1>7, <1>8, <1>9

(* What Validate and Execute rest on: what is marked from the root is what *)
(* transitions lead to.                                                    *)
LEMMA MarksReachable ==
  ASSUME PipelineTypes, NEW start \in PipelineStages
  PROVE  MarkReachable(start) = LeadsTo(start)
<1>1. PICK f : /\ MarkReachable(start) = MarksOf(f, start, {}) /\ Adds(f)
               /\ \A s \in PipelineStages \cup {NoStage}, m \in SUBSET PipelineStages :
                    MarksOf(f, s, m) = Marked(f, s, m)
  BY MarkReachableIs
<1> DEFINE M == MarkReachable(start)
<1>2. /\ start \in PipelineStages \cup {NoStage} /\ {} \in SUBSET PipelineStages
      /\ start # NoStage
  BY PipelineAssumption DEF NoStage
<1>3. M \in SUBSET PipelineStages
  BY <1>1, <1>2 DEF Adds
<1>4. start \in M /\ ClosedStages(M)
  <2>1. /\ start \in M \cup {NoStage}
        /\ \A x \in M \ {} : NextStages(x) \subseteq M \cup {NoStage}
    BY <1>1, <1>2, MarksLead
  <2> QED BY <1>2, <2>1 DEF ClosedStages
<1>5. LeadsTo(start) \subseteq M
  BY <1>3, <1>4, LeadsToClosed
<1>6. M \subseteq LeadsTo(start)
  <2> DEFINE C == LeadsTo(start)
  <2>1. C \in SUBSET PipelineStages /\ ClosedStages(C) /\ start \in C \cup {NoStage}
    BY LeadsToClosed
  <2> HIDE DEF C
  <2>2. MarksOf(f, start, {}) \subseteq {} \cup C
    BY <1>1, <1>2, <2>1, MarksWithin
  <2> QED BY <1>1, <2>2 DEF C
<1> QED BY <1>5, <1>6

(* The stages called, each once and by a transition of the one before; and *)
(* the call that found a cycle.                                            *)
Called ==
  /\ \A i, j \in 1 .. Len(calls) : i # j => calls[i] # calls[j]
  /\ \A i \in 2 .. Len(calls) : calls[i] \in NextStages(calls[i - 1])
FoundCycle == \E i \in 1 .. Len(calls) : calls[i] \in NextStages(calls[Len(calls)])

PipelineInv ==
  /\ PipelineTypes /\ Called
  /\ executing # "no" => calls # <<>>
  /\ executing = "no" /\ executeResult = "cycle" => calls # <<>> /\ FoundCycle

LEMMA PipelineInitInv == PipelineInit => PipelineInv
<1> SUFFICES ASSUME PipelineInit PROVE PipelineInv
  OBVIOUS
<1>1. /\ root = NoStage /\ DOMAIN stageNamed = {} /\ transitions = [s \in PipelineStages |-> <<>>]
      /\ executing = "no" /\ calls = <<>> /\ executeResult = "nil"
  BY DEF PipelineInit
<1>2. PipelineTypes
  BY <1>1 DEF PipelineTypes
<1> QED BY <1>1, <1>2 DEF PipelineInv, Called

(* The stages named are stages.                                            *)
LEMMA WithStageIs ==
  ASSUME \A n \in DOMAIN stageNamed : stageNamed[n] \in PipelineStages, NEW s \in PipelineStages
  PROVE  \A n \in DOMAIN WithStage(s) : WithStage(s)[n] \in PipelineStages
<1> QED BY DEF WithStage

(* The pipeline is changed, but no transition is taken away.               *)
LEMMA BuildingKeeps ==
  ASSUME PipelineInv, PipelineTypes', UNCHANGED executeVars,
         \A s \in PipelineStages : ToSet(transitions[s]) \subseteq ToSet(transitions'[s])
  PROVE  PipelineInv'
<1>1. calls' = calls /\ executing' = executing /\ executeResult' = executeResult
  BY DEF executeVars
<1>2. calls \in Seq(PipelineStages)
  BY DEF PipelineInv, PipelineTypes
<1>3. \A i \in 1 .. Len(calls) : calls[i] \in PipelineStages
  BY <1>2
<1>4. /\ Len(calls) \in Nat
      /\ \A i \in 2 .. Len(calls) : i - 1 \in 1 .. Len(calls)
      /\ \A i \in 1 .. Len(calls) : Len(calls) \in 1 .. Len(calls)
  BY <1>2
<1>5. Called'
  <2>1. \A i \in 2 .. Len(calls) : calls[i] \in ToSet(transitions'[calls[i - 1]])
    <3> SUFFICES ASSUME NEW i \in 2 .. Len(calls)
                 PROVE  calls[i] \in ToSet(transitions'[calls[i - 1]])
      OBVIOUS
    <3>1. calls[i - 1] \in PipelineStages
      BY <1>3, <1>4
    <3>2. calls[i] \in ToSet(transitions[calls[i - 1]])
      BY DEF PipelineInv, Called, NextStages
    <3> QED BY <3>1, <3>2
  <2>2. \A i, j \in 1 .. Len(calls) : i # j => calls[i] # calls[j]
    BY DEF PipelineInv, Called
  <2> QED BY <1>1, <2>1, <2>2 DEF Called, NextStages
<1>6. FoundCycle => FoundCycle'
  <2> SUFFICES ASSUME FoundCycle PROVE FoundCycle'
    OBVIOUS
  <2>1. PICK i \in 1 .. Len(calls) : calls[i] \in ToSet(transitions[calls[Len(calls)]])
    BY DEF FoundCycle, NextStages
  <2>2. calls[Len(calls)] \in PipelineStages
    BY <1>3, <1>4
  <2>3. calls[i] \in ToSet(transitions'[calls[Len(calls)]])
    BY <2>1, <2>2
  <2> QED BY <1>1, <2>3 DEF FoundCycle, NextStages
<1> QED BY <1>1, <1>5, <1>6 DEF PipelineInv

(* The stage that Execute reaches is none, one that was called, or called  *)
(* next.                                                                   *)
LEMMA ReachesKeeps ==
  ASSUME PipelineInv, UNCHANGED <<root, stageNamed, transitions>>,
         NEW s \in PipelineStages \cup {NoStage}, NEW before \in Seq(PipelineStages),
         Reaches(s, before),
         \/ before = <<>>
         \/ before # <<>> /\ before = calls /\ (s = NoStage \/ s \in NextStages(calls[Len(calls)]))
  PROVE  PipelineInv'
<1> DEFINE n == Len(before)
<1>1. n \in Nat /\ \A i \in 1 .. n : before[i] \in PipelineStages
  OBVIOUS
<1>2. /\ \A i, j \in 1 .. n : i # j => before[i] # before[j]
      /\ \A i \in 2 .. n : before[i] \in NextStages(before[i - 1])
      /\ before # <<>> => n # 0 /\ (s = NoStage \/ s \in NextStages(before[n]))
  <2>1. CASE before = <<>>
    BY <2>1
  <2>2. CASE before # <<>> /\ before = calls /\ (s = NoStage \/ s \in NextStages(calls[Len(calls)]))
    BY <2>2 DEF PipelineInv, Called
  <2> QED BY <2>1, <2>2
<1>3. \A x : NextStages(x)' = NextStages(x)
  BY DEF NextStages
<1>4. CASE s = NoStage
  <2>1. executing' = "no" /\ executeResult' = "nil" /\ calls' = before
    BY <1>4 DEF Reaches, Ends
  <2>2. PipelineTypes'
    BY <2>1 DEF PipelineInv, PipelineTypes
  <2>3. Called'
    BY <1>2, <1>3, <2>1 DEF Called
  <2> QED BY <2>1, <2>2, <2>3 DEF PipelineInv
<1>5. CASE s # NoStage /\ s \in ToSet(before)
  <2>1. executing' = "no" /\ executeResult' = "cycle" /\ calls' = before
    BY <1>5 DEF Reaches, Ends
  <2>2. PICK i \in 1 .. n : before[i] = s
    BY <1>5 DEF ToSet
  <2>3. before # <<>>
    BY <2>2
  <2>4. PipelineTypes'
    BY <2>1 DEF PipelineInv, PipelineTypes
  <2>5. Called'
    BY <1>2, <1>3, <2>1 DEF Called
  <2>6. FoundCycle'
    BY <1>2, <1>3, <1>5, <2>1, <2>2, <2>3 DEF FoundCycle
  <2> QED BY <2>1, <2>3, <2>4, <2>5, <2>6 DEF PipelineInv
<1>6. CASE s # NoStage /\ s \notin ToSet(before)
  <2>1. executing' = "calling" /\ calls' = Append(before, s)
    BY <1>6 DEF Reaches
  <2>2. s \in PipelineStages
    BY <1>6
  <2>3. /\ calls' \in Seq(PipelineStages) /\ Len(calls') = n + 1 /\ calls'[n + 1] = s
        /\ \A i \in 1 .. n : calls'[i] = before[i]
    BY <2>1, <2>2
  <2>4. \A i \in 1 .. n : before[i] # s
    BY <1>6 DEF ToSet
  <2> HIDE DEF n
  <2>5. \A i, j \in 1 .. n + 1 : i # j => calls'[i] # calls'[j]
    <3> SUFFICES ASSUME NEW i \in 1 .. n + 1, NEW j \in 1 .. n + 1, i # j
                 PROVE  calls'[i] # calls'[j]
      OBVIOUS
    <3>1. CASE i \in 1 .. n /\ j \in 1 .. n
      BY <1>2, <2>3, <3>1
    <3>2. CASE i = n + 1 /\ j \in 1 .. n
      BY <2>3, <2>4, <3>2
    <3>3. CASE i \in 1 .. n /\ j = n + 1
      BY <2>3, <2>4, <3>3
    <3> QED BY <1>1, <3>1, <3>2, <3>3
  <2>6. \A i \in 2 .. n + 1 : calls'[i] \in NextStages(calls'[i - 1])
    <3> SUFFICES ASSUME NEW i \in 2 .. n + 1 PROVE calls'[i] \in NextStages(calls'[i - 1])
      OBVIOUS
    <3>1. i - 1 \in 1 .. n /\ calls'[i - 1] = before[i - 1]
      BY <1>1, <2>3
    <3>2. CASE i = n + 1
      <4>1. i - 1 = n /\ before # <<>>
        BY <1>1, <3>1, <3>2 DEF n
      <4> QED BY <1>2, <1>6, <2>3, <3>1, <3>2, <4>1
    <3>3. CASE i # n + 1
      <4>1. i \in 2 .. n /\ i \in 1 .. n
        BY <1>1, <3>3
      <4> QED BY <1>2, <2>3, <3>1, <4>1
    <3> QED BY <3>2, <3>3
  <2>7. Called'
    BY <1>3, <2>3, <2>5, <2>6 DEF Called
  <2>8. PipelineTypes'
    BY <2>1, <2>3 DEF PipelineInv, PipelineTypes
  <2>9. calls' # <<>>
    BY <1>1, <2>3
  <2> QED BY <2>1, <2>7, <2>8, <2>9 DEF PipelineInv
<1> QED BY <1>4, <1>5, <1>6

LEMMA PipelineStep == PipelineInv /\ [PipelineNext]_pipelineVars => PipelineInv'
<1> SUFFICES ASSUME PipelineInv, [PipelineNext]_pipelineVars PROVE PipelineInv'
  OBVIOUS
<1>1. PipelineTypes /\ NoStage \notin PipelineStages
  BY PipelineAssumption DEF PipelineInv, NoStage
<1>2. ASSUME transitions' = transitions
      PROVE  \A s \in PipelineStages : ToSet(transitions[s]) \subseteq ToSet(transitions'[s])
  BY <1>2
<1>3. ASSUME NEW s \in PipelineStages, NEW target \in PipelineStages \cup {NoStage},
             AddTransition(s, target)
      PROVE  PipelineInv'
  <2>1. /\ transitions' = [transitions EXCEPT ![s] = Append(@, target)]
        /\ UNCHANGED <<root, stageNamed, executeVars>>
    BY <1>3, Zenon DEF AddTransition
  <2>2. PipelineTypes'
    BY <1>1, <2>1 DEF PipelineTypes, executeVars
  <2>3. ASSUME NEW t \in PipelineStages
        PROVE  ToSet(transitions[t]) \subseteq ToSet(transitions'[t])
    <3>1. transitions[t] \in Seq(PipelineStages \cup {NoStage})
      BY <1>1 DEF PipelineTypes
    <3>2. transitions'[t] = IF t = s THEN Append(transitions[t], target) ELSE transitions[t]
      BY <1>1, <2>1 DEF PipelineTypes
    <3>3. \A i \in DOMAIN transitions[t] :
            i \in DOMAIN transitions'[t] /\ transitions'[t][i] = transitions[t][i]
      BY <3>1, <3>2
    <3> QED BY <3>3 DEF ToSet
  <2> QED BY <2>1, <2>2, <2>3, BuildingKeeps
<1>4. ASSUME NEW s \in PipelineStages, AddStage(s) PROVE PipelineInv'
  <2>1. stageNamed' = WithStage(s) /\ UNCHANGED <<root, transitions, executeVars>>
    BY <1>4 DEF AddStage
  <2>2. PipelineTypes'
    BY <1>1, <2>1, WithStageIs DEF PipelineTypes, executeVars
  <2> QED BY <1>2, <2>1, <2>2, BuildingKeeps
<1>5. ASSUME NEW s \in PipelineStages \cup {NoStage}, SetRootStage(s) PROVE PipelineInv'
  <2>1. /\ root' = s /\ stageNamed' = IF s = NoStage THEN stageNamed ELSE WithStage(s)
        /\ UNCHANGED <<transitions, executeVars>>
    BY <1>5 DEF SetRootStage
  <2>2. PipelineTypes'
    BY <1>1, <2>1, WithStageIs DEF PipelineTypes, executeVars
  <2> QED BY <1>2, <2>1, <2>2, BuildingKeeps
<1>6. CASE ClearPipeline
  <2>1. /\ root' = NoStage /\ DOMAIN stageNamed' = {}
        /\ UNCHANGED <<transitions, executeVars>>
    BY <1>6 DEF ClearPipeline
  <2>2. PipelineTypes'
    BY <1>1, <2>1 DEF PipelineTypes, executeVars
  <2> QED BY <1>2, <2>1, <2>2, BuildingKeeps
<1>7. CASE Execute
  <2>1. Reaches(root, <<>>) /\ UNCHANGED <<root, stageNamed, transitions>>
    BY <1>7 DEF Execute
  <2>2. <<>> \in Seq(PipelineStages) /\ root \in PipelineStages \cup {NoStage}
    BY <1>1 DEF PipelineTypes
  <2> QED BY <2>1, <2>2, ReachesKeeps
<1>8. ASSUME NEW ok \in BOOLEAN, StageReturns(ok) PROVE PipelineInv'
  <2>1. /\ executing = "calling" /\ calls # <<>>
        /\ \/ executing' = "choosing"
           \/ executing' = "no" /\ executeResult' = "error"
        /\ UNCHANGED <<root, stageNamed, transitions, calls>>
    BY <1>8 DEF StageReturns, Ends, PipelineInv
  <2>2. PipelineTypes' /\ Called'
    BY <1>1, <2>1 DEF PipelineTypes, PipelineInv, Called, NextStages
  <2> QED BY <2>1, <2>2 DEF PipelineInv
<1>9. CASE GetNextStage
  <2>1. /\ executing = "choosing" /\ UNCHANGED <<root, stageNamed, transitions>>
        /\ calls \in Seq(PipelineStages) /\ calls # <<>>
    BY <1>1, <1>9 DEF GetNextStage, PipelineInv, PipelineTypes
  <2>2. CASE Reaches(NoStage, calls)
    BY <2>1, <2>2, ReachesKeeps
  <2>3. ASSUME NEW i \in DOMAIN transitions[Last(calls)], Reaches(transitions[Last(calls)][i], calls)
        PROVE  PipelineInv'
    <3> DEFINE l == calls[Len(calls)]
               s == transitions[l][i]
    <3>1. Last(calls) = l /\ l \in PipelineStages
      BY <2>1 DEF Last
    <3>2. transitions[l] \in Seq(PipelineStages \cup {NoStage})
      BY <1>1, <3>1 DEF PipelineTypes
    <3>3. s \in PipelineStages \cup {NoStage} /\ s \in NextStages(l)
      BY <2>3, <3>1, <3>2 DEF NextStages, ToSet
    <3>4. Reaches(s, calls)
      BY <2>3, <3>1
    <3> HIDE DEF s
    <3> QED BY <2>1, <3>3, <3>4, ReachesKeeps
  <2> QED BY <1>9, <2>2, <2>3 DEF GetNextStage
<1>10. CASE UNCHANGED pipelineVars
  <2>1. UNCHANGED <<root, stageNamed, transitions, executeVars>>
    BY <1>10 DEF pipelineVars
  <2>2. PipelineTypes'
    BY <1>1, <2>1 DEF PipelineTypes, executeVars
  <2> QED BY <1>2, <2>1, <2>2, BuildingKeeps
<1> QED BY <1>3, <1>4, <1>5, <1>6, <1>7, <1>8, <1>9, <1>10 DEF PipelineNext, ExecuteStep

LEMMA PipelineInvImplies == PipelineInv => PipelineExact
<1> SUFFICES ASSUME PipelineInv PROVE PipelineExact
  OBVIOUS
<1>1. PipelineTypes /\ NoStage \notin PipelineStages
  BY PipelineAssumption DEF PipelineInv, NoStage
<1> DEFINE n == Len(calls)
<1>2. /\ calls \in Seq(PipelineStages) /\ n \in Nat /\ DOMAIN calls = 1 .. n
      /\ \A i \in 1 .. n : calls[i] \in PipelineStages
  BY <1>1 DEF PipelineTypes
<1>3. \A i, j \in DOMAIN calls : i # j => calls[i] # calls[j]
  BY <1>2 DEF PipelineInv, Called
<1>4. \A i \in DOMAIN calls : i > 1 => calls[i] \in ToSet(transitions[calls[i - 1]])
  <2>1. \A i \in DOMAIN calls : i > 1 => i \in 2 .. n
    BY <1>2
  <2> QED BY <2>1 DEF PipelineInv, Called, NextStages
<1>5. ASSUME executing = "no", executeResult = "cycle"
      PROVE  \E s \in ToSet(transitions[Last(calls)]) \cap ToSet(calls) : Last(calls) \in LeadsTo(s)
  <2>1. calls # <<>> /\ Last(calls) = calls[n]
    BY <1>2, <1>5 DEF PipelineInv, Last
  <2>2. PICK i \in 1 .. n : calls[i] \in NextStages(calls[n])
    BY <1>5 DEF PipelineInv, FoundCycle
  <2> DEFINE C == LeadsTo(calls[i])
  <2>3. C \subseteq PipelineStages /\ calls[i] \in C /\ ClosedStages(C)
    BY <1>1, <1>2, LeadsToClosed
  <2> HIDE DEF C, n
  <2> DEFINE N == {d \in Nat : i + d <= n => calls[i + d] \in C}
  <2>4. 0 \in N
    BY <1>2, <2>3
  <2>5. ASSUME NEW d \in Nat, d \in N PROVE d + 1 \in N
    <3> SUFFICES ASSUME i + (d + 1) <= n PROVE calls[i + (d + 1)] \in C
      OBVIOUS
    <3>1. /\ i + (d + 1) \in 2 .. n /\ (i + (d + 1)) - 1 = i + d /\ i + d <= n
          /\ i + (d + 1) \in 1 .. n
      BY <1>2
    <3>2. calls[i + d] \in C /\ calls[i + (d + 1)] \in NextStages(calls[i + d])
      BY <2>5, <3>1 DEF PipelineInv, Called, n
    <3>3. calls[i + (d + 1)] \in PipelineStages
      BY <1>2, <3>1
    <3> QED BY <1>1, <2>3, <3>2, <3>3 DEF ClosedStages
  <2>6. Nat \subseteq N
    <3> HIDE DEF N
    <3> QED BY <2>4, <2>5, Induction
  <2>7. n - i \in Nat /\ i + (n - i) = n /\ n <= n
    BY <1>2
  <2>8. calls[n] \in C
    BY <2>6, <2>7
  <2>9. calls[i] \in ToSet(calls) /\ calls[i] \in ToSet(transitions[calls[n]])
    BY <1>2, <2>2 DEF ToSet, NextStages
  <2> QED BY <2>1, <2>8, <2>9 DEF C
<1>6. Validate = "unreachable" <=>
        root # NoStage /\ ~(Range(stageNamed) \subseteq LeadsTo(root))
  <2>1. CASE root = NoStage
    BY <2>1 DEF Validate
  <2>2. CASE root # NoStage
    <3>1. root \in PipelineStages
      BY <1>1, <2>2 DEF PipelineTypes
    <3>2. MarkReachable(root) = LeadsTo(root)
      BY <1>1, <3>1, MarksReachable
    <3>3. Validate = "unreachable" <=> \E k \in DOMAIN stageNamed : stageNamed[k] \notin LeadsTo(root)
      BY <2>2, <3>2 DEF Validate
    <3> QED BY <2>2, <3>3 DEF Range
  <2> QED BY <2>1, <2>2
<1> QED BY <1>3, <1>4, <1>5, <1>6 DEF PipelineExact

--------------------------------------------------------------------------------
(* A step is one of the part that is used, which leaves the others alone.  *)
LEMMA PartStep ==
  ASSUME StructuresNext
  PROVE  /\ part' = part
         /\ IF part = "lfu" THEN Next ELSE UNCHANGED vars
         /\ part = "caches" => CachesNext
         /\ part = "balancer" => LoadBalancerNext
         /\ part = "union" => UnionFindNext
         /\ part = "pipeline" => PipelineNext
         /\ part = "queues" => QueuesNext
         /\ part = "lockfree" => QueueNext
<1> PICK p \in Parts : /\ part = p /\ part' = part
                       /\ Leaves("lfu", vars)
                       /\ p = "lfu" => Next
                       /\ p = "caches" => CachesNext
                       /\ p = "balancer" => LoadBalancerNext
                       /\ p = "union" => UnionFindNext
                       /\ p = "pipeline" => PipelineNext
                       /\ p = "queues" => QueuesNext
                       /\ p = "lockfree" => QueueNext
  BY DEF StructuresNext, In, Parts
<1> QED BY DEF Leaves

(* The LFU cache: every step keeps its invariant, and a step that evicts   *)
(* evicts what is least used.                                              *)
LEMMA LFUKept ==
  ASSUME part = "lfu" => LFUInv, [StructuresNext]_allVars
  PROVE  (part = "lfu" => LFUInv)' /\ [EvictsLeast]_vars
<1>1. part' = part /\ (IF part = "lfu" THEN [Next]_vars ELSE UNCHANGED vars)
  <2>1. CASE StructuresNext
    BY <2>1, PartStep
  <2>2. CASE UNCHANGED allVars
    BY <2>2 DEF allVars
  <2> QED BY <2>1, <2>2
<1>2. CASE part = "lfu"
  BY <1>1, <1>2, LFUStep
<1>3. CASE part # "lfu"
  BY <1>1, <1>3
<1> QED BY <1>2, <1>3

(* LFU and DynamicLFU: whatever is read, set, deleted and cleared, and     *)
(* however often the cache is resized, a key is in the list of its         *)
(* frequency, once, and in no other, nothing is used less often than       *)
(* minFreq says, and no more is cached than the capacity allows, as long   *)
(* as no resize has lowered it.                                            *)
THEOREM CacheIsExact == StructuresSpec => []LFUExact
<1> DEFINE I == part = "lfu" => LFUInv
<1>1. StructuresInit => I
  BY LFUInit DEF StructuresInit
<1>2. I /\ [StructuresNext]_allVars => I'
  BY LFUKept
<1>3. I => LFUExact
  BY LFUInvImplies DEF LFUExact
<1> QED BY <1>1, <1>2, <1>3, PTL DEF StructuresSpec

(* LFU.Set and LFU.Resize: what a step evicts was used no more often than  *)
(* anything it keeps, and of two keys used as often it evicts the one that *)
(* was used longer ago.                                                    *)
THEOREM LeastUsedIsEvicted == StructuresSpec => EvictsLeastUsed
<1> DEFINE I == part = "lfu" => LFUInv
<1>1. StructuresInit => I
  BY LFUInit DEF StructuresInit
<1>2. I /\ [StructuresNext]_allVars => I' /\ [EvictsLeast]_vars
  BY LFUKept
<1> QED BY <1>1, <1>2, PTL DEF StructuresSpec, EvictsLeastUsed

(* LRUCache and HashtableCache: with any number of readers between looking *)
(* at an entry and removing it, every key of the LRU cache is in evictList *)
(* once, in the order of use, and what an LRU reader removed although it   *)
(* was new was stored after that reader looked; the hashtable, whose reader*)
(* looks again, loses nothing.                                             *)
THEOREM CachesAreExact == StructuresSpec => []TTLExact
<1> DEFINE I == part = "caches" => CachesInv
<1>1. StructuresInit => I
  BY CachesInitInv DEF StructuresInit
<1>2. I /\ [StructuresNext]_allVars => I'
  <2> SUFFICES ASSUME I, [StructuresNext]_allVars, part' = "caches" PROVE CachesInv'
    OBVIOUS
  <2>1. CASE StructuresNext
    BY <2>1, PartStep, CachesStep
  <2>2. CASE UNCHANGED allVars
    BY <2>2, CachesStep DEF allVars
  <2> QED BY <2>1, <2>2
<1>3. I => TTLExact
  BY CachesInvImplies DEF TTLExact
<1> QED BY <1>1, <1>2, <1>3, PTL DEF StructuresSpec

(* LoadBalancer.SelectTarget: wherever the index is when targets are added *)
(* or removed, or become available or unavailable, from then on, for as    *)
(* long as the same ones are available, they take turns: none is selected  *)
(* twice more than another.                                                *)
THEOREM TargetsAreFair == StructuresSpec => []TargetsTakeTurns
<1> DEFINE I == part = "balancer" => BalancerInv
<1>1. StructuresInit => I
  BY BalancerInit DEF StructuresInit
<1>2. I /\ [StructuresNext]_allVars => I'
  <2> SUFFICES ASSUME I, [StructuresNext]_allVars, part' = "balancer" PROVE BalancerInv'
    OBVIOUS
  <2>1. CASE StructuresNext
    BY <2>1, PartStep, BalancerStep
  <2>2. CASE UNCHANGED allVars
    BY <2>2, BalancerStep DEF allVars
  <2> QED BY <2>1, <2>2
<1>3. I => TargetsTakeTurns
  BY BalancerInvImplies DEF TargetsTakeTurns
<1> QED BY <1>1, <1>2, <1>3, PTL DEF StructuresSpec

(* UnionFind: however many goroutines ask whether elements are connected,  *)
(* each halfway along a path that the others compress, the trees stay      *)
(* trees within the blocks that the unions made, ranks rise towards the    *)
(* root, the count is that of the blocks, and nobody is misled.            *)
(* BasePipeline: Execute calls no stage twice and each by a transition of  *)
(* the one before, and reports a cycle only if there is one, though stages *)
(* change the pipeline that executes them; Validate reports unreachable    *)
(* stages exactly if one that is registered is not reached from the root.  *)
THEOREM ConnectionsAreExact == StructuresSpec => []ConnectionsExact
<1> DEFINE U == part = "union" => UnionInv
           P == part = "pipeline" => PipelineInv
<1>1. StructuresInit => U /\ P
  BY UnionInit, PipelineInitInv DEF StructuresInit
<1>2. U /\ P /\ [StructuresNext]_allVars => U' /\ P'
  <2>1. ASSUME U, [StructuresNext]_allVars, part' = "union" PROVE UnionInv'
    <3>1. CASE StructuresNext
      BY <2>1, <3>1, PartStep, UnionStep
    <3>2. CASE UNCHANGED allVars
      BY <2>1, <3>2, UnionStep DEF allVars
    <3> QED BY <2>1, <3>1, <3>2
  <2>2. ASSUME P, [StructuresNext]_allVars, part' = "pipeline" PROVE PipelineInv'
    <3>1. CASE StructuresNext
      BY <2>2, <3>1, PartStep, PipelineStep
    <3>2. CASE UNCHANGED allVars
      BY <2>2, <3>2, PipelineStep DEF allVars
    <3> QED BY <2>2, <3>1, <3>2
  <2> QED BY <2>1, <2>2
<1>3. U /\ P => ConnectionsExact
  BY UnionInvImplies, PipelineInvImplies DEF ConnectionsExact
<1> QED BY <1>1, <1>2, <1>3, PTL DEF StructuresSpec

(* LockFreeQueue: Pop says that nothing is there only if that was so at    *)
(* some moment of the call.  ChannelQueue and SliceQueue: whoever pushes,  *)
(* pops and peeks at the same time, each element pushed is queued, popped  *)
(* or in one hand, and before the first Peek of a channel they leave in    *)
(* the order in which they came.  DequeList: forward and backward along    *)
(* the links one finds what was pushed to either end and not popped.       *)
THEOREM QueuesAreExact == StructuresSpec => []QueuesExact
<1> DEFINE I == /\ part = "lockfree" => LockFreeInv
                /\ part = "queues" => ChannelInv /\ DequeInv
<1>1. StructuresInit => I
  BY LockFreeInit, QueuesInitInv DEF StructuresInit
<1>2. I /\ [StructuresNext]_allVars => I'
  <2>1. ASSUME part = "lockfree" => LockFreeInv, [StructuresNext]_allVars, part' = "lockfree"
        PROVE  LockFreeInv'
    <3>1. CASE StructuresNext
      BY <2>1, <3>1, PartStep, LockFreeStep
    <3>2. CASE UNCHANGED allVars
      BY <2>1, <3>2, LockFreeStep DEF allVars
    <3> QED BY <2>1, <3>1, <3>2
  <2>2. ASSUME part = "queues" => ChannelInv /\ DequeInv, [StructuresNext]_allVars,
               part' = "queues"
        PROVE  ChannelInv' /\ DequeInv'
    <3>1. CASE StructuresNext
      BY <2>2, <3>1, PartStep, ChannelStep, DequeStep
    <3>2. CASE UNCHANGED allVars
      BY <2>2, <3>2, ChannelStep, DequeStep DEF allVars
    <3> QED BY <2>2, <3>1, <3>2
  <2> QED BY <2>1, <2>2
<1>3. I => QueuesExact
  BY LockFreeInvImplies, QueuesInvImplies DEF QueuesExact
<1> QED BY <1>1, <1>2, <1>3, PTL DEF StructuresSpec
================================================================================
