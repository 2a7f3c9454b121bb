--------------------------- MODULE FlushBuffer_proofs --------------------------
(***************************************************************************)
(* The flush buffer keeps its promises for any number of clients, any      *)
(* capacity and any flushFunc: it stays within its capacity, an item is in *)
(* one place only, items keep their order, and Stop leaves nothing of what *)
(* it found.  The four hold by one inductive invariant, FlushBufferInv,    *)
(* which says where each item is: OnePlace.  An action of the buffer moves *)
(* the items of one place to another one, or passes new ones in, and there *)
(* is a lemma on sets for each such move.                                  *)
(***************************************************************************)
EXTENDS FlushBuffer, SequenceTheorems, FiniteSetTheorems, TLAPS

--------------------------------------------------------------------------------
(* Sequences and finite sets.                                              *)
(* A sequence without repetitions has as many elements as it is long.      *)
LEMMA SequenceSize ==
  ASSUME NEW S, NEW s \in Seq(S), IsInjective(s)
  PROVE  IsFiniteSet(ToSet(s)) /\ Cardinality(ToSet(s)) = Len(s)
<1>1. Len(s) \in Nat /\ DOMAIN s = 1 .. Len(s) /\ s \in [1 .. Len(s) -> S]
  BY LenProperties
<1>2. s \in Bijection(1 .. Len(s), ToSet(s))
  <2>1. s \in [1 .. Len(s) -> ToSet(s)]
    BY <1>1 DEF ToSet
  <2>2. \A y \in ToSet(s) : \E i \in 1 .. Len(s) : s[i] = y
    BY <1>1 DEF ToSet
  <2> QED BY <1>1, <2>1, <2>2 DEF Bijection, Injection, Surjection, IsInjective
<1>3. IsFiniteSet(1 .. Len(s)) /\ Cardinality(1 .. Len(s)) = Len(s)
  <2>1. 1 \in Int /\ Len(s) \in Int
    BY <1>1
  <2>2. /\ IsFiniteSet(1 .. Len(s))
        /\ Cardinality(1 .. Len(s)) = IF 1 > Len(s) THEN 0 ELSE Len(s) - 1 + 1
    BY <2>1, FS_Interval, Zenon
  <2> QED BY <1>1, <2>2
<1> QED BY <1>2, <1>3, FS_Bijection, Zenon DEF ExistsBijection

(* Two sets that share nothing have as many elements as both.              *)
LEMMA DisjointSize ==
  ASSUME NEW S, NEW T, IsFiniteSet(S), IsFiniteSet(T), S \cap T = {}
  PROVE  /\ IsFiniteSet(S \cup T) /\ Cardinality(S) \in Nat /\ Cardinality(T) \in Nat
         /\ Cardinality(S \cup T) = Cardinality(S) + Cardinality(T)
<1>1. Cardinality(S) \in Nat /\ Cardinality(T) \in Nat
  BY FS_CardinalityType
<1>2. /\ IsFiniteSet(S \cup T)
      /\ Cardinality(S \cup T) = Cardinality(S) + Cardinality(T) - Cardinality(S \cap T)
  BY FS_Union
<1>3. Cardinality(S \cap T) = 0
  BY FS_EmptySet
<1> QED BY <1>1, <1>2, <1>3

(* The numbers from 1 on.                                                  *)
LEMMA CountedFromOne ==
  ASSUME NEW n \in Nat
  PROVE  IsFiniteSet(1 .. n) /\ Cardinality(1 .. n) = n
<1>1. 1 \in Int /\ n \in Int
  OBVIOUS
<1>2. IsFiniteSet(1 .. n) /\ Cardinality(1 .. n) = IF 1 > n THEN 0 ELSE n - 1 + 1
  BY <1>1, FS_Interval, Zenon
<1> QED BY <1>2

(* A sequence is cut in two: what was in it is in one of the pieces, and   *)
(* in one only if it had no repetitions.                                   *)
LEMMA CutInTwo ==
  ASSUME NEW S, NEW s \in Seq(S), NEW k \in 0 .. Len(s)
  PROVE  LET a == SubSeq(s, 1, k)
             b == SubSeq(s, k + 1, Len(s))
         IN  /\ a \in Seq(S) /\ Len(a) = k /\ b \in Seq(S) /\ Len(b) = Len(s) - k
             /\ ToSet(a) \cup ToSet(b) = ToSet(s)
             /\ IsInjective(s) =>
                  IsInjective(a) /\ IsInjective(b) /\ ToSet(a) \cap ToSet(b) = {}
<1> DEFINE a == SubSeq(s, 1, k)
           n == k + 1
           b == SubSeq(s, n, Len(s))
<1>1. Len(s) \in Nat /\ DOMAIN s = 1 .. Len(s) /\ \A i \in 1 .. Len(s) : s[i] \in S
  BY LenProperties, ElementOfSeq
<1>a. n \in 1 .. Len(s) + 1 /\ n = k + 1 /\ k \in Nat /\ k <= Len(s)
  BY <1>1
<1>b. /\ a \in Seq(S) /\ Len(a) = IF 1 <= k THEN k - 1 + 1 ELSE 0
      /\ \A i \in 1 .. k - 1 + 1 : a[i] = s[1 + i - 1]
  <2>1. 1 \in Int /\ k \in Int /\ \A i \in 1 .. k : s[i] \in S
    BY <1>1
  <2> QED BY <2>1, SubSeqProperties
<1>c. /\ b \in Seq(S) /\ Len(b) = IF n <= Len(s) THEN Len(s) - n + 1 ELSE 0
      /\ \A i \in 1 .. Len(s) - n + 1 : b[i] = s[n + i - 1]
  <2> HIDE DEF n
  <2>1. n \in Int /\ Len(s) \in Int /\ \A i \in n .. Len(s) : s[i] \in S
    BY <1>1, <1>a
  <2> QED BY <2>1, SubSeqProperties
<1> HIDE DEF a, b, n
<1>2. a \in Seq(S) /\ Len(a) = k /\ \A i \in 1 .. k : a[i] = s[i]
  BY <1>1, <1>a, <1>b
<1>3. b \in Seq(S) /\ Len(b) = Len(s) - k /\ \A i \in 1 .. Len(s) - k : b[i] = s[k + i]
  <2>1. Len(b) = Len(s) - k
    BY <1>1, <1>a, <1>c
  <2>2. ASSUME NEW i \in 1 .. Len(s) - k PROVE b[i] = s[k + i]
    <3>1. i \in 1 .. Len(s) - n + 1 /\ n + i - 1 = k + i
      BY <1>1, <1>a
    <3> QED BY <1>c, <3>1
  <2> QED BY <1>c, <2>1, <2>2
<1>4. DOMAIN a = 1 .. k /\ DOMAIN b = 1 .. Len(s) - k
  BY <1>2, <1>3, LenProperties
<1>5. ToSet(a) = {s[i] : i \in 1 .. k}
  BY <1>2, <1>4 DEF ToSet
<1>6. ToSet(b) = {s[i] : i \in k + 1 .. Len(s)}
  <2>1. ASSUME NEW j \in k + 1 .. Len(s) PROVE \E i \in DOMAIN b : b[i] = s[j]
    <3>1. j - k \in 1 .. Len(s) - k /\ k + (j - k) = j
      BY <1>1, <1>a
    <3>2. b[j - k] = s[j]
      BY <1>3, <3>1
    <3> QED BY <1>4, <3>1, <3>2
  <2>2. ASSUME NEW i \in DOMAIN b PROVE \E j \in k + 1 .. Len(s) : b[i] = s[j]
    <3>1. k + i \in k + 1 .. Len(s) /\ i \in 1 .. Len(s) - k
      BY <1>1, <1>4, <1>a
    <3> QED BY <1>3, <3>1
  <2> QED BY <2>1, <2>2 DEF ToSet
<1>7. 1 .. Len(s) = 1 .. k \cup k + 1 .. Len(s) /\ 1 .. k \cap k + 1 .. Len(s) = {}
  BY <1>1
<1>8. ToSet(a) \cup ToSet(b) = ToSet(s)
  BY <1>1, <1>5, <1>6, <1>7 DEF ToSet
<1>9. ASSUME IsInjective(s)
      PROVE  IsInjective(a) /\ IsInjective(b) /\ ToSet(a) \cap ToSet(b) = {}
  <2>1. \A i, j \in 1 .. Len(s) : s[i] = s[j] => i = j
    BY <1>1, <1>9 DEF IsInjective
  <2>2. IsInjective(a)
    BY <1>1, <1>2, <1>4, <2>1 DEF IsInjective
  <2>3. IsInjective(b)
    <3>1. ASSUME NEW i \in DOMAIN b, NEW j \in DOMAIN b, b[i] = b[j] PROVE i = j
      <4>1. /\ k + i \in 1 .. Len(s) /\ k + j \in 1 .. Len(s)
            /\ i \in Int /\ j \in Int /\ k \in Int
        BY <1>1, <1>4
      <4>2. s[k + i] = s[k + j]
        BY <1>3, <1>4, <3>1
      <4>3. k + i = k + j
        BY <2>1, <4>1, <4>2
      <4> QED BY <4>1, <4>3
    <3> QED BY <3>1 DEF IsInjective
  <2>4. ToSet(a) \cap ToSet(b) = {}
    BY <1>5, <1>6, <1>7, <2>1
  <2> QED BY <2>2, <2>3, <2>4
<1> QED BY <1>2, <1>3, <1>8, <1>9 DEF a, b, n

(* Two sequences without repetitions that share nothing, one after the     *)
(* other.                                                                  *)
LEMMA Joined ==
  ASSUME NEW S, NEW s \in Seq(S), NEW t \in Seq(S), IsInjective(s), IsInjective(t),
         ToSet(s) \cap ToSet(t) = {}
  PROVE  /\ s \o t \in Seq(S) /\ Len(s \o t) = Len(s) + Len(t)
         /\ IsInjective(s \o t) /\ ToSet(s \o t) = ToSet(s) \cup ToSet(t)
<1> DEFINE u == s \o t
<1>1. /\ u \in Seq(S) /\ Len(u) = Len(s) + Len(t)
      /\ \A i \in 1 .. Len(s) + Len(t) : u[i] = IF i <= Len(s) THEN s[i] ELSE t[i - Len(s)]
  BY ConcatProperties
<1>2. /\ Len(s) \in Nat /\ DOMAIN s = 1 .. Len(s) /\ Len(t) \in Nat /\ DOMAIN t = 1 .. Len(t)
      /\ DOMAIN u = 1 .. Len(s) + Len(t)
  BY <1>1, LenProperties
<1> HIDE DEF u
<1>3. ASSUME NEW i \in 1 .. Len(s) PROVE i \in DOMAIN u /\ u[i] = s[i]
  <2>1. i \in 1 .. Len(s) + Len(t) /\ i <= Len(s)
    BY <1>2
  <2> QED BY <1>1, <1>2, <2>1
<1>4. ASSUME NEW i \in 1 .. Len(t) PROVE Len(s) + i \in DOMAIN u /\ u[Len(s) + i] = t[i]
  <2>1. /\ Len(s) + i \in 1 .. Len(s) + Len(t) /\ ~(Len(s) + i <= Len(s))
        /\ (Len(s) + i) - Len(s) = i
    BY <1>2
  <2> QED BY <1>1, <1>2, <2>1
<1>5. \A i \in DOMAIN u : \/ i \in 1 .. Len(s)
                          \/ i - Len(s) \in 1 .. Len(t) /\ u[i] = t[i - Len(s)] /\ i > Len(s)
  BY <1>1, <1>2
<1>6. ToSet(u) = ToSet(s) \cup ToSet(t)
  <2>1. ASSUME NEW x \in ToSet(s) \cup ToSet(t) PROVE x \in ToSet(u)
    <3>1. CASE x \in ToSet(s)
      BY <1>2, <1>3, <3>1 DEF ToSet
    <3>2. CASE x \in ToSet(t)
      BY <1>2, <1>4, <3>2 DEF ToSet
    <3> QED BY <2>1, <3>1, <3>2
  <2>2. ASSUME NEW i \in DOMAIN u PROVE u[i] \in ToSet(s) \cup ToSet(t)
    <3>1. CASE i \in 1 .. Len(s)
      BY <1>2, <1>3, <3>1 DEF ToSet
    <3>2. CASE i - Len(s) \in 1 .. Len(t) /\ u[i] = t[i - Len(s)]
      BY <1>2, <3>2 DEF ToSet
    <3> QED BY <1>5, <3>1, <3>2
  <2> QED BY <2>1, <2>2 DEF ToSet
<1>7. ASSUME NEW i \in DOMAIN u, NEW j \in DOMAIN u, u[i] = u[j] PROVE i = j
  <2>1. \A k \in 1 .. Len(s), l \in 1 .. Len(t) : s[k] # t[l]
    BY <1>2 DEF ToSet
  <2>2. CASE i \in 1 .. Len(s) /\ j \in 1 .. Len(s)
    BY <1>2, <1>3, <1>7, <2>2 DEF IsInjective
  <2>3. CASE i \notin 1 .. Len(s) /\ j \notin 1 .. Len(s)
    <3>1. t[i - Len(s)] = t[j - Len(s)]
      BY <1>5, <1>7, <2>3
    <3>2. i - Len(s) = j - Len(s)
      BY <1>2, <1>5, <2>3, <3>1 DEF IsInjective
    <3> QED BY <1>2, <3>2
  <2> QED BY <1>3, <1>5, <1>7, <2>1, <2>2, <2>3
<1> QED BY <1>1, <1>6, <1>7 DEF u, IsInjective

--------------------------------------------------------------------------------
(* Where the items are: d in the buffer, b[g] in the batch of goroutine g, *)
(* r[c] with the AddBatch of client c, and s, f and l with those flushed,  *)
(* those whose flush failed and those given up.  Each of the n items       *)
(* passed in is somewhere, ...                                             *)
Somewhere(n, d, b, r, s, f, l) ==
  \A x : x \in 1 .. n <=> \/ x \in d \/ x \in s \/ x \in f \/ x \in l
                          \/ \E g \in Goroutines : x \in b[g]
                          \/ \E c \in Clients : x \in r[c]

(* ... and in no second place.                                             *)
NowhereElse(d, b, r, s, f, l) ==
  /\ \A x \in d : x \notin s /\ x \notin f /\ x \notin l
  /\ \A x \in s : x \notin f /\ x \notin l
  /\ \A x \in f : x \notin l
  /\ \A g \in Goroutines : \A x \in b[g] :
       /\ x \notin d /\ x \notin s /\ x \notin f /\ x \notin l
       /\ \A h \in Goroutines \ {g} : x \notin b[h]
  /\ \A c \in Clients : \A x \in r[c] :
       /\ x \notin d /\ x \notin s /\ x \notin f /\ x \notin l
       /\ \A g \in Goroutines : x \notin b[g]
       /\ \A e \in Clients \ {c} : x \notin r[e]

OnePlace(n, d, b, r, s, f, l) ==
  Somewhere(n, d, b, r, s, f, l) /\ NowhereElse(d, b, r, s, f, l)

(* Only one place of a kind changes.                                       *)
Changes(q, p, x, items) == q = [p EXCEPT ![x] = items]

(* Add and AddBatch: a client that has none gets the next m items.         *)
LEMMA ItemsPassed ==
  ASSUME NEW n \in Nat, NEW m \in Nat, NEW d, NEW b, NEW r, NEW s, NEW f, NEW l,
         NEW c \in Clients, r[c] = {}, NEW q, DOMAIN r = Clients,
         Changes(q, r, c, n + 1 .. n + m),
         OnePlace(n, d, b, r, s, f, l)
  PROVE  OnePlace(n + m, d, b, q, s, f, l)
<1>1. \A x : x \in 1 .. n + m <=> x \in 1 .. n \/ x \in n + 1 .. n + m
  OBVIOUS
<1>2. \A x \in n + 1 .. n + m : x \notin 1 .. n
  OBVIOUS
<1> DEFINE new == n + 1 .. n + m
<1>3. q[c] = new /\ \A e \in Clients \ {c} : q[e] = r[e]
  BY DEF Changes
<1> HIDE DEF new
<1>4. Somewhere(n + m, d, b, q, s, f, l)
  BY <1>1, <1>3 DEF OnePlace, Somewhere, new
<1>5. NowhereElse(d, b, q, s, f, l)
  BY <1>2, <1>3 DEF OnePlace, Somewhere, NowhereElse, new
<1> QED BY <1>4, <1>5 DEF OnePlace

(* They, or some of them, are appended to the buffer.                      *)
LEMMA ItemsAppended ==
  ASSUME NEW n, NEW d, NEW b, NEW r, NEW s, NEW f, NEW l, NEW c \in Clients,
         DOMAIN r = Clients, NEW k, NEW m, k \cup m = r[c], k \cap m = {},
         NEW q, Changes(q, r, c, m), NEW e, e = d \cup k,
         OnePlace(n, d, b, r, s, f, l)
  PROVE  OnePlace(n, e, b, q, s, f, l)
<1>1. q[c] = m /\ \A o \in Clients \ {c} : q[o] = r[o]
  BY DEF Changes
<1>2. Somewhere(n, e, b, q, s, f, l)
  BY <1>1 DEF OnePlace, Somewhere
<1>3. NowhereElse(e, b, q, s, f, l)
  BY <1>1 DEF OnePlace, NowhereElse
<1> QED BY <1>2, <1>3 DEF OnePlace

(* A flush takes all that the buffer holds, ...                            *)
LEMMA ItemsTaken ==
  ASSUME NEW n, NEW d, NEW b, NEW r, NEW s, NEW f, NEW l, NEW g \in Goroutines,
         DOMAIN b = Goroutines, b[g] = {}, NEW q, Changes(q, b, g, d),
         OnePlace(n, d, b, r, s, f, l)
  PROVE  OnePlace(n, {}, q, r, s, f, l)
<1>1. q[g] = d /\ \A h \in Goroutines \ {g} : q[h] = b[h]
  BY DEF Changes
<1>2. Somewhere(n, {}, q, r, s, f, l)
  BY <1>1 DEF OnePlace, Somewhere
<1>3. NowhereElse({}, q, r, s, f, l)
  BY <1>1 DEF OnePlace, NowhereElse
<1> QED BY <1>2, <1>3 DEF OnePlace

(* ... and when flushFunc returns, they have been flushed, or not.         *)
LEMMA ItemsFlushed ==
  ASSUME NEW n, NEW d, NEW b, NEW r, NEW s, NEW f, NEW l, NEW g \in Goroutines,
         DOMAIN b = Goroutines, NEW q, Changes(q, b, g, {}),
         OnePlace(n, d, b, r, s, f, l)
  PROVE  OnePlace(n, d, q, r, s \cup b[g], f, l) /\ OnePlace(n, d, q, r, s, f \cup b[g], l)
<1>1. q[g] = {} /\ \A h \in Goroutines \ {g} : q[h] = b[h]
  BY DEF Changes
<1>2. Somewhere(n, d, q, r, s \cup b[g], f, l) /\ Somewhere(n, d, q, r, s, f \cup b[g], l)
  BY <1>1 DEF OnePlace, Somewhere
<1>3. NowhereElse(d, q, r, s \cup b[g], f, l) /\ NowhereElse(d, q, r, s, f \cup b[g], l)
  BY <1>1 DEF OnePlace, NowhereElse
<1> QED BY <1>2, <1>3 DEF OnePlace

(* An AddBatch gives up what it has left.                                  *)
LEMMA ItemsGivenUp ==
  ASSUME NEW n, NEW d, NEW b, NEW r, NEW s, NEW f, NEW l, NEW c \in Clients,
         DOMAIN r = Clients, NEW q, Changes(q, r, c, {}),
         OnePlace(n, d, b, r, s, f, l)
  PROVE  OnePlace(n, d, b, q, s, f, l \cup r[c])
<1>1. q[c] = {} /\ \A o \in Clients \ {c} : q[o] = r[o]
  BY DEF Changes
<1>2. Somewhere(n, d, b, q, s, f, l \cup r[c])
  BY <1>1 DEF OnePlace, Somewhere
<1>3. NowhereElse(d, b, q, s, f, l \cup r[c])
  BY <1>1 DEF OnePlace, NowhereElse
<1> QED BY <1>2, <1>3 DEF OnePlace

--------------------------------------------------------------------------------
(* The invariant.                                                          *)
Locations == {"new", "idle", "flushing", "waiting", "stopped", "select", "lock", "exited"}

BufferTypeOK ==
  /\ data \in Seq(Nat) /\ accepted \in Seq(Nat) /\ extracted \in Seq(Nat)
  /\ pc \in [Goroutines -> Locations]
  /\ batch \in [Goroutines -> Seq(Nat)] /\ rest \in [Clients -> Seq(Nat)]
  /\ made \in Nat

Batches(b) == [g \in Goroutines |-> ToSet(b[g])]
Rests(r) == [c \in Clients |-> ToSet(r[c])]
Placed == OnePlace(made, ToSet(data), Batches(batch), Rests(rest), delivered, failed, lost)

(* What can get into the buffer has no item twice.                         *)
NoRepetitions == IsInjective(data) /\ \A c \in Clients : IsInjective(rest[c])

(* Only flushFunc holds a batch, and only an Add or AddBatch that waits    *)
(* for it has something left.                                              *)
Resting ==
  /\ \A g \in Goroutines : pc[g] # "flushing" => batch[g] = <<>>
  /\ \A c \in Clients : pc[c] = "idle" => rest[c] = <<>>

(* What a Stop found in the buffer is in nobody's rest, so that it cannot  *)
(* get into the buffer again; it is not there any more once the Stop has   *)
(* begun its own flush.                                                    *)
Emptied(c) == pc[c] = "stopped" \/ (c \in stopping /\ pc[c] = "flushing")
LeftoversGone ==
  \A c \in Clients :
    /\ \A e \in Clients : leftover[c] \cap ToSet(rest[e]) = {}
    /\ pc[c] = "idle" => c \notin stopping
    /\ Emptied(c) => leftover[c] \cap ToSet(data) = {}

LeftoversMade == \A c \in Clients : \A x \in leftover[c] : x \in 1 .. made

FlushBufferInv ==
  /\ BufferTypeOK /\ Placed /\ NoRepetitions /\ Bounded /\ OrderKept /\ Resting
  /\ LeftoversGone /\ LeftoversMade

(* The empty sequence.                                                     *)
LEMMA Empty == ToSet(<<>>) = {} /\ IsInjective(<<>>) /\ <<>> \in Seq(Nat) /\ Len(<<>>) = 0
<1>1. <<>> \in Seq(Nat) /\ Len(<<>>) = 0
  BY EmptySeq
<1>2. DOMAIN <<>> = {}
  BY <1>1, LenProperties
<1> QED BY <1>1, <1>2 DEF ToSet, IsInjective

(* A new buffer.                                                           *)
LEMMA FlushBufferInitial == Init => FlushBufferInv
<1> SUFFICES ASSUME Init PROVE FlushBufferInv
  OBVIOUS
<1>1. BufferTypeOK
  BY Empty, FlushBufferAssumption DEF Init, BufferTypeOK, Locations, Goroutines
<1>2. (\A g \in Goroutines : Batches(batch)[g] = {}) /\ (\A c \in Clients : Rests(rest)[c] = {})
  BY Empty DEF Init, Batches, Rests
<1>3. Placed
  BY <1>2, Empty DEF Init, Placed, OnePlace, Somewhere, NowhereElse
<1>4. NoRepetitions /\ Bounded /\ LeftoversGone /\ LeftoversMade
  BY Empty DEF Init, NoRepetitions, Bounded, LeftoversGone, LeftoversMade, Emptied
<1>5. OrderKept /\ Resting
  BY Empty, ConcatEmptySeq DEF Init, OrderKept, Resting, Goroutines
<1> QED BY <1>1, <1>3, <1>4, <1>5 DEF FlushBufferInv

(* It says all that is promised of the buffer's contents: the places are   *)
(* finite, and what they hold adds up.                                     *)
LEMMA PlacesAddUp == FlushBufferInv => Bounded /\ Conserved /\ OrderKept /\ StopDrains
<1> SUFFICES ASSUME FlushBufferInv PROVE Conserved /\ StopDrains
  BY DEF FlushBufferInv
<1>1. /\ BufferTypeOK /\ NoRepetitions
      /\ Somewhere(made, ToSet(data), Batches(batch), Rests(rest), delivered, failed, lost)
      /\ NowhereElse(ToSet(data), Batches(batch), Rests(rest), delivered, failed, lost)
  BY DEF FlushBufferInv, Placed, OnePlace
<1>2. /\ \A g \in Goroutines : Batches(batch)[g] = ToSet(batch[g])
      /\ \A c \in Clients : Rests(rest)[c] = ToSet(rest[c])
  BY DEF Batches, Rests
<1>3. /\ \A x : x \in InFlight <=> \E g \in Goroutines : x \in ToSet(batch[g])
      /\ \A x : x \in Waiting <=> \E c \in Clients : x \in ToSet(rest[c])
  BY DEF InFlight, Waiting
<1> DEFINE D == ToSet(data)
<1>4. 1 .. made = D \cup InFlight \cup delivered \cup failed \cup lost \cup Waiting
  BY <1>1, <1>2, <1>3 DEF Somewhere
<1>5. /\ D \cap InFlight = {} /\ (D \cup InFlight) \cap delivered = {}
      /\ (D \cup InFlight \cup delivered) \cap failed = {}
      /\ (D \cup InFlight \cup delivered \cup failed) \cap lost = {}
      /\ (D \cup InFlight \cup delivered \cup failed \cup lost) \cap Waiting = {}
  BY <1>1, <1>2, <1>3 DEF NowhereElse
<1>6. made \in Nat /\ IsFiniteSet(1 .. made) /\ Cardinality(1 .. made) = made
  BY <1>1, CountedFromOne DEF BufferTypeOK
<1>7. IsFiniteSet(D) /\ Cardinality(D) = Len(data)
  BY <1>1, SequenceSize DEF BufferTypeOK, NoRepetitions
<1> HIDE DEF D
<1>8. /\ IsFiniteSet(InFlight) /\ IsFiniteSet(delivered) /\ IsFiniteSet(failed)
      /\ IsFiniteSet(lost) /\ IsFiniteSet(Waiting)
  BY <1>4, <1>6, FS_Subset
<1>9. made = Len(data) + Cardinality(InFlight) + Cardinality(delivered)
               + Cardinality(failed) + Cardinality(lost) + Cardinality(Waiting)
  <2>1. /\ IsFiniteSet(D \cup InFlight)
        /\ Cardinality(D \cup InFlight) = Len(data) + Cardinality(InFlight)
    BY <1>5, <1>7, <1>8, DisjointSize
  <2>2. /\ IsFiniteSet(D \cup InFlight \cup delivered)
        /\ Cardinality(D \cup InFlight \cup delivered)
             = Cardinality(D \cup InFlight) + Cardinality(delivered)
    BY <1>5, <1>8, <2>1, DisjointSize
  <2>3. /\ IsFiniteSet(D \cup InFlight \cup delivered \cup failed)
        /\ Cardinality(D \cup InFlight \cup delivered \cup failed)
             = Cardinality(D \cup InFlight \cup delivered) + Cardinality(failed)
    BY <1>5, <1>8, <2>2, DisjointSize
  <2>4. /\ IsFiniteSet(D \cup InFlight \cup delivered \cup failed \cup lost)
        /\ Cardinality(D \cup InFlight \cup delivered \cup failed \cup lost)
             = Cardinality(D \cup InFlight \cup delivered \cup failed) + Cardinality(lost)
    BY <1>5, <1>8, <2>3, DisjointSize
  <2>5. Cardinality(D \cup InFlight \cup delivered \cup failed \cup lost \cup Waiting)
          = Cardinality(D \cup InFlight \cup delivered \cup failed \cup lost)
              + Cardinality(Waiting)
    BY <1>5, <1>8, <2>4, DisjointSize
  <2> QED BY <1>4, <1>6, <2>1, <2>2, <2>3, <2>4, <2>5
<1>10. \A g, h \in Goroutines : g # h => ToSet(batch[g]) \cap ToSet(batch[h]) = {}
  BY <1>1, <1>2 DEF NowhereElse
<1>11. Conserved
  BY <1>4, <1>9, <1>10 DEF Conserved, D
<1>12. StopDrains
  BY DEF FlushBufferInv, LeftoversGone, Emptied, StopDrains
<1> QED BY <1>11, <1>12

--------------------------------------------------------------------------------
(* Its steps.  Batches and rests change one at a time.                     *)
LEMMA BatchChanges ==
  ASSUME BufferTypeOK, NEW g \in Goroutines, NEW s \in Seq(Nat), NEW b, Changes(b, batch, g, s)
  PROVE  /\ b \in [Goroutines -> Seq(Nat)] /\ b[g] = s
         /\ \A h \in Goroutines \ {g} : b[h] = batch[h]
         /\ Changes(Batches(b), Batches(batch), g, ToSet(s))
BY DEF BufferTypeOK, Batches, Changes

(* The same for the items that a client passes.                            *)
LEMMA RestChanges ==
  ASSUME BufferTypeOK, NEW c \in Clients, NEW s \in Seq(Nat), NEW r, Changes(r, rest, c, s)
  PROVE  /\ r \in [Clients -> Seq(Nat)] /\ r[c] = s
         /\ \A e \in Clients \ {c} : r[e] = rest[e]
         /\ Changes(Rests(r), Rests(rest), c, ToSet(s))
BY DEF BufferTypeOK, Rests, Changes

(* What BeginFlush does to the buffer and to the order.                    *)
LEMMA FlushBegins ==
  ASSUME BufferTypeOK, NEW g \in Goroutines, NEW d \in Seq(Nat), BeginFlush(g, d)
  PROVE  /\ data' = <<>> /\ extracted' \in Seq(Nat) /\ extracted' \o data' = extracted \o d
         /\ pc' \in [Goroutines -> Locations] /\ pc'[g] = "flushing"
         /\ \A h \in Goroutines \ {g} : pc'[h] = pc[h]
<1>1. data' = <<>> /\ extracted' = extracted \o d /\ pc' = [pc EXCEPT ![g] = "flushing"]
  BY DEF BeginFlush
<1>2. extracted' \in Seq(Nat) /\ extracted' \o <<>> = extracted'
  BY <1>1, ConcatProperties, ConcatEmptySeq DEF BufferTypeOK
<1> QED BY <1>1, <1>2 DEF BufferTypeOK, Locations

(* Add and AddBatch append as many items as have room, and keep the others *)
(* for after the flush that is then due.  They come from a place that is   *)
(* not one of the buffer's yet, r[c]; the batch of c, if it had one, has   *)
(* come back.                                                              *)
LEMMA ItemsGoIn ==
  ASSUME FlushBufferInv, NEW c \in Clients, NEW items \in Seq(Nat), IsInjective(items),
         NEW n, NEW yes, NEW no, NEW up,
         OnePlace(n, ToSet(data), [Batches(batch) EXCEPT ![c] = {}],
                  [Rests(rest) EXCEPT ![c] = ToSet(items)], yes, no, up),
         \A e \in Clients : leftover[e] \cap ToSet(items) = {},
         c \notin stopping, stopping' = stopping, leftover' = leftover,
         AppendItems(c, items)
  PROVE  /\ data' \in Seq(Nat) /\ accepted' \in Seq(Nat) /\ extracted' \in Seq(Nat)
         /\ pc' \in [Goroutines -> Locations]
         /\ batch' \in [Goroutines -> Seq(Nat)] /\ rest' \in [Clients -> Seq(Nat)]
         /\ OnePlace(n, ToSet(data'), Batches(batch'), Rests(rest'), yes, no, up)
         /\ NoRepetitions' /\ Bounded' /\ OrderKept' /\ Resting' /\ LeftoversGone'
<1> DEFINE room == IF Len(items) < Room THEN Len(items) ELSE Room
           now == SubSeq(items, 1, room)
           later == SubSeq(items, room + 1, Len(items))
           full == data \o now
           back == [Batches(batch) EXCEPT ![c] = {}]
           from == [Rests(rest) EXCEPT ![c] = ToSet(items)]
<1>1. /\ BufferTypeOK /\ NoRepetitions /\ Bounded /\ OrderKept /\ Resting /\ LeftoversGone
      /\ c \in Goroutines
  BY DEF FlushBufferInv, Goroutines
<1>2. Len(items) \in Nat /\ Len(data) \in Nat /\ Room \in Nat \ {0} /\ room \in 0 .. Len(items)
  BY <1>1, LenProperties, FlushBufferAssumption DEF BufferTypeOK, Room
<1>3. /\ accepted' = accepted \o now /\ rest' = [rest EXCEPT ![c] = later]
      /\ \/ Len(full) >= Capacity /\ BeginFlush(c, full)
         \/ /\ Len(full) < Capacity
            /\ data' = full /\ extracted' = extracted
            /\ pc' = [pc EXCEPT ![c] = "idle"]
            /\ batch' = [batch EXCEPT ![c] = <<>>]
  BY DEF AppendItems
<1>4. /\ now \in Seq(Nat) /\ Len(now) = room /\ later \in Seq(Nat) /\ Len(later) = Len(items) - room
      /\ ToSet(now) \cup ToSet(later) = ToSet(items)
      /\ IsInjective(now) /\ IsInjective(later) /\ ToSet(now) \cap ToSet(later) = {}
  <2> HIDE DEF room
  <2> QED BY <1>2, CutInTwo
<1>5. ToSet(data) \cap ToSet(items) = {} /\ from[c] = ToSet(items) /\ DOMAIN from = Clients
  BY DEF OnePlace, NowhereElse, Rests
<1>a. /\ OnePlace(n, ToSet(data), back, from, yes, no, up)
      /\ DOMAIN back = Goroutines /\ back[c] = {}
      /\ \A q, t : Changes(q, Rests(rest), c, t) => Changes(q, from, c, t)
      /\ \A q, t : Changes(q, Batches(batch), c, t) => Changes(q, back, c, t)
      /\ \A q : Changes(q, Batches(batch), c, {}) => q = back
  BY <1>1 DEF Batches, Rests, Changes
<1>6. (Len(data) < Capacity /\ room <= Capacity - Len(data)) \/ (data = <<>> /\ room <= 1)
  BY <1>1, <1>2, FlushBufferAssumption DEF Bounded, Room
<1>7. Len(data) + room < Capacity => room = Len(items)
  BY <1>1, <1>2, FlushBufferAssumption DEF Room
<1> HIDE DEF room, now, later, back, from
<1>8. /\ full \in Seq(Nat) /\ Len(full) = Len(data) + room /\ IsInjective(full)
      /\ ToSet(full) = ToSet(data) \cup ToSet(now)
  <2>1. ToSet(data) \cap ToSet(now) = {}
    BY <1>4, <1>5
  <2>2. data \in Seq(Nat) /\ IsInjective(data)
    BY <1>1 DEF BufferTypeOK, NoRepetitions
  <2>3. now \in Seq(Nat) /\ IsInjective(now)
    BY <1>4
  <2>4. full \in Seq(Nat) /\ Len(full) = Len(data) + Len(now) /\ IsInjective(full)
        /\ ToSet(full) = ToSet(data) \cup ToSet(now)
    BY <2>1, <2>2, <2>3, Joined
  <2> QED BY <1>4, <2>4
<1>9. accepted' \in Seq(Nat) /\ accepted' = extracted \o full
  <2>1. data \in Seq(Nat) /\ extracted \in Seq(Nat) /\ now \in Seq(Nat)
    BY <1>1, <1>4 DEF BufferTypeOK
  <2>2. accepted' = (extracted \o data) \o now
    BY <1>1, <1>3 DEF OrderKept
  <2>3. accepted' = extracted \o full
    <3>1. (extracted \o data) \o now = extracted \o (data \o now)
      <4> HIDE DEF full
      <4> DEFINE N == Nat
      <4>1. data \in Seq(N) /\ extracted \in Seq(N) /\ now \in Seq(N)
        BY <2>1
      <4> HIDE DEF N
      <4> QED BY <4>1
    <3> QED BY <2>2, <3>1
  <2>4. extracted \o full \in Seq(Nat)
    BY <1>8, <2>1, ConcatProperties
  <2> QED BY <2>3, <2>4
<1> HIDE DEF full
<1>10. Len(full) <= Capacity \/ Len(full) <= 1
  BY <1>2, <1>6, <1>8, Empty, FlushBufferAssumption
<1>11. /\ rest' \in [Clients -> Seq(Nat)] /\ rest'[c] = later
       /\ \A e \in Clients \ {c} : rest'[e] = rest[e]
       /\ Changes(Rests(rest'), from, c, ToSet(later))
  <2>1. Changes(rest', rest, c, later) /\ later \in Seq(Nat)
    BY <1>3, <1>4 DEF Changes
  <2>2. /\ rest' \in [Clients -> Seq(Nat)] /\ rest'[c] = later
        /\ \A e \in Clients \ {c} : rest'[e] = rest[e]
        /\ Changes(Rests(rest'), Rests(rest), c, ToSet(later))
    BY <1>1, <2>1, RestChanges
  <2> QED BY <1>a, <2>2
<1>12. OnePlace(n, ToSet(full), back, Rests(rest'), yes, no, up)
  <2>1. ToSet(now) \cup ToSet(later) = from[c] /\ ToSet(now) \cap ToSet(later) = {}
    BY <1>4, <1>5
  <2>2. ToSet(full) = ToSet(data) \cup ToSet(now)
    BY <1>8
  <2>3. Changes(Rests(rest'), from, c, ToSet(later)) /\ DOMAIN from = Clients
    BY <1>5, <1>11
  <2> QED BY <1>a, <2>1, <2>2, <2>3, ItemsAppended
<1>13. \A e \in Clients : \A x \in Clients : leftover[e] \cap ToSet(rest'[x]) = {}
  BY <1>1, <1>4, <1>11 DEF LeftoversGone
<1>14. \A e \in Clients \ {c} : Emptied(e) => leftover[e] \cap ToSet(full) = {}
  BY <1>1, <1>4, <1>8 DEF LeftoversGone
<1>15. \A e \in Clients : IsInjective(rest'[e])
  BY <1>1, <1>4, <1>11 DEF NoRepetitions
<1>16. CASE Len(full) >= Capacity /\ BeginFlush(c, full)
  <2>1. /\ data' = <<>> /\ extracted' \in Seq(Nat) /\ extracted' \o data' = extracted \o full
        /\ pc' \in [Goroutines -> Locations] /\ pc'[c] = "flushing"
        /\ \A h \in Goroutines \ {c} : pc'[h] = pc[h]
    BY <1>1, <1>8, <1>16, FlushBegins
  <2>2. /\ batch' \in [Goroutines -> Seq(Nat)] /\ batch'[c] = full
        /\ \A h \in Goroutines \ {c} : batch'[h] = batch[h]
        /\ Changes(Batches(batch'), back, c, ToSet(full))
    <3>1. Changes(batch', batch, c, full) /\ full \in Seq(Nat)
      BY <1>8, <1>16 DEF BeginFlush, Changes
    <3> QED BY <1>1, <1>a, <3>1, BatchChanges
  <2>3. OnePlace(n, ToSet(data'), Batches(batch'), Rests(rest'), yes, no, up)
    <3>1. DOMAIN back = Goroutines /\ back[c] = {} /\ ToSet(data') = {}
      BY <1>a, <2>1, Empty
    <3>2. OnePlace(n, {}, Batches(batch'), Rests(rest'), yes, no, up)
      BY <1>1, <1>12, <2>2, <3>1, ItemsTaken
    <3> QED BY <3>1, <3>2
  <2>4. NoRepetitions' /\ Bounded' /\ OrderKept'
    BY <1>1, <1>9, <1>10, <1>15, <2>1, <2>2, Empty DEF NoRepetitions, Bounded, OrderKept
  <2>5. Resting'
    BY <1>1, <1>11, <2>1, <2>2 DEF Resting, Goroutines
  <2>6. LeftoversGone'
    BY <1>1, <1>13, <2>1, Empty DEF LeftoversGone, Emptied, Goroutines
  <2> QED BY <1>9, <1>11, <2>1, <2>2, <2>3, <2>4, <2>5, <2>6, Empty
<1>17. CASE /\ Len(full) < Capacity
            /\ data' = full /\ extracted' = extracted
            /\ pc' = [pc EXCEPT ![c] = "idle"]
            /\ batch' = [batch EXCEPT ![c] = <<>>]
  <2>1. /\ pc' \in [Goroutines -> Locations] /\ pc'[c] = "idle"
        /\ \A h \in Goroutines \ {c} : pc'[h] = pc[h]
    BY <1>1, <1>17 DEF BufferTypeOK, Locations
  <2>2. /\ batch' \in [Goroutines -> Seq(Nat)] /\ batch'[c] = <<>>
        /\ \A h \in Goroutines \ {c} : batch'[h] = batch[h]
        /\ Batches(batch') = back
    <3>1. Changes(batch', batch, c, <<>>) /\ <<>> \in Seq(Nat) /\ ToSet(<<>>) = {}
      BY <1>17, Empty DEF Changes
    <3>2. /\ batch' \in [Goroutines -> Seq(Nat)] /\ batch'[c] = <<>>
          /\ \A h \in Goroutines \ {c} : batch'[h] = batch[h]
          /\ Changes(Batches(batch'), Batches(batch), c, ToSet(<<>>))
      BY <1>1, <3>1, BatchChanges
    <3> QED BY <1>a, <3>1, <3>2
  <2>3. NoRepetitions' /\ Bounded' /\ OrderKept'
    BY <1>1, <1>8, <1>9, <1>15, <1>17, <2>2, Empty, FlushBufferAssumption
    DEF NoRepetitions, Bounded, OrderKept
  <2>4. rest'[c] = <<>>
    BY <1>2, <1>4, <1>7, <1>8, <1>11, <1>17, EmptySeq
  <2>5. Resting'
    BY <1>1, <1>11, <2>1, <2>2, <2>4 DEF Resting, Goroutines
  <2>6. LeftoversGone'
    BY <1>1, <1>13, <1>14, <1>17, <2>1 DEF LeftoversGone, Emptied, Goroutines
  <2> QED BY <1>1, <1>8, <1>9, <1>11, <1>12, <1>17, <2>1, <2>2, <2>3, <2>5, <2>6
          DEF BufferTypeOK
<1> QED BY <1>3, <1>16, <1>17

(* flushFunc has returned: the batch is flushed, or has failed.            *)
LEMMA ItemsComeBack ==
  ASSUME FlushBufferInv, NEW g \in Goroutines, NEW ok \in BOOLEAN, FlushReturns(g, ok)
  PROVE  OnePlace(made, ToSet(data), [Batches(batch) EXCEPT ![g] = {}], Rests(rest),
                  delivered', failed', lost)
<1>1. /\ OnePlace(made, ToSet(data), Batches(batch), Rests(rest), delivered, failed, lost)
      /\ DOMAIN Batches(batch) = Goroutines /\ Batches(batch)[g] = ToSet(batch[g])
  BY DEF FlushBufferInv, Placed, Batches
<1> DEFINE back == [Batches(batch) EXCEPT ![g] = {}]
<1>2. Changes(back, Batches(batch), g, {})
  BY DEF Changes
<1> HIDE DEF back
<1>3. /\ OnePlace(made, ToSet(data), back, Rests(rest), delivered \cup Batches(batch)[g],
                  failed, lost)
      /\ OnePlace(made, ToSet(data), back, Rests(rest), delivered,
                  failed \cup Batches(batch)[g], lost)
  BY <1>1, <1>2, ItemsFlushed
<1>4. CASE ok
  <2>1. delivered' = delivered \cup Batches(batch)[g] /\ failed' = failed
    BY <1>1, <1>4 DEF FlushReturns
  <2> QED BY <1>3, <2>1 DEF back
<1>5. CASE ~ok
  <2>1. delivered' = delivered /\ failed' = failed \cup Batches(batch)[g]
    BY <1>1, <1>5 DEF FlushReturns
  <2> QED BY <1>3, <2>1 DEF back
<1> QED BY <1>4, <1>5

(* The goroutine forgets its batch, and goes on.                           *)
LEMMA FlushEnds ==
  ASSUME BufferTypeOK, NEW g \in Goroutines, NEW next \in Locations, EndFlush(g, next)
  PROVE  /\ pc' \in [Goroutines -> Locations] /\ pc'[g] = next
         /\ \A h \in Goroutines \ {g} : pc'[h] = pc[h]
         /\ batch' \in [Goroutines -> Seq(Nat)] /\ batch'[g] = <<>>
         /\ \A h \in Goroutines \ {g} : batch'[h] = batch[h]
         /\ Batches(batch') = [Batches(batch) EXCEPT ![g] = {}]
<1>1. /\ pc' \in [Goroutines -> Locations] /\ pc'[g] = next
      /\ \A h \in Goroutines \ {g} : pc'[h] = pc[h]
  BY DEF EndFlush, BufferTypeOK
<1>2. Changes(batch', batch, g, <<>>) /\ <<>> \in Seq(Nat) /\ ToSet(<<>>) = {}
  BY Empty DEF EndFlush, Changes
<1>3. /\ batch' \in [Goroutines -> Seq(Nat)] /\ batch'[g] = <<>>
      /\ \A h \in Goroutines \ {g} : batch'[h] = batch[h]
      /\ Changes(Batches(batch'), Batches(batch), g, ToSet(<<>>))
  BY <1>2, BatchChanges
<1> QED BY <1>1, <1>2, <1>3 DEF Changes

(* Flush, StopFlush and LoopFlush: g, which has no batch, takes all that   *)
(* the buffer holds.                                                       *)
LEMMA AllTaken ==
  ASSUME FlushBufferInv, NEW g \in Goroutines, pc[g] # "flushing", BeginFlush(g, data),
         UNCHANGED <<stopping, rest, made, accepted, delivered, failed, lost, leftover>>
  PROVE  FlushBufferInv'
<1>1. /\ BufferTypeOK /\ Placed /\ NoRepetitions /\ Bounded /\ OrderKept /\ Resting
      /\ LeftoversGone /\ LeftoversMade /\ data \in Seq(Nat)
  BY DEF FlushBufferInv, BufferTypeOK
<1>2. /\ data' = <<>> /\ extracted' \in Seq(Nat) /\ extracted' \o data' = extracted \o data
      /\ pc' \in [Goroutines -> Locations] /\ pc'[g] = "flushing"
      /\ \A h \in Goroutines \ {g} : pc'[h] = pc[h]
  BY <1>1, FlushBegins
<1>3. /\ batch' \in [Goroutines -> Seq(Nat)] /\ batch'[g] = data
      /\ \A h \in Goroutines \ {g} : batch'[h] = batch[h]
      /\ Changes(Batches(batch'), Batches(batch), g, ToSet(data))
  <2>1. Changes(batch', batch, g, data)
    BY DEF BeginFlush, Changes
  <2> QED BY <1>1, <2>1, BatchChanges
<1>4. Placed'
  <2>1. /\ DOMAIN Batches(batch) = Goroutines /\ Batches(batch)[g] = {} /\ ToSet(data') = {}
    BY <1>1, <1>2, Empty DEF Resting, Batches
  <2>2. OnePlace(made, {}, Batches(batch'), Rests(rest), delivered, failed, lost)
    BY <1>1, <1>3, <2>1, ItemsTaken DEF Placed
  <2> QED BY <2>1, <2>2 DEF Placed
<1>5. BufferTypeOK' /\ NoRepetitions' /\ OrderKept' /\ LeftoversMade'
  BY <1>1, <1>2, <1>3, Empty DEF BufferTypeOK, NoRepetitions, OrderKept, LeftoversMade
<1>6. Bounded'
  <2>1. Len(data) <= Capacity \/ Len(data) <= 1
    BY <1>1, Empty, LenProperties, FlushBufferAssumption DEF Bounded
  <2> QED BY <1>1, <1>2, <1>3, <2>1 DEF Bounded
<1>7. Resting' /\ LeftoversGone'
  BY <1>1, <1>2, <1>3, Empty DEF Resting, LeftoversGone, Emptied, Goroutines
<1> QED BY <1>4, <1>5, <1>6, <1>7 DEF FlushBufferInv

(* The steps that leave the items where they are.                          *)
LEMMA ItemsStay ==
  ASSUME FlushBufferInv,
         UNCHANGED <<data, batch, rest, made, accepted, extracted, delivered, failed, lost>>,
         pc' \in [Goroutines -> Locations], Resting', LeftoversGone', LeftoversMade'
  PROVE  FlushBufferInv'
<1>1. BufferTypeOK' /\ Placed' /\ NoRepetitions' /\ Bounded' /\ OrderKept'
  BY DEF FlushBufferInv, BufferTypeOK, Placed, NoRepetitions, Bounded, OrderKept
<1> QED BY <1>1 DEF FlushBufferInv

--------------------------------------------------------------------------------
(* Add and AddBatch: the new items come to the client, and on from there.  *)
LEMMA AddKept ==
  ASSUME FlushBufferInv, NEW c \in Clients, NEW m \in 1 .. MaxBatch, Add(c, m)
  PROVE  FlushBufferInv'
<1>1. /\ BufferTypeOK /\ Placed /\ NoRepetitions /\ Resting /\ LeftoversGone /\ LeftoversMade
      /\ made \in Nat /\ m \in Nat /\ c \in Goroutines
  BY FlushBufferAssumption DEF FlushBufferInv, BufferTypeOK, Goroutines
<1>2. /\ pc[c] = "idle" /\ made' = made + m /\ AppendItems(c, NewItems(m))
      /\ stopping' = stopping /\ leftover' = leftover
      /\ UNCHANGED <<delivered, failed, lost>>
  BY DEF Add
<1> DEFINE items == NewItems(m)
           new == made + 1 .. made + m
<1>3. items \in Seq(Nat) /\ IsInjective(items) /\ ToSet(items) = new
  <2>1. /\ items = [i \in 1 .. m |-> made + i] /\ DOMAIN items = 1 .. m
        /\ \A i \in 1 .. m : items[i] = made + i /\ made + i \in Nat
    BY <1>1 DEF NewItems
  <2>2. items \in Seq(Nat)
    BY <1>1, <2>1
  <2> HIDE DEF items
  <2>3. IsInjective(items)
    BY <1>1, <2>1 DEF IsInjective
  <2>4. ToSet(items) \subseteq new
    BY <1>1, <2>1 DEF ToSet
  <2>5. ASSUME NEW x \in new PROVE x \in ToSet(items)
    <3>1. x - made \in 1 .. m /\ made + (x - made) = x
      BY <1>1
    <3> QED BY <2>1, <3>1 DEF ToSet
  <2> QED BY <2>2, <2>3, <2>4, <2>5
<1>4. /\ batch[c] = <<>> /\ rest[c] = <<>> /\ c \notin stopping
      /\ Batches(batch) = [Batches(batch) EXCEPT ![c] = {}]
      /\ Rests(rest)[c] = {} /\ DOMAIN Rests(rest) = Clients
  BY <1>1, <1>2, Empty DEF Resting, LeftoversGone, Batches, Rests
<1>5. OnePlace(made + m, ToSet(data), [Batches(batch) EXCEPT ![c] = {}],
               [Rests(rest) EXCEPT ![c] = ToSet(items)], delivered, failed, lost)
  <2> DEFINE q == [Rests(rest) EXCEPT ![c] = new]
  <2>1. Changes(q, Rests(rest), c, new)
    BY DEF Changes
  <2> HIDE DEF q, items
  <2>2. OnePlace(made + m, ToSet(data), Batches(batch), q, delivered, failed, lost)
    BY <1>1, <1>4, <2>1, ItemsPassed DEF Placed
  <2>3. q = [Rests(rest) EXCEPT ![c] = ToSet(items)]
    BY <1>3 DEF q
  <2> QED BY <1>4, <2>2, <2>3
<1>6. \A e \in Clients : leftover[e] \cap ToSet(items) = {}
  <2>1. \A x \in new : x \notin 1 .. made
    BY <1>1
  <2> HIDE DEF items, new
  <2> QED BY <1>1, <1>3, <2>1 DEF LeftoversMade
<1> HIDE DEF items
<1>7. /\ data' \in Seq(Nat) /\ accepted' \in Seq(Nat) /\ extracted' \in Seq(Nat)
      /\ pc' \in [Goroutines -> Locations]
      /\ batch' \in [Goroutines -> Seq(Nat)] /\ rest' \in [Clients -> Seq(Nat)]
      /\ OnePlace(made + m, ToSet(data'), Batches(batch'), Rests(rest'), delivered, failed, lost)
      /\ NoRepetitions' /\ Bounded' /\ OrderKept' /\ Resting' /\ LeftoversGone'
  BY <1>2, <1>3, <1>4, <1>5, <1>6, ItemsGoIn DEF items
<1>8. BufferTypeOK'
  BY <1>1, <1>2, <1>7 DEF BufferTypeOK
<1>9. Placed'
  BY <1>2, <1>7 DEF Placed
<1>10. LeftoversMade'
  BY <1>1, <1>2 DEF LeftoversMade
<1> QED BY <1>7, <1>8, <1>9, <1>10 DEF FlushBufferInv

(* The flush of an Add or AddBatch returns: its batch is done with, and    *)
(* what is left goes on into the buffer or is given up.                    *)
LEMMA ClientFlushedKept ==
  ASSUME FlushBufferInv, NEW c \in Clients, NEW ok \in BOOLEAN, ClientFlushed(c, ok)
  PROVE  FlushBufferInv'
<1>1. /\ BufferTypeOK /\ Placed /\ NoRepetitions /\ Bounded /\ OrderKept /\ Resting
      /\ LeftoversGone /\ LeftoversMade
      /\ rest[c] \in Seq(Nat) /\ IsInjective(rest[c]) /\ c \in Goroutines
  BY DEF FlushBufferInv, BufferTypeOK, NoRepetitions, Goroutines
<1>2. /\ c \notin stopping /\ FlushReturns(c, ok)
      /\ made' = made /\ stopping' = stopping /\ leftover' = leftover
  BY DEF ClientFlushed
<1>3. OnePlace(made, ToSet(data), [Batches(batch) EXCEPT ![c] = {}], Rests(rest),
               delivered', failed', lost)
  BY <1>1, <1>2, ItemsComeBack
<1>4. CASE AppendItems(c, rest[c]) /\ UNCHANGED lost
  <2> DEFINE items == rest[c]
  <2>1. Rests(rest) = [Rests(rest) EXCEPT ![c] = ToSet(items)]
    BY DEF Rests
  <2>2. OnePlace(made, ToSet(data), [Batches(batch) EXCEPT ![c] = {}],
                 [Rests(rest) EXCEPT ![c] = ToSet(items)], delivered', failed', lost)
    BY <1>3, <2>1
  <2>3. \A e \in Clients : leftover[e] \cap ToSet(items) = {}
    BY <1>1 DEF LeftoversGone
  <2>4. items \in Seq(Nat) /\ IsInjective(items) /\ AppendItems(c, items)
    BY <1>1, <1>4
  <2> HIDE DEF items
  <2>5. /\ data' \in Seq(Nat) /\ accepted' \in Seq(Nat) /\ extracted' \in Seq(Nat)
        /\ pc' \in [Goroutines -> Locations]
        /\ batch' \in [Goroutines -> Seq(Nat)] /\ rest' \in [Clients -> Seq(Nat)]
        /\ OnePlace(made, ToSet(data'), Batches(batch'), Rests(rest'), delivered', failed', lost)
        /\ NoRepetitions' /\ Bounded' /\ OrderKept' /\ Resting' /\ LeftoversGone'
    BY <1>2, <2>2, <2>3, <2>4, ItemsGoIn
  <2>6. BufferTypeOK' /\ Placed' /\ LeftoversMade'
    BY <1>1, <1>2, <1>4, <2>5 DEF BufferTypeOK, Placed, LeftoversMade
  <2> QED BY <2>5, <2>6 DEF FlushBufferInv
<1>5. CASE /\ EndFlush(c, "idle")
           /\ lost' = lost \cup ToSet(rest[c])
           /\ rest' = [rest EXCEPT ![c] = <<>>]
           /\ UNCHANGED <<buffer, accepted, extracted>>
  <2>1. UNCHANGED <<data, accepted, extracted>>
    BY <1>5 DEF buffer
  <2>2. /\ pc' \in [Goroutines -> Locations] /\ pc'[c] = "idle"
        /\ \A h \in Goroutines \ {c} : pc'[h] = pc[h]
        /\ batch' \in [Goroutines -> Seq(Nat)] /\ batch'[c] = <<>>
        /\ \A h \in Goroutines \ {c} : batch'[h] = batch[h]
        /\ Batches(batch') = [Batches(batch) EXCEPT ![c] = {}]
    <3>1. "idle" \in Locations
      BY DEF Locations
    <3> QED BY <1>1, <1>5, <3>1, FlushEnds
  <2>3. /\ rest' \in [Clients -> Seq(Nat)] /\ rest'[c] = <<>>
        /\ \A e \in Clients \ {c} : rest'[e] = rest[e]
        /\ Changes(Rests(rest'), Rests(rest), c, {})
    <3>1. Changes(rest', rest, c, <<>>) /\ <<>> \in Seq(Nat) /\ ToSet(<<>>) = {}
      BY <1>5, Empty DEF Changes
    <3>2. /\ rest' \in [Clients -> Seq(Nat)] /\ rest'[c] = <<>>
          /\ \A e \in Clients \ {c} : rest'[e] = rest[e]
          /\ Changes(Rests(rest'), Rests(rest), c, ToSet(<<>>))
      BY <1>1, <3>1, RestChanges
    <3> QED BY <3>1, <3>2
  <2>4. Placed'
    <3>1. OnePlace(made, ToSet(data), Batches(batch'), Rests(rest), delivered', failed', lost)
      BY <1>3, <2>2
    <3>2. DOMAIN Rests(rest) = Clients /\ Rests(rest)[c] = ToSet(rest[c])
      BY DEF Rests
    <3>3. OnePlace(made, ToSet(data), Batches(batch'), Rests(rest'), delivered', failed',
                   lost \cup Rests(rest)[c])
      BY <2>3, <3>1, <3>2, ItemsGivenUp
    <3> QED BY <1>2, <1>5, <2>1, <3>2, <3>3 DEF Placed
  <2>5. BufferTypeOK' /\ OrderKept' /\ LeftoversMade'
    <3>1. BufferTypeOK'
      BY <1>1, <1>2, <2>1, <2>2, <2>3 DEF BufferTypeOK
    <3>2. OrderKept' /\ LeftoversMade'
      BY <1>1, <1>2, <2>1 DEF OrderKept, LeftoversMade
    <3> QED BY <3>1, <3>2
  <2>6. NoRepetitions' /\ Bounded'
    <3>1. NoRepetitions'
      BY <1>1, <2>1, <2>3, Empty DEF NoRepetitions
    <3>2. Len(batch'[c]) <= 1
      BY <2>2, Empty
    <3>3. Bounded'
      BY <1>1, <2>1, <2>2, <3>2 DEF Bounded
    <3> QED BY <3>1, <3>3
  <2>7. Resting' /\ LeftoversGone'
    BY <1>1, <1>2, <2>1, <2>2, <2>3, Empty DEF Resting, LeftoversGone, Emptied, Goroutines
  <2> QED BY <2>4, <2>5, <2>6, <2>7 DEF FlushBufferInv
<1> QED BY <1>4, <1>5 DEF ClientFlushed

(* The flush of a Stop, or of the timer, has returned.                     *)
LEMMA OwnFlushEnds ==
  ASSUME FlushBufferInv, NEW g \in Goroutines, NEW ok \in BOOLEAN, FlushReturns(g, ok),
         NEW next \in {"stopped", "select"}, EndFlush(g, next),
         g \in stopping \/ next = "select",
         UNCHANGED <<data, stopping, rest, made, accepted, extracted, lost, leftover>>
  PROVE  FlushBufferInv'
<1>1. /\ BufferTypeOK /\ Placed /\ NoRepetitions /\ Bounded /\ OrderKept /\ Resting
      /\ LeftoversGone /\ LeftoversMade /\ next \in Locations /\ pc[g] = "flushing"
  BY DEF FlushBufferInv, Locations, FlushReturns
<1>2. OnePlace(made, ToSet(data), [Batches(batch) EXCEPT ![g] = {}], Rests(rest),
               delivered', failed', lost)
  BY ItemsComeBack
<1>3. /\ pc' \in [Goroutines -> Locations] /\ pc'[g] = next
      /\ \A h \in Goroutines \ {g} : pc'[h] = pc[h]
      /\ batch' \in [Goroutines -> Seq(Nat)] /\ batch'[g] = <<>>
      /\ \A h \in Goroutines \ {g} : batch'[h] = batch[h]
      /\ Batches(batch') = [Batches(batch) EXCEPT ![g] = {}]
  BY <1>1, FlushEnds
<1>4. Placed'
  BY <1>2, <1>3 DEF Placed
<1>5. BufferTypeOK' /\ NoRepetitions' /\ OrderKept' /\ LeftoversMade'
  <2>1. BufferTypeOK'
    BY <1>1, <1>3 DEF BufferTypeOK
  <2>2. NoRepetitions' /\ OrderKept' /\ LeftoversMade'
    BY <1>1 DEF NoRepetitions, OrderKept, LeftoversMade
  <2> QED BY <2>1, <2>2
<1>6. Bounded'
  <2>1. Len(batch'[g]) <= 1
    BY <1>3, Empty
  <2> QED BY <1>1, <1>3, <2>1 DEF Bounded
<1>7. Resting' /\ LeftoversGone'
  BY <1>1, <1>3, Empty DEF Resting, LeftoversGone, Emptied, Goroutines
<1> QED BY <1>4, <1>5, <1>6, <1>7 DEF FlushBufferInv

(* Stop: what the buffer holds now has to leave it.                        *)
LEMMA StopKept ==
  ASSUME FlushBufferInv, NEW c \in Clients, Stop(c)
  PROVE  FlushBufferInv'
<1>1. /\ BufferTypeOK /\ Placed /\ Resting /\ LeftoversGone /\ LeftoversMade
      /\ c \in Goroutines
  BY DEF FlushBufferInv, Goroutines
<1>2. /\ UNCHANGED <<data, batch, rest, made, accepted, extracted, delivered, failed, lost>>
      /\ pc[c] = "idle" /\ pc' = [pc EXCEPT ![c] = "waiting"]
      /\ stopping' = stopping \cup {c}
      /\ leftover' = [leftover EXCEPT ![c] = ToSet(data)]
  BY DEF Stop
<1>3. /\ pc' \in [Goroutines -> Locations] /\ pc'[c] = "waiting"
      /\ \A h \in Goroutines \ {c} : pc'[h] = pc[h]
  BY <1>1, <1>2 DEF BufferTypeOK, Locations
<1>4. \A e \in Clients : leftover'[e] = leftover[e] \/ leftover'[e] = ToSet(data)
  BY <1>2
<1>5. Resting'
  BY <1>1, <1>2, <1>3 DEF Resting, Goroutines
<1>6. \A e \in Clients : ToSet(data) \cap ToSet(rest[e]) = {}
  BY <1>1 DEF Placed, OnePlace, NowhereElse, Rests
<1>7. \A x \in ToSet(data) : x \in 1 .. made
  BY <1>1 DEF Placed, OnePlace, Somewhere
<1>8. LeftoversMade'
  BY <1>1, <1>2, <1>4, <1>7 DEF LeftoversMade
<1>9. LeftoversGone'
  <2>1. \A e, x \in Clients : leftover'[e] \cap ToSet(rest'[x]) = {}
    BY <1>1, <1>2, <1>4, <1>6 DEF LeftoversGone
  <2>2. \A e \in Clients : pc'[e] = "idle" => e \notin stopping'
    BY <1>1, <1>2, <1>3 DEF LeftoversGone, Goroutines
  <2>3. ASSUME NEW e \in Clients, Emptied(e)' PROVE leftover'[e] \cap ToSet(data') = {}
    <3>1. e # c /\ Emptied(e)
      BY <1>2, <1>3, <2>3 DEF Emptied, Goroutines
    <3>2. leftover'[e] = leftover[e]
      BY <1>2, <3>1
    <3> QED BY <1>1, <1>2, <3>1, <3>2 DEF LeftoversGone
  <2> QED BY <2>1, <2>2, <2>3 DEF LeftoversGone
<1> QED BY <1>2, <1>3, <1>5, <1>8, <1>9, ItemsStay

(* The other steps, and all of them together.                              *)
LEMMA FlushBufferKept == FlushBufferInv /\ Next => FlushBufferInv'
<1> SUFFICES ASSUME FlushBufferInv, Next PROVE FlushBufferInv'
  OBVIOUS
<1>1. /\ BufferTypeOK /\ Placed /\ Resting /\ LeftoversGone /\ LeftoversMade
      /\ Loop \in Goroutines /\ Loop \notin Clients
      /\ \A c \in Clients : c \in Goroutines /\ c # Loop
      /\ DOMAIN pc = Goroutines /\ pc \in [Goroutines -> Locations]
  BY FlushBufferAssumption DEF FlushBufferInv, Goroutines, BufferTypeOK
<1>2. ASSUME NEW g \in Goroutines, pc[g] # "flushing",
             NEW next \in Locations \ {"flushing", "idle"}, pc' = [pc EXCEPT ![g] = next],
             UNCHANGED <<data, batch, rest, made, accepted, extracted, delivered, failed, lost>>,
             UNCHANGED <<stopping, leftover>>,
             next = "stopped" => data = <<>>
      PROVE  FlushBufferInv'
  <2>1. /\ pc' \in [Goroutines -> Locations] /\ pc'[g] = next
        /\ \A h \in Goroutines \ {g} : pc'[h] = pc[h]
    BY <1>1, <1>2
  <2>2. Resting' /\ LeftoversMade'
    BY <1>1, <1>2, <2>1 DEF Resting, LeftoversMade
  <2>3. LeftoversGone'
    <3>1. \A c \in Clients : Emptied(c)' => Emptied(c) \/ data = <<>>
      BY <1>1, <1>2, <2>1 DEF Emptied
    <3>2. ToSet(<<>>) = {}
      BY Empty
    <3> QED BY <1>1, <1>2, <2>1, <3>1, <3>2 DEF LeftoversGone
  <2> QED BY <1>2, <2>1, <2>2, <2>3, ItemsStay
<1>3. ASSUME UNCHANGED <<data, batch, rest, made, accepted, extracted, delivered, failed, lost>>,
             UNCHANGED <<pc, stopping, leftover>>
      PROVE  FlushBufferInv'
  <2>1. Resting' /\ LeftoversGone' /\ LeftoversMade'
    BY <1>1, <1>3 DEF Resting, LeftoversGone, LeftoversMade, Emptied
  <2> QED BY <1>1, <1>3, <2>1, ItemsStay
<1>4. CASE Start
  BY <1>1, <1>2, <1>4 DEF Start, Started, history, Locations
<1>5. CASE ParentCancel
  BY <1>3, <1>5 DEF ParentCancel, buffer, history
<1>6. CASE LoopTick
  BY <1>1, <1>2, <1>6 DEF LoopTick, history, Locations
<1>7. CASE LoopFlush
  <2>1. CASE BeginFlush(Loop, data)
    BY <1>1, <1>7, <2>1, AllTaken DEF LoopFlush
  <2>2. CASE pc' = [pc EXCEPT ![Loop] = "select"] /\ UNCHANGED <<data, batch, extracted>>
    BY <1>1, <1>2, <1>7, <2>2 DEF LoopFlush, Locations
  <2> QED BY <1>7, <2>1, <2>2 DEF LoopFlush
<1>8. ASSUME NEW ok \in BOOLEAN, LoopFlushed(ok) PROVE FlushBufferInv'
  BY <1>1, <1>8, OwnFlushEnds DEF LoopFlushed
<1>9. CASE LoopExit
  BY <1>1, <1>2, <1>9 DEF LoopExit, buffer, history, Locations
<1>10. ASSUME NEW c \in Clients, Flush(c) PROVE FlushBufferInv'
  BY <1>1, <1>10, AllTaken DEF Flush
<1>11. ASSUME NEW c \in Clients, StopFlush(c) PROVE FlushBufferInv'
  <2>1. CASE BeginFlush(c, data)
    BY <1>1, <1>11, <2>1, AllTaken DEF StopFlush
  <2>2. CASE data = <<>> /\ pc' = [pc EXCEPT ![c] = "stopped"] /\ UNCHANGED <<buffer, batch, extracted>>
    BY <1>1, <1>2, <1>11, <2>2 DEF StopFlush, buffer, Locations
  <2> QED BY <1>11, <2>1, <2>2 DEF StopFlush
<1>12. ASSUME NEW c \in Clients, NEW ok \in BOOLEAN, StopFlushed(c, ok) PROVE FlushBufferInv'
  BY <1>1, <1>12, OwnFlushEnds DEF StopFlushed, buffer
<1> QED
  BY <1>4, <1>5, <1>6, <1>7, <1>8, <1>9, <1>10, <1>11, <1>12, AddKept, ClientFlushedKept, StopKept
  DEF Next, FlushLoop, Client

(* Nothing happens.                                                        *)
LEMMA FlushBufferStays == FlushBufferInv /\ UNCHANGED vars => FlushBufferInv'
<1> SUFFICES ASSUME FlushBufferInv, UNCHANGED vars PROVE FlushBufferInv'
  OBVIOUS
<1>1. Resting' /\ LeftoversGone' /\ LeftoversMade' /\ pc' \in [Goroutines -> Locations]
  BY DEF vars, buffer, history, FlushBufferInv, BufferTypeOK, Resting, LeftoversGone,
         LeftoversMade, Emptied
<1> QED BY <1>1, ItemsStay DEF vars, buffer, history

(* The buffer stays within its capacity, every item is in one place and in *)
(* order, and Stop leaves nothing of what it found.                        *)
THEOREM BufferKeepsItems == Spec => [](Bounded /\ Conserved /\ OrderKept /\ StopDrains)
BY FlushBufferInitial, FlushBufferKept, FlushBufferStays, PlacesAddUp, PTL DEF Spec
================================================================================
