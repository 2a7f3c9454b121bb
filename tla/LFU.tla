---------------------------------- MODULE LFU ----------------------------------
(***************************************************************************)
(* The cache of algo/lfu.go as operators on its state.  A cache c has      *)
(*   c.capacity, c.minFreq                                                 *)
(*   c.freq[k]   how often the entry of k was used, 0 if there is none     *)
(*   c.list[f]   freqList: the keys used f times, the last one used first; *)
(*               empty when there is no such list                          *)
(* Values are left out.  Each operation holds the mutex throughout, so     *)
(* that it is one step of the modules that use the cache.                  *)
(***************************************************************************)
EXTENDS Integers, Sequences, SequencesExt, FiniteSets

CONSTANTS
  Keys,      (* the keys used                                               *)
  MaxFreq    (* bound: how often an entry is used                           *)

ASSUME LFUAssumption == MaxFreq \in Nat \ {0} /\ IsFiniteSet(Keys)

Freqs == 0 .. MaxFreq

NewLFU(capacity) ==
  [capacity |-> IF capacity < 1 THEN 1 ELSE capacity,
   minFreq  |-> 0,
   freq     |-> [k \in Keys |-> 0],
   list     |-> [f \in Freqs |-> <<>>]]

Cached(c) == {k \in Keys : c.freq[k] > 0}
Size(c)   == Cardinality(Cached(c))

(* Mutant of IncrementFreq. *)
IncrementFreqKeepsMinFreq(c, k) ==
  LET f == c.freq[k]
  IN  [c EXCEPT !.freq[k] = f + 1,
                !.list[f] = RemoveFirst(@, k), !.list[f + 1] = <<k>> \o @]

(* incrementFreq for an entry used less than MaxFreq times.                *)
IncrementFreq(c, k) ==
  LET f == c.freq[k]
      rest == RemoveFirst(c.list[f], k)
  IN  [c EXCEPT !.freq[k] = f + 1,
                !.list[f] = rest, !.list[f + 1] = <<k>> \o @,
                !.minFreq = IF rest = <<>> /\ @ = f THEN f + 1 ELSE @]

(* removeEntry, which leaves minFreq alone.                                *)
RemoveEntry(c, k) ==
  [c EXCEPT !.freq[k] = 0,
            !.list[c.freq[k]] = RemoveFirst(@, k)]

(* Mutant of Evict. *)
EvictFront(c) ==
  LET l == c.list[c.minFreq]
  IN  IF l = <<>> THEN c ELSE RemoveEntry(c, l[1])

(* evict: the entry at the back of the list of minFreq.  Nothing happens   *)
(* when there is no such list.                                             *)
Evict(c) ==
  LET l == c.list[c.minFreq]
  IN  IF l = <<>> THEN c ELSE RemoveEntry(c, l[Len(l)])

LFUGet(c, k) == IF c.freq[k] > 0 THEN IncrementFreq(c, k) ELSE c

Insert(c, k) ==
  [c EXCEPT !.freq[k] = 1, !.list[1] = <<k>> \o @, !.minFreq = 1]

LFUSet(c, k) ==
  IF c.freq[k] > 0 THEN IncrementFreq(c, k)
  ELSE Insert(IF Size(c) >= c.capacity THEN Evict(c) ELSE c, k)

LFUDelete(c, k) == IF c.freq[k] > 0 THEN RemoveEntry(c, k) ELSE c

LFUClear(c) == [NewLFU(1) EXCEPT !.capacity = c.capacity]

(* Resize evicts until the size is at most the new capacity.  Once evict   *)
(* finds nothing, it never will: the loop does not end, which shows in a   *)
(* result that is still too large.                                         *)
LFUResize(c, newCapacity) ==
  LET n == IF newCapacity < 1 THEN 1 ELSE newCapacity
      after[i \in 0 .. Cardinality(Keys)] ==
        IF i = 0 THEN [c EXCEPT !.capacity = n] ELSE Evict(after[i - 1])
  IN  IF Size(c) > n THEN after[Size(c) - n] ELSE after[0]

Hangs(c) == Size(c) > c.capacity

--------------------------------------------------------------------------------
(* The structures of the cache agree: an entry used f times is in the      *)
(* list of f, once, and in no other.  minFreq may be stale, but is never   *)
(* above the frequency of an entry, so that evict does not pass over a     *)
(* less used one.                                                          *)
ListsExact(c) ==
  \A f \in Freqs :
    /\ \A k \in Keys : (\E i \in DOMAIN c.list[f] : c.list[f][i] = k)
                         <=> f > 0 /\ c.freq[k] = f
    /\ \A i, j \in DOMAIN c.list[f] : c.list[f][i] = c.list[f][j] => i = j
MinFreqBelow(c) == \A k \in Cached(c) : c.minFreq <= c.freq[k]
================================================================================
