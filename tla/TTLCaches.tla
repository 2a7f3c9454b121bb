------------------------------- MODULE TTLCaches -------------------------------
(***************************************************************************)
(* The caches of cache/hashtable.go and cache/lru.go, whose entries may    *)
(* expire, and the list and map of algo/lru.go under the latter.  An entry *)
(* that has expired is removed by the Get or Has that meets it, in a       *)
(* second critical section: the hash table looks at the entry again, the   *)
(* LRU cache does not.                                                     *)
(*                                                                         *)
(* Values are abstracted to the number of the call that stored them.       *)
(***************************************************************************)
EXTENDS Integers, Sequences, SequencesExt, FiniteSets

CONSTANTS
  CacheKeys,
  Readers,       (* goroutines that call Get or Has                         *)
  CacheSize,     (* of the LRU cache                                        *)
  MaxSets,       (* bound: entries stored                                   *)
  MaxTime        (* bound: of the clock                                     *)

ASSUME TTLCachesAssumption ==
  CacheSize \in Nat \ {0} /\ MaxSets \in Nat /\ MaxTime \in Nat

Missing == [number |-> 0, expiration |-> 0]

VARIABLES
  policy,        (* "hashtable" or "lru"                                    *)
  now,
  items,         (* of each key, the entry stored, or Missing               *)
  evictList,     (* lru: the keys, the one used last first                  *)
  reader,        (* of each reader, the key whose entry it found expired    *)
                 (* and is going to remove, and that entry's number         *)
  sets,          (* history: entries stored                                 *)
  lastUse,       (* history: pairs of keys, the first of which was used     *)
                 (* after the second                                        *)
  lost           (* history: entries removed though they had not expired,   *)
                 (* by a reader: number, and the number it had seen         *)

cacheVars == <<policy, now, items, evictList, reader, sets, lastUse, lost>>

NotRemoving == [key |-> "none", number |-> 0]

CachesInit ==
  /\ policy \in {"hashtable", "lru"}
  /\ now = 1 /\ sets = 0 /\ evictList = <<>> /\ lastUse = {} /\ lost = {}
  /\ items = [k \in CacheKeys |-> Missing]
  /\ reader = [r \in Readers |-> NotRemoving]

Present(k) == items[k] # Missing
IsExpired(e) == e.expiration > 0 /\ now > e.expiration

MoveToFront(list, k) == <<k>> \o RemoveFirst(list, k)
Used(k) ==
  LET others == CacheKeys \ {k}
  IN  lastUse' = (lastUse \cap (others \X others)) \cup ({k} \X others)

Tick ==
  /\ now < MaxTime
  /\ now' = now + 1
  /\ UNCHANGED <<policy, items, evictList, reader, sets, lastUse, lost>>

(* Set and SetWithTTL; for the LRU cache this is Add of algo/lru.go, which *)
(* evicts the key at the back of the list when there are too many.         *)
SetEntry(k, expiration) ==
  LET e == [number |-> sets + 1, expiration |-> expiration]
      added == MoveToFront(evictList, k)
      evicted == policy = "lru" /\ Len(added) > CacheSize
  IN  /\ sets < MaxSets
      /\ sets' = sets + 1
      /\ items' = [items EXCEPT ![k] = e,
                                ![IF evicted THEN Last(added) ELSE k] =
                                   IF evicted THEN Missing ELSE e]
      /\ evictList' = IF policy = "hashtable" THEN <<>>
                      ELSE IF evicted THEN Front(added) ELSE added
      /\ Used(k)
      /\ UNCHANGED <<policy, now, reader, lost>>

(* Get and Has: an entry that has expired is to be removed; the LRU cache  *)
(* moves the key to the front even so.                                     *)
Look(r, k) ==
  /\ reader[r] = NotRemoving /\ Present(k)
  /\ reader' = [reader EXCEPT ![r] = IF IsExpired(items[k])
                                     THEN [key |-> k, number |-> items[k].number] ELSE @]
  /\ evictList' = IF policy = "hashtable" THEN <<>> ELSE MoveToFront(evictList, k)
  /\ Used(k)
  /\ UNCHANGED <<policy, now, items, sets, lost>>

DropEntry(k) ==
  /\ items' = [items EXCEPT ![k] = Missing]
  /\ evictList' = RemoveFirst(evictList, k)
  /\ UNCHANGED <<policy, now, sets, lastUse>>

(* Mutant of RemoveExpired: the hash table does not look again either. *)
RemoveExpiredUnchecked(r) ==
  LET k == reader[r].key
  IN  /\ reader[r] # NotRemoving
      /\ reader' = [reader EXCEPT ![r] = NotRemoving]
      /\ DropEntry(k)
      /\ lost' = IF Present(k) /\ ~IsExpired(items[k])
                 THEN lost \cup {<<items[k].number, reader[r].number>>} ELSE lost

RemoveExpired(r) ==
  LET k == reader[r].key
  IN  /\ reader[r] # NotRemoving
      /\ reader' = [reader EXCEPT ![r] = NotRemoving]
      /\ IF policy = "hashtable" /\ ~IsExpired(items[k])
         THEN UNCHANGED <<policy, now, items, evictList, sets, lastUse, lost>>
         ELSE /\ DropEntry(k)
              /\ lost' = IF Present(k) /\ ~IsExpired(items[k])
                         THEN lost \cup {<<items[k].number, reader[r].number>>} ELSE lost

DeleteEntry(k) == Present(k) /\ DropEntry(k) /\ UNCHANGED <<reader, lost>>

(* Clear; the LRU cache of the cache package has none.                     *)
ClearEntries ==
  /\ policy = "hashtable"
  /\ items' = [k \in CacheKeys |-> Missing]
  /\ UNCHANGED <<policy, now, evictList, reader, sets, lastUse, lost>>

CachesNext ==
  \/ Tick \/ ClearEntries
  \/ \E k \in CacheKeys :
       \/ \E expiration \in {0, now} : SetEntry(k, expiration)
       \/ DeleteEntry(k)
       \/ \E r \in Readers : Look(r, k)
  \/ \E r \in Readers : RemoveExpired(r)

--------------------------------------------------------------------------------
(* The list and the map of the LRU cache hold the same keys, in the order  *)
(* in which they were used last, and never more than its size.  A hash     *)
(* table never loses an entry that has not expired to a reader; the LRU    *)
(* cache loses one only if it was stored after the reader had found the    *)
(* previous one expired.                                                   *)
CachesExact ==
  /\ policy = "lru" =>
       /\ \A k \in CacheKeys : Present(k) <=> k \in ToSet(evictList)
       /\ \A i, j \in DOMAIN evictList :
            i < j => <<evictList[i], evictList[j]>> \in lastUse
       /\ Len(evictList) <= CacheSize
       /\ \A l \in lost : l[1] > l[2]
  /\ policy = "hashtable" => lost = {}
================================================================================
