----------------------------- MODULE RedisLimiters -----------------------------
(***************************************************************************)
(* The Redis limiters side by side: in a behavior all requests for the key *)
(* are made by transactions (RedisDirect), all by scripts (RedisBucket) or *)
(* all through pipelines (RedisBatch).                                     *)
(***************************************************************************)
EXTENDS RedisBatch, RedisDirect

CONSTANT Kinds  (* which of "direct", "script" and "batch" are considered   *)

ASSUME RedisLimitersAssumption == Kinds \subseteq {"direct", "script", "batch"}

VARIABLE kind

vars == <<bucketVars, kind, batchVars, directVars>>

Init == /\ kind \in Kinds
        /\ BucketInit /\ BatchInit /\ DirectInit
        /\ kind # "batch" => version = "v3"

Next ==
  \/ Tick /\ UNCHANGED <<kind, batchVars, directVars>>
  \/ Expire /\ dirty' = watching
     /\ UNCHANGED <<kind, batchVars, watching, ask, now, seen, attempt>>
  \/ kind = "direct" /\ DirectNext /\ UNCHANGED <<kind, batchVars>>
  \/ /\ kind = "script"
     /\ \E n \in 1 .. Burst : ScriptAllowN(n)
     /\ UNCHANGED <<kind, batchVars, directVars>>
  \/ kind = "batch" /\ BatchNext /\ UNCHANGED <<kind, directVars>>

Spec == Init /\ [][Next]_vars

--------------------------------------------------------------------------------
(* However transactions and pipelines interleave, conflict, fail half-way  *)
(* or are answered late, the requests allowed are covered by the capacity  *)
(* and the time that has passed.  The round robin of v4 covers more: each  *)
(* of its shards may fill a missing bucket, and all but one may overdraw   *)
(* it; and time that one shard has refilled is refilled again by those     *)
(* that do not know of it, also when a late pipeline sets last_ns back.    *)
(* An expiry or initialization fills the bucket anew, and a pipeline that  *)
(* fails before it stores the time lets its refill happen again.           *)
Shares   == IF kind = "batch" /\ version = "v4" THEN NumShards ELSE 1
Fillings == 2 * Shares - 1
Refills  == (Shares * (Shares + 1)) \div 2

WithinLimit ==
  granted <= Fillings * Burst * (1 + upsets) + (Refills * clock) \div TicksPerToken

(* A request that waits for its answer is somebody's job: it has its       *)
(* answer, or is in one queue or one batch.  (The queue may be that of a   *)
(* shard that has exited.)                                                 *)
Places(r) ==
  UNION {   {<<"queue", s, i>> : i \in {j \in 1 .. Len(queue[s]) : queue[s][j].id = r}}
       \cup {<<"batch", s, i>> : i \in {j \in 1 .. Len(batch[s]) : batch[s][j].id = r}} :
         s \in Shards}

OnePlace ==
  \A r \in Requests :
    /\ \A p, q \in Places(r) : p = q
    /\ pc[r] = "wait" => (Places(r) = {} <=> reply[r] # "none")

(* v3: a released request finds its answer in the map, and the map keeps   *)
(* no answer for ever but those that came after their requests had given   *)
(* up.                                                                     *)
ResultsKept ==
  \A r \in Requests :
    IF pc[r] = "wait" /\ reply[r] # "none" THEN version = "v3" => r \in results
    ELSE r \in results => pc[r] = "gone"

(* "Burst returns the configured bucket capacity", and a "missing token    *)
(* field starts at full bucket capacity": a direct request is denied only  *)
(* when what was allowed so far and what it asks for exceed the capacity.  *)
DeniedWhenExhausted ==
  [][\A c \in Callers :
       kind = "direct" /\ DirectDeny(c) => granted + ask[c] > Burst]_vars
================================================================================
