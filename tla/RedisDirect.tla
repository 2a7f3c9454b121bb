------------------------------ MODULE RedisDirect ------------------------------
(***************************************************************************)
(* RedisRateLimiterV3 of stability/redis_ratelimit_v3.go: every caller     *)
(* reads and writes the bucket in an optimistic transaction, WATCH ...     *)
(* EXEC, which Redis refuses when the key was written in between.          *)
(*                                                                         *)
(* An attempt is two actions: WATCH with the look at the clock and HMGET   *)
(* (a write between these is refused like one after them), and EXEC.  A    *)
(* request for more than Burst is denied at once and changes nothing.      *)
(***************************************************************************)
EXTENDS RedisBucket

CONSTANTS
  Callers,
  MaxRetry     (* attempts of one call: 8 in the code                       *)

ASSUME RedisDirectAssumption == MaxRetry \in Nat \ {0}

VARIABLES
  watching,    (* callers between WATCH and EXEC                            *)
  dirty,       (* those of them whose key was written since                 *)
  ask,         (* what each caller asks for                                 *)
  now, seen,   (* the time and the hash each of them has read               *)
  attempt      (* which attempt it is in                                    *)

directVars == <<watching, dirty, ask, now, seen, attempt>>

DirectInit ==
  /\ watching = {} /\ dirty = {}
  /\ ask = [c \in Callers |-> 0] /\ now = [c \in Callers |-> 0]
  /\ seen = [c \in Callers |-> NoHash] /\ attempt = [c \in Callers |-> 0]

Look(c) == now' = [now EXCEPT ![c] = clock] /\ seen' = [seen EXCEPT ![c] = hash]

(* The first attempt of AllowN(n).                                         *)
DirectBegin(c, n) ==
  /\ c \notin watching
  /\ watching' = watching \cup {c}
  /\ ask' = [ask EXCEPT ![c] = n] /\ Look(c)
  /\ attempt' = [attempt EXCEPT ![c] = 1]
  /\ UNCHANGED <<bucketVars, dirty>>

Return(c) ==
  /\ watching' = watching \ {c}
  /\ ask' = [ask EXCEPT ![c] = 0] /\ now' = [now EXCEPT ![c] = 0]
  /\ seen' = [seen EXCEPT ![c] = NoHash] /\ attempt' = [attempt EXCEPT ![c] = 0]

(* The key is written: the transactions of the others will be refused.     *)
Written(c) == dirty' = watching \ {c}

Read(c, f, default) == IF f \in DOMAIN seen[c] THEN seen[c][f] ELSE default

LastNS(c) == AtMost(Read(c, "last_ns", now[c]), now[c])
Due(c)    == Refill(now[c], LastNS(c))
Held(c)   == LET tokens == Read(c, "tokens", Burst)
             IN  IF Due(c) > 0 THEN AtMost(tokens + Due(c), Burst) ELSE tokens
Stamp(c)  == IF Due(c) > 0 \/ "tokens" \notin DOMAIN seen[c] THEN now[c]
             ELSE LastNS(c)

(* Mutant of DirectAllow. *)
DirectAllowUnwatched(c) ==
  /\ c \in watching
  /\ Held(c) >= ask[c]
  /\ hash' = HSet(HIncrBy(hash, "tokens", Due(c) - ask[c]), "last_ns", Stamp(c))
  /\ granted' = granted + ask[c]
  /\ Written(c) /\ Return(c)
  /\ UNCHANGED <<clock, upsets>>

(* EXEC succeeds.  A missing field counts as Burst when it is read, but as *)
(* 0 by HINCRBY, and the refill is added without the limit that the        *)
(* decision used.  The caller gets an error all the same if the answer of  *)
(* Redis is lost.                                                          *)
DirectAllow(c) ==
  /\ c \in watching \ dirty
  /\ Held(c) >= ask[c]
  /\ hash' = HSet(HIncrBy(hash, "tokens", Due(c) - ask[c]), "last_ns", Stamp(c))
  /\ granted' = granted + ask[c]
  /\ Written(c) /\ Return(c)
  /\ UNCHANGED <<clock, upsets>>

DirectDeny(c) ==
  /\ c \in watching \ dirty
  /\ Held(c) < ask[c]
  /\ hash' = IF Due(c) > 0
             THEN HSet(HSet(hash, "tokens", Held(c)), "last_ns", Stamp(c))
             ELSE hash
  /\ Written(c) /\ Return(c)
  /\ UNCHANGED <<clock, granted, upsets>>

(* EXEC is refused: another attempt, or an error after the last one.       *)
DirectConflict(c) ==
  /\ c \in dirty
  /\ dirty' = dirty \ {c}
  /\ \/ /\ attempt[c] < MaxRetry
        /\ attempt' = [attempt EXCEPT ![c] = @ + 1]
        /\ Look(c)
        /\ UNCHANGED <<watching, ask>>
     \/ attempt[c] = MaxRetry /\ Return(c)
  /\ UNCHANGED <<bucketVars>>

(* Redis does not answer in time.                                          *)
DirectError(c) ==
  /\ c \in watching
  /\ dirty' = dirty \ {c} /\ Return(c)
  /\ UNCHANGED <<bucketVars>>

DirectNext ==
  \E c \in Callers :
    \/ \E n \in 1 .. Burst : DirectBegin(c, n)
    \/ DirectAllow(c) \/ DirectDeny(c) \/ DirectConflict(c) \/ DirectError(c)
================================================================================
