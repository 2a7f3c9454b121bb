------------------------------ MODULE RedisBucket ------------------------------
(***************************************************************************)
(* The token bucket of one key in Redis, as the limiters of                *)
(* stability/redis_ratelimit_v3.go, redis_ratelimit_batch_v3.go and        *)
(* redis_ratelimit_batch_v4.go keep it: a hash with the fields tokens and  *)
(* last_ns, either of which may be missing; and the script with which      *)
(* redis_ratelimit.go and redis_ratelimit_v2.go use it.                    *)
(*                                                                         *)
(* Redis runs one command at a time.  Time is counted in units of which    *)
(* TicksPerToken refill one token; all processes have the same clock.      *)
(***************************************************************************)
EXTENDS Integers

CONSTANTS
  Burst,          (* capacity of the bucket                                 *)
  TicksPerToken,  (* 1 / limit                                              *)
  MaxClock,       (* bound: how far time goes                               *)
  MaxUpsets       (* bound: of upsets                                       *)

ASSUME RedisBucketAssumption ==
  /\ Burst \in Nat \ {0} /\ TicksPerToken \in Nat \ {0}
  /\ MaxClock \in Nat /\ MaxUpsets \in Nat

VARIABLES
  hash,    (* the key's hash; empty when there is no such key               *)
  clock,
  granted, (* history: tokens of the requests decided to be allowed         *)
  upsets   (* history: how often the key expired or was initialized, or a   *)
           (* pipeline failed                                               *)

bucketVars == <<hash, clock, granted, upsets>>

NoHash == [f \in {} |-> 0]

BucketInit == hash = NoHash /\ clock = 0 /\ granted = 0 /\ upsets = 0

HGet(f, default) == IF f \in DOMAIN hash THEN hash[f] ELSE default
HSet(h, f, v)    == [x \in DOMAIN h \cup {f} |-> IF x = f THEN v ELSE h[x]]
HIncrBy(h, f, d) == HSet(h, f, IF f \in DOMAIN h THEN h[f] + d ELSE d)

AtMost(n, bound) == IF n > bound THEN bound ELSE n

(* calculateRefillTokens: whole tokens only.                               *)
Refill(now, last) == IF now <= last THEN 0 ELSE (now - last) \div TicksPerToken

Tick == /\ clock < MaxClock
        /\ clock' = clock + 1
        /\ UNCHANGED <<hash, granted, upsets>>

Upset == upsets < MaxUpsets /\ upsets' = upsets + 1

(* The time to live that every operation sets ends.                        *)
Expire == /\ Upset
          /\ hash' = NoHash
          /\ UNCHANGED <<clock, granted>>

--------------------------------------------------------------------------------
(* The Lua script redisAllowScript of redis_ratelimit.go, with which       *)
(* RedisRateLimiter, and RedisRateLimiterV2 with or without its pipelines, *)
(* decide on a request: a leaky bucket in the key's hash, that of above    *)
(* filled instead of emptied.  Redis runs a script as one command, and the *)
(* script uses Redis' clock.                                               *)

(* What has leaked since last_ns, which then advances by whole units only: *)
(* the rest of the time counts the next time.                              *)
ScriptLast   == AtMost(HGet("last_ns", clock), clock)
ScriptLeaked == (clock - ScriptLast) \div TicksPerToken
ScriptLevel  == LET current == HGet("current", 0)
                IN  IF current > ScriptLeaked THEN current - ScriptLeaked ELSE 0

ScriptAllows(n) == n <= Burst - ScriptLevel

(* The hash after the script has run for a request of n.                   *)
ScriptHash(n) ==
  HSet(HSet(hash, "current", IF ScriptAllows(n) THEN ScriptLevel + n ELSE ScriptLevel),
       "last_ns", ScriptLast + ScriptLeaked * TicksPerToken)

(* AllowN(n), by EVAL.  (More than Burst is denied without asking Redis.   *)
(* If the answer is lost, the caller gets an error for what Redis has      *)
(* counted all the same.)                                                  *)
ScriptAllowN(n) ==
  /\ hash' = ScriptHash(n)
  /\ granted' = granted + (IF ScriptAllows(n) THEN n ELSE 0)
  /\ UNCHANGED <<clock, upsets>>
================================================================================
