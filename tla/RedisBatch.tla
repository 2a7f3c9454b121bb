------------------------------- MODULE RedisBatch ------------------------------
(***************************************************************************)
(* RedisRateLimiterBatchV4 of stability/redis_ratelimit_batch_v4.go,       *)
(* RedisRateLimiterBatchV3 of redis_ratelimit_batch_v3.go and the          *)
(* pipelines of RedisRateLimiterV2 of redis_ratelimit_v2.go: requests are  *)
(* queued at pipeline shards, and a shard handles a batch at a time.       *)
(*                                                                         *)
(*   "v4": shards are taken in turn, by the RoundRobinLoadBalancer of      *)
(*         load_balancer.go; a shard decides on its batch from one read    *)
(*         of the bucket, then writes the outcome                          *)
(*   "v3": the hash of the key chooses the shard, so that all requests of  *)
(*         this key go to one; answers are kept in a map of the shard,     *)
(*         where the released request finds its own                        *)
(*   "v2": as v3, but a shard runs the script for each request, and sends  *)
(*         it the answer                                                   *)
(*                                                                         *)
(* A request is made once; its identity is that of the model value.  The   *)
(* requests of other keys in a batch are left out: they are read, decided  *)
(* and written key by key.  Asking for more than Burst is denied at once.  *)
(***************************************************************************)
EXTENDS RedisBucket, Sequences, FiniteSets

CONSTANTS
  Requests,
  Asks,        (* how much requests ask for                                 *)
  NumShards,
  QueueSize,   (* pipelineQueueSize                                         *)
  MaxBatch     (* pipelineMaxBatch                                          *)

ASSUME RedisBatchAssumption ==
  /\ Asks \subseteq 1 .. Burst
  /\ NumShards \in Nat \ {0} /\ QueueSize \in Nat \ {0}
  /\ MaxBatch \in Nat \ {0}

Shards == 0 .. NumShards - 1

VARIABLES
  version,       (* "v2", "v3" or "v4"                                      *)
  closed,
  currentIndex,  (* of the load balancer                                    *)
  pc,            (* requests: "new", "wait", "done" or "gone": given up     *)
  reply,         (* the answer it has not received yet: "none", "allowed",  *)
                 (* "denied" or "error"                                     *)
  queue,         (* pipelineQueue of each shard: [id, n]                    *)
  results,       (* requests whose answer is in the map of their shard (v3) *)
  stage,         (* shards: "idle", "write", "send" or "exited"             *)
  batch,         (* the requests a shard has collected                      *)
  verdict,       (* its decision on each request of the batch, or "none"    *)
                 (* for one that gets no answer                             *)
  pipe           (* commands of its pipeline that Redis has not run yet     *)

requestVars == <<pc, reply>>
shardVars   == <<queue, stage, batch, verdict, pipe, results>>
batchVars   == <<version, closed, currentIndex, requestVars, shardVars>>

(* A request that is done from the start is never made.                    *)
BatchInit ==
  /\ version \in {"v2", "v3", "v4"} /\ closed = FALSE /\ currentIndex = 0
  /\ pc \in [Requests -> {"new", "done"}] /\ reply = [r \in Requests |-> "none"]
  /\ queue = [s \in Shards |-> <<>>] /\ stage = [s \in Shards |-> "idle"]
  /\ batch = [s \in Shards |-> <<>>]
  /\ verdict = [s \in Shards |-> <<>>] /\ pipe = [s \in Shards |-> <<>>]
  /\ results = {}

--------------------------------------------------------------------------------
(* The shard for a request: the load balancer's next target, all of them   *)
(* being available, or that of the hash of the key.                        *)
Target    == IF version = "v4" THEN currentIndex ELSE 0
NextIndex == IF version = "v4" THEN (currentIndex + 1) % NumShards ELSE currentIndex

(* AllowN looks at closed first.  A request that passed this check may come *)
(* to its shard after Close all the same: handle's select takes any case    *)
(* that is ready, and a queue with room is, although its shard has stopped. *)
AllowN(r, n) ==
  LET s == Target
  IN  /\ pc[r] = "new"
      /\ \/ /\ Len(queue[s]) < QueueSize
            /\ currentIndex' = NextIndex
            /\ queue' = [queue EXCEPT ![s] = Append(@, [id |-> r, n |-> n])]
            /\ pc' = [pc EXCEPT ![r] = "wait"]
         \/ /\ Len(queue[s]) = QueueSize \/ closed
            /\ currentIndex' = NextIndex
            /\ pc' = [pc EXCEPT ![r] = "done"]
            /\ UNCHANGED queue
         \/ /\ closed
            /\ pc' = [pc EXCEPT ![r] = "done"]
            /\ UNCHANGED <<currentIndex, queue>>
      /\ UNCHANGED <<bucketVars, version, closed, reply, stage, batch, verdict,
                     pipe, results>>

(* In v3 the released request takes its answer out of the map.             *)
Receive(r) ==
  /\ pc[r] = "wait" /\ reply[r] # "none"
  /\ pc' = [pc EXCEPT ![r] = "done"] /\ reply' = [reply EXCEPT ![r] = "none"]
  /\ results' = results \ {r}
  /\ UNCHANGED <<bucketVars, version, closed, currentIndex, queue, stage, batch,
                 verdict, pipe>>

(* Mutant of GiveUp. *)
GiveUpKeepsResult(r) ==
  /\ pc[r] = "wait"
  /\ pc' = [pc EXCEPT ![r] = IF reply[r] = "none" THEN "gone" ELSE "done"]
  /\ reply' = [reply EXCEPT ![r] = "none"]
  /\ UNCHANGED <<bucketVars, version, closed, currentIndex, shardVars>>

(* The request's context ends, which in v2 and v3 it does by itself.  The  *)
(* answer may have come nevertheless; in v3 the request deletes it.        *)
GiveUp(r) ==
  /\ pc[r] = "wait"
  /\ pc' = [pc EXCEPT ![r] = IF reply[r] = "none" THEN "gone" ELSE "done"]
  /\ reply' = [reply EXCEPT ![r] = "none"]
  /\ results' = results \ {r}
  /\ UNCHANGED <<bucketVars, version, closed, currentIndex, queue, stage, batch,
                 verdict, pipe>>

InitializeTokenBucket(n) ==
  /\ ~closed /\ version # "v2"
  /\ Upset
  /\ hash' = HSet(HSet(hash, "tokens", n), "last_ns", clock)
  /\ UNCHANGED <<clock, granted, batchVars>>

(* Close closes all stop channels.                                         *)
Close ==
  /\ ~closed
  /\ closed' = TRUE
  /\ UNCHANGED <<bucketVars, version, currentIndex, requestVars, shardVars>>

--------------------------------------------------------------------------------
(* Start and collectBatch: what is in the queue, up to MaxBatch.  A request *)
(* that comes while others are received counts as one that came before.    *)
Collected(s) == SubSeq(queue[s], 1, AtMost(Len(queue[s]), MaxBatch))

TakeBatch(s) ==
  /\ stage[s] = "idle" /\ queue[s] # <<>>
  /\ stage' = [stage EXCEPT ![s] = "write"]
  /\ queue' = [queue EXCEPT ![s] = SubSeq(@, Len(Collected(s)) + 1, Len(@))]

(* The decisions on a batch: what fits into the remaining tokens is        *)
(* allowed, request by request.                                            *)
Decide(b, remaining) ==
  LET left[i \in 0 .. Len(b)] ==
        IF i = 0 THEN remaining
        ELSE IF b[i].n <= left[i - 1] THEN left[i - 1] - b[i].n ELSE left[i - 1]
  IN  [i \in 1 .. Len(b) |-> IF left[i] < left[i - 1] THEN "allowed" ELSE "denied"]

SumTo(f, n) ==
  LET sum[i \in 0 .. n] == IF i = 0 THEN 0 ELSE sum[i - 1] + f[i] IN sum[n]

Given(b, v)   == [i \in 1 .. Len(b) |-> IF v[i] = "allowed" THEN b[i].n ELSE 0]
Granted(b, v) == SumTo(Given(b, v), Len(b))

(* The pipeline: one HINCRBY for the refill, one for each request, which   *)
(* for a denied one adds 0, and the time, whether or not anything was      *)
(* refilled.                                                               *)
Commands(b, v, refill) ==
  LET consume == [i \in 1 .. Len(b) |->
                    [field |-> "tokens", by |-> IF v[i] = "allowed" THEN -b[i].n ELSE 0]]
  IN  <<[field |-> "tokens", by |-> refill]>> \o consume
        \o <<[field |-> "last_ns", by |-> clock]>>

(* executePipeline up to the pipeline: the look at the clock, HMGET (which  *)
(* may be a tick later) and the decisions.                                 *)
ExecutePipeline(s, at) ==
  LET tokens  == HGet("tokens", 0)
      initial == IF "tokens" \in DOMAIN hash THEN 0 ELSE Burst
      due     == Refill(at, HGet("last_ns", at))
      refill  == IF tokens >= Burst THEN 0 ELSE AtMost(due, Burst - tokens)
      v       == Decide(Collected(s), AtMost(tokens + initial + refill, Burst))
  IN  /\ version # "v2"
      /\ TakeBatch(s) /\ batch' = [batch EXCEPT ![s] = Collected(s)]
      /\ verdict' = [verdict EXCEPT ![s] = v]
      /\ pipe' = [pipe EXCEPT ![s] = Commands(Collected(s), v, initial + refill)]
      /\ UNCHANGED <<bucketVars, version, closed, currentIndex, requestVars, results>>

(* The same of v2: one script for each request that has not given up yet.  *)
(* The others get an error, which nobody awaits.                           *)
ExecuteScripts(s) ==
  LET b == Collected(s)
  IN  /\ version = "v2"
      /\ TakeBatch(s) /\ batch' = [batch EXCEPT ![s] = b]
      /\ pipe' = [pipe EXCEPT ![s] =
                    [i \in 1 .. Len(b) |->
                       [field |-> IF pc[b[i].id] = "wait" THEN "script" ELSE "none",
                        by |-> b[i].n]]]
      /\ UNCHANGED <<bucketVars, version, closed, currentIndex, requestVars, verdict,
                     results>>

AllErrors(b) == [i \in 1 .. Len(b) |-> "error"]

(* HMGET fails: nothing is written.                                        *)
ReadFails(s) ==
  /\ version # "v2"
  /\ TakeBatch(s) /\ batch' = [batch EXCEPT ![s] = Collected(s)]
  /\ verdict' = [verdict EXCEPT ![s] = AllErrors(Collected(s))]
  /\ UNCHANGED <<bucketVars, version, closed, currentIndex, requestVars, pipe,
                 results>>

(* Redis runs the next command of the pipeline.  The answer of a script is *)
(* the decision on its request.                                            *)
WriteBucket(s) ==
  LET c == Head(pipe[s])
  IN  /\ pipe[s] # <<>>
      /\ \/ /\ c.field = "tokens"
            /\ hash' = HIncrBy(hash, "tokens", c.by)
            /\ UNCHANGED verdict
         \/ /\ c.field = "last_ns"
            /\ hash' = HSet(hash, "last_ns", c.by)
            /\ UNCHANGED verdict
         \/ /\ c.field = "script"
            /\ hash' = ScriptHash(c.by)
            /\ verdict' = [verdict EXCEPT ![s] =
                             Append(@, IF ScriptAllows(c.by) THEN "allowed" ELSE "denied")]
         \/ /\ c.field = "none"
            /\ verdict' = [verdict EXCEPT ![s] = Append(@, "error")]
            /\ UNCHANGED hash
      /\ pipe' = [pipe EXCEPT ![s] = Tail(@)]
      /\ UNCHANGED <<clock, granted, upsets, version, closed, currentIndex,
                     requestVars, queue, stage, batch, results>>

(* Exec fails, whatever Redis has run already: all requests of the batch   *)
(* get the error.                                                          *)
WriteFails(s) ==
  /\ stage[s] = "write" /\ verdict[s] # AllErrors(batch[s])
  /\ Upset
  /\ stage' = [stage EXCEPT ![s] = "send"]
  /\ verdict' = [verdict EXCEPT ![s] = AllErrors(batch[s])]
  /\ pipe' = [pipe EXCEPT ![s] = <<>>]
  /\ UNCHANGED <<hash, clock, granted, version, closed, currentIndex,
                 requestVars, queue, batch, results>>

(* The pipeline is done.  In v3 requests whose context has ended are       *)
(* passed over.  (The code looks at each one right before it answers it.)  *)
PassedOver(q) == version = "v3" /\ pc[q.id] # "wait"

WriteReturns(s) ==
  /\ stage[s] = "write" /\ pipe[s] = <<>>
  /\ granted' = granted + Granted(batch[s], verdict[s])
  /\ stage' = [stage EXCEPT ![s] = "send"]
  /\ verdict' = [verdict EXCEPT ![s] =
                   [i \in 1 .. Len(batch[s]) |->
                      IF PassedOver(batch[s][i]) THEN "none" ELSE @[i]]]
  /\ UNCHANGED <<hash, clock, upsets, version, closed, currentIndex, requestVars,
                 queue, batch, pipe, results>>

(* The answers to batch b go to the requests that still wait, in v3 by way *)
(* of the map, which also keeps the answers to those that do not.          *)
Answers(r, b, v) == {v[i] : i \in {j \in 1 .. Len(b) : b[j].id = r /\ v[j] # "none"}}

Answer(b, v) ==
  /\ reply' = [r \in Requests |->
                 IF pc[r] = "wait" /\ Answers(r, b, v) # {}
                 THEN CHOOSE a \in Answers(r, b, v) : TRUE
                 ELSE reply[r]]
  /\ results' = IF version = "v3"
                THEN results \cup {r \in Requests : Answers(r, b, v) # {}}
                ELSE results

SendResults(s) ==
  /\ stage[s] = "send"
  /\ Answer(batch[s], verdict[s])
  /\ stage' = [stage EXCEPT ![s] = "idle"]
  /\ batch' = [batch EXCEPT ![s] = <<>>] /\ verdict' = [verdict EXCEPT ![s] = <<>>]
  /\ UNCHANGED <<bucketVars, version, closed, currentIndex, pc, queue, pipe>>

(* Mutant of FailPending. *)
FailPendingDropsQueue(s) ==
  /\ stage[s] = "idle" /\ closed
  /\ stage' = [stage EXCEPT ![s] = "exited"]
  /\ queue' = [queue EXCEPT ![s] = <<>>]
  /\ UNCHANGED <<bucketVars, version, closed, currentIndex, requestVars, batch,
                 verdict, pipe, results>>

(* The shard sees the stop channel, answers what is queued and exits.      *)
FailPending(s) ==
  /\ stage[s] = "idle" /\ closed
  /\ stage' = [stage EXCEPT ![s] = "exited"]
  /\ Answer(queue[s], AllErrors(queue[s]))
  /\ queue' = [queue EXCEPT ![s] = <<>>]
  /\ UNCHANGED <<bucketVars, version, closed, currentIndex, pc, batch, verdict,
                 pipe>>

Shard(s) ==
  \/ \E at \in {clock - 1, clock} \cap Nat : ExecutePipeline(s, at)
  \/ ExecuteScripts(s) \/ ReadFails(s) \/ WriteBucket(s) \/ WriteFails(s)
  \/ WriteReturns(s) \/ SendResults(s) \/ FailPending(s)

BatchNext ==
  \/ \E r \in Requests : \/ \E n \in Asks : AllowN(r, n)
                         \/ Receive(r) \/ GiveUp(r)
  \/ \E n \in Asks \cup {0} : InitializeTokenBucket(n)
  \/ Close
  \/ \E s \in Shards : Shard(s)
================================================================================
