------------------------------- MODULE Structures ------------------------------
(***************************************************************************)
(* The data structures of packages algo, cache and stability: the LFU      *)
(* cache that grows and shrinks (DynamicLFU), the lock-free queue          *)
(* (LockFreeQueue) and the others (Queues), the caches with a time to live *)
(* (TTLCaches), the ordered set on a red-black tree (OrderedSet), the      *)
(* compressed bitmap (RoaringBitmap), the union-find (UnionFind), the      *)
(* graphs (AdjacencyGraph) and the load balancer (LoadBalancer); the       *)
(* pipeline of package efflux (Pipeline) and the memory of the ring buffer *)
(* of package messages (RingMemory).  They share nothing: a behavior is    *)
(* one of one of them, "part", while the others stay new.                  *)
(***************************************************************************)
EXTENDS DynamicLFU, LockFreeQueue, Queues, TTLCaches, OrderedSet, RoaringBitmap,
        UnionFind, AdjacencyGraph, LoadBalancer, Pipeline, RingMemory

VARIABLE part

allVars == <<part, vars, queueVars, queuesVars, cacheVars, setVars, bitmapVars,
             unionVars, graphVars, balancerVars, pipelineVars, memoryVars>>

Parts == {"lfu", "lockfree", "queues", "caches", "set", "bitmap", "union", "graph", "balancer",
          "pipeline", "memory"}

(* The structures that are not used are new, with some configuration.      *)
StructuresInit ==
  /\ part \in Parts
  /\ Init /\ QueueInit /\ QueuesInit /\ CachesInit /\ OrderedSetInit /\ BitmapInit
  /\ UnionFindInit /\ GraphInit /\ LoadBalancerInit /\ PipelineInit /\ RingMemoryInit
  /\ part # "lfu" => controller = CHOOSE c \in Controllers : TRUE
  /\ part # "queues" => queueKind = "slice"
  /\ part # "caches" => policy = "lru"
  /\ part # "graph" => directed

(* A step of one part, which leaves all the others alone.                  *)
Leaves(p, variables) == IF part = p THEN TRUE ELSE UNCHANGED variables
In(p, A) ==
  /\ part = p /\ A
  /\ UNCHANGED part
  /\ Leaves("lfu", vars) /\ Leaves("lockfree", queueVars) /\ Leaves("queues", queuesVars)
  /\ Leaves("caches", cacheVars) /\ Leaves("set", setVars) /\ Leaves("bitmap", bitmapVars)
  /\ Leaves("union", unionVars) /\ Leaves("graph", graphVars)
  /\ Leaves("balancer", balancerVars) /\ Leaves("pipeline", pipelineVars)
  /\ Leaves("memory", memoryVars)

StructuresNext ==
  \/ In("lfu", Next)              \/ In("lockfree", QueueNext)
  \/ In("queues", QueuesNext)     \/ In("caches", CachesNext)
  \/ In("set", OrderedSetNext)    \/ In("bitmap", RoaringNext)
  \/ In("union", UnionFindNext)   \/ In("graph", AdjacencyGraphNext)
  \/ In("balancer", LoadBalancerNext) \/ In("pipeline", PipelineNext)
  \/ In("memory", RingMemoryNext)

StructuresSpec == StructuresInit /\ [][StructuresNext]_allVars

--------------------------------------------------------------------------------
(* DynamicLFU: the lists, minFreq and the capacity of the LFU cache agree. *)
LFUExact == part = "lfu" => CacheExact

(* LockFreeQueue: no answer of Pop that nothing is there is wrong.         *)
(* Queues: every element is in one place, in order.                        *)
QueuesExact ==
  /\ part = "lockfree" => AnswersTruthful
  /\ part = "queues" => QueuesHold

(* TTLCaches: the caches keep what was set last, for as long as it lives.  *)
TTLExact == part = "caches" => CachesExact

(* UnionFind: the partition is what the unions made it, and whoever asks   *)
(* whether two elements are connected is told so while others compress     *)
(* the paths.  Pipeline: Execute goes along the transitions, once through  *)
(* each stage, and Validate reports an unreachable stage if there is one.  *)
ConnectionsExact ==
  /\ part = "union" => PartitionExact
  /\ part = "pipeline" => PipelineExact

(* OrderedSet: the tree is a red-black tree and the set the set it should  *)
(* be.  RoaringBitmap: the bitmap is the set it should be.  AdjacencyGraph:*)
(* searches and cycles are what the edges say.  RingMemory: messages are   *)
(* read as they were written.                                              *)
OthersExact ==
  /\ part = "set" => TreeExact
  /\ part = "bitmap" => BitmapExact
  /\ part = "graph" => GraphExact
  /\ part = "memory" => RingMemoryExact

(* LoadBalancer: the available targets take turns.                         *)
TargetsTakeTurns == part = "balancer" => TurnsFair
================================================================================
