-------------------------------- MODULE Stability ------------------------------
(***************************************************************************)
(* The two in-process components of package stability that a service puts  *)
(* before its calls: the circuit breaker (CircuitBreaker) and the leaky    *)
(* bucket (LeakyBucket).  They share nothing, so that a behavior is one of *)
(* one of them, "part", while the other stays new.                         *)
(***************************************************************************)
EXTENDS CircuitBreaker, Sequences

CONSTANTS
  Bursts, MaxN,  (* of LeakyBucket                                          *)
  MaxCalls       (* bound: MaxManual of LeakyBucket                         *)

VARIABLES
  part,          (* "breaker" or "bucket"                                   *)
  capacity, current, closed, queue, woken, need, reserved, loop, listens,
  step, calls    (* pc and manual of LeakyBucket                            *)

Bucket == INSTANCE LeakyBucket WITH pc <- step, manual <- calls,
                                    MaxManual <- MaxCalls

ASSUME StabilityAssumption == Bucket!LeakyBucketAssumption

bucketVars == <<capacity, current, closed, queue, woken, step, need, reserved,
                loop, listens, calls>>
allVars    == <<part, vars, bucketVars>>

(* The component that is not used has any configuration.                   *)
StabilityInit ==
  /\ part \in {"breaker", "bucket"} /\ Init /\ Bucket!Init
  /\ part = "breaker" => capacity = CHOOSE b \in Bursts : TRUE
  /\ part = "bucket" => maxRequests = CHOOSE l \in Limits : TRUE

InBreaker(A) == part = "breaker" /\ A /\ UNCHANGED <<part, bucketVars>>
InBucket(A)  == part = "bucket" /\ A /\ UNCHANGED <<part, vars>>

StabilityNext == InBreaker(Next) \/ InBucket(Bucket!Next)

StabilityFairness ==
  /\ WF_allVars(InBreaker(TimeoutPasses))
  /\ \A c \in Callers :
       /\ WF_allVars(InBreaker(Execute(c))) /\ WF_allVars(InBreaker(Denied(c)))
       /\ WF_allVars(InBreaker(Finish(c)))
       /\ WF_allVars(InBucket(Bucket!Join(c) \/ Bucket!Retry(c)))
  /\ WF_allVars(InBucket(Bucket!StartLeaking))

StabilitySpec ==
  StabilityInit /\ [][StabilityNext]_allVars /\ StabilityFairness

--------------------------------------------------------------------------------
(* LeakyBucket: the bucket never holds less than nothing or more than its  *)
(* capacity, and exactly the callers asleep in waitForSpace have a channel *)
(* in the wait queue, each one.                                            *)
BucketExact == part = "bucket" => Bucket!TypeOK /\ Bucket!QueueExact

(* LeakyBucket: nobody gets in after Close.                                *)
ClosedAdmitsNobody == Bucket!ClosedAdmitsNobody

(* LeakyBucket: a caller asleep beside a bucket that is not empty wakes.   *)
SleeperWakes == Bucket!SleeperWakes
================================================================================
