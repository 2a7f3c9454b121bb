---------------------------- MODULE Stability_proofs ---------------------------
(***************************************************************************)
(* Proofs about the circuit breaker and the leaky bucket, for any number   *)
(* of callers and calls, any limits, thresholds, bursts and bounds.        *)
(*                                                                         *)
(* The breaker's counters carry the argument about it: what CurrentState,  *)
(* OnSuccess and OnFailure do to them is stated once, and the actions      *)
(* follow.  In a behavior of Stability the breaker's part is one of the    *)
(* breaker by itself, of which these theorems speak.                       *)
(*                                                                         *)
(* Only a step of the bucket touches its variables, so that what is proved *)
(* of Bucket!Next holds of StabilityNext.  QueueExact and TypeOK are all   *)
(* but inductive: a caller on its way through waitForSpace still has to    *)
(* pour something, or Retry would count below zero.                        *)
(***************************************************************************)
EXTENDS Stability, SequenceTheorems, TLAPS

Counters == [requests : Nat, successes : Nat, failures : Nat,
             consecutiveSuccesses : Nat, consecutiveFailures : Nat]

(* A half-open breaker has seen nothing but successes.                     *)
HalfOpenClean ==
  state = "half-open" =>
    counts.failures = 0 /\ counts.successes = counts.consecutiveSuccesses

(* The part of the invariant about the breaker itself.                     *)
BreakerType == state \in States /\ maxRequests \in Limits /\ counts \in Counters
BreakerInv == BreakerType /\ CountsAdd /\ TripsInTime /\ HalfOpenClean /\ HalfOpenAdmits

(* The part about the callers.                                             *)
CallersType ==
  /\ timeoutOver \in BOOLEAN /\ intervalOver \in BOOLEAN
  /\ pc \in [Callers -> {"idle", "running", "denied"}]
  /\ trial \subseteq Running
  /\ reconfigured \in BOOLEAN /\ manual \in Nat /\ failures \in Nat

IInv == BreakerInv /\ CallersType

--------------------------------------------------------------------------------
(* Cleared counters satisfy everything the invariant asks of the counters, *)
(* because a limit is at least one.                                        *)
LEMMA ZeroCounters ==
  ASSUME maxRequests \in Limits
  PROVE  /\ Zero \in Counters
         /\ Zero.requests < maxRequests
         /\ Zero.requests = Zero.successes + Zero.failures
BY CircuitBreakerAssumption DEF Zero, Counters

(* What a success and a failure do to the counters.                        *)
LEMMA SuccessCounts ==
  ASSUME NEW n \in Counters
  PROVE  /\ Success(n) \in Counters
         /\ Success(n).requests = n.requests + 1
         /\ Success(n).successes = n.successes + 1
         /\ Success(n).failures = n.failures
         /\ Success(n).consecutiveSuccesses = n.consecutiveSuccesses + 1
         /\ Success(n).consecutiveFailures = 0
<1>1. /\ n.requests + 1 \in Nat /\ n.successes + 1 \in Nat
      /\ n.consecutiveSuccesses + 1 \in Nat /\ 0 \in Nat
  BY DEF Counters
<1>2. ASSUME NEW r \in Nat, NEW s \in Nat, NEW t \in Nat, NEW u \in Nat
      PROVE  [n EXCEPT !.requests = r, !.successes = s,
                       !.consecutiveSuccesses = t, !.consecutiveFailures = u] \in Counters
  BY DEF Counters
<1>3. Success(n) \in Counters BY <1>1, <1>2, Zenon DEF Success
<1> QED BY <1>3 DEF Success, Counters

(* A failure is counted.                                                   *)
LEMMA FailureCounts ==
  ASSUME NEW n \in Counters
  PROVE  /\ Failure(n) \in Counters
         /\ Failure(n).requests = n.requests + 1
         /\ Failure(n).successes = n.successes
         /\ Failure(n).failures = n.failures + 1
         /\ Failure(n).consecutiveSuccesses = 0
         /\ Failure(n).consecutiveFailures = n.consecutiveFailures + 1
<1>1. /\ n.requests + 1 \in Nat /\ n.failures + 1 \in Nat
      /\ n.consecutiveFailures + 1 \in Nat /\ 0 \in Nat
  BY DEF Counters
<1>2. ASSUME NEW r \in Nat, NEW s \in Nat, NEW t \in Nat, NEW u \in Nat
      PROVE  [n EXCEPT !.requests = r, !.failures = s,
                       !.consecutiveFailures = t, !.consecutiveSuccesses = u] \in Counters
  BY DEF Counters
<1>3. Failure(n) \in Counters BY <1>1, <1>2, Zenon DEF Failure
<1> QED BY <1>3 DEF Failure, Counters

(* NewCircuitBreaker establishes the invariant.                            *)
LEMMA BreakerInit == Init => IInv
<1> SUFFICES ASSUME Init PROVE IInv
  OBVIOUS
<1>1. BreakerType
  BY ZeroCounters DEF Init, BreakerType, States
<1>2. CountsAdd /\ TripsInTime /\ HalfOpenClean /\ HalfOpenAdmits
  BY CircuitBreakerAssumption
  DEF Init, CountsAdd, TripsInTime, HalfOpenClean, HalfOpenAdmits, Zero
<1>3. CallersType
  BY DEF Init, CallersType, Running
<1> QED BY <1>1, <1>2, <1>3 DEF IInv, BreakerInv

(* currentState preserves the invariant of the breaker: it clears the      *)
(* counters whenever it enters half-open.                                  *)
LEMMA CurrentStateKeeps ==
  ASSUME BreakerInv, CurrentState, UNCHANGED <<maxRequests, reconfigured>>
  PROVE  BreakerInv'
<1>1. CASE /\ state = "closed"
           /\ counts' = IF intervalOver THEN Zero ELSE counts
           /\ UNCHANGED state
  BY <1>1, ZeroCounters, CircuitBreakerAssumption
  DEF BreakerInv, BreakerType, CountsAdd, TripsInTime, HalfOpenClean,
      HalfOpenAdmits, Allowed, Zero, Counters, States
<1>2. CASE state' = "half-open" /\ counts' = Zero
  BY <1>2, ZeroCounters, CircuitBreakerAssumption
  DEF BreakerInv, BreakerType, CountsAdd, TripsInTime, HalfOpenClean,
      HalfOpenAdmits, Allowed, Zero, Counters, States
<1>3. CASE UNCHANGED breaker
  BY <1>3
  DEF BreakerInv, BreakerType, CountsAdd, TripsInTime, HalfOpenClean,
      HalfOpenAdmits, Allowed, breaker
<1> QED BY <1>1, <1>2, <1>3 DEF CurrentState

(* onSuccess preserves it: a half-open breaker that stays half-open has    *)
(* counted fewer than maxRequests requests, all of them successes.         *)
LEMMA OnSuccessKeeps ==
  ASSUME BreakerInv, OnSuccess, UNCHANGED <<maxRequests, reconfigured>>
  PROVE  BreakerInv'
<1>1. CASE state' = "closed" /\ counts' = Zero
  BY <1>1, ZeroCounters, CircuitBreakerAssumption
  DEF BreakerInv, BreakerType, CountsAdd, TripsInTime, HalfOpenClean,
      HalfOpenAdmits, Allowed, Zero, Counters, States
<1>2. CASE /\ state = "half-open" => Success(counts).consecutiveSuccesses < maxRequests
           /\ counts' = Success(counts)
           /\ UNCHANGED state
  <2>1. /\ counts' \in Counters
        /\ counts'.requests = counts.requests + 1
        /\ counts'.successes = counts.successes + 1
        /\ counts'.failures = counts.failures
        /\ counts'.consecutiveSuccesses = counts.consecutiveSuccesses + 1
        /\ counts'.consecutiveFailures = 0
        /\ state = "half-open" => counts.consecutiveSuccesses + 1 < maxRequests
    BY <1>2, SuccessCounts DEF BreakerInv, BreakerType
  <2> QED
    BY <1>2, <2>1, CircuitBreakerAssumption
    DEF BreakerInv, BreakerType, CountsAdd, TripsInTime, HalfOpenClean,
        HalfOpenAdmits, Allowed, Counters, States
<1> QED BY <1>1, <1>2 DEF OnSuccess

(* onFailure preserves it: a failure in the half-open state ends it, and   *)
(* in the closed state the threshold does.                                 *)
LEMMA OnFailureKeeps ==
  ASSUME BreakerInv, OnFailure, UNCHANGED <<maxRequests, reconfigured>>
  PROVE  BreakerInv'
<1>1. /\ counts' \in Counters
      /\ counts'.requests = counts.requests + 1
      /\ counts'.successes = counts.successes
      /\ counts'.failures = counts.failures + 1
      /\ counts'.consecutiveSuccesses = 0
      /\ counts'.consecutiveFailures = counts.consecutiveFailures + 1
  BY FailureCounts DEF OnFailure, BreakerInv, BreakerType
<1>2. CASE Trips /\ state' = "open"
  BY <1>1, <1>2
  DEF BreakerInv, BreakerType, CountsAdd, TripsInTime, HalfOpenClean,
      HalfOpenAdmits, Counters, States
<1>3. CASE ~Trips /\ UNCHANGED state
  <2>1. /\ state # "half-open"
        /\ state = "closed" => ~(counts.consecutiveFailures + 1 > TripAfter)
    BY <1>3, FailureCounts DEF Trips, BreakerInv, BreakerType
  <2> QED
    BY <1>1, <1>3, <2>1, CircuitBreakerAssumption
    DEF BreakerInv, BreakerType, CountsAdd, TripsInTime, HalfOpenClean,
        HalfOpenAdmits, Counters, States
<1> QED BY <1>2, <1>3 DEF OnFailure

--------------------------------------------------------------------------------
(* Every step preserves the invariant of the breaker.                      *)
LEMMA BreakerStep ==
  ASSUME IInv, [Next]_vars
  PROVE  BreakerInv'
<1> USE DEF IInv, bounds
<1>1. ASSUME NEW c \in Callers, Execute(c) PROVE BreakerInv'
  BY <1>1, CurrentStateKeeps DEF Execute
<1>2. ASSUME NEW c \in Callers, Denied(c) PROVE BreakerInv'
  BY <1>2, CurrentStateKeeps DEF Denied
<1>3. ASSUME NEW c \in Callers, Succeed(c) PROVE BreakerInv'
  BY <1>3, OnSuccessKeeps DEF Succeed
<1>4. ASSUME NEW c \in Callers, Fail(c) PROVE BreakerInv'
  BY <1>4, OnFailureKeeps DEF Fail
<1>5. ASSUME NEW c \in Callers, Panic(c) PROVE BreakerInv'
  BY <1>5
  DEF Panic, breaker, BreakerInv, BreakerType, CountsAdd, TripsInTime,
      HalfOpenClean, HalfOpenAdmits, Allowed
<1>6. CASE Query
  BY <1>6, CurrentStateKeeps DEF Query
<1>7. CASE Reset
  BY <1>7, ZeroCounters, CircuitBreakerAssumption
  DEF Reset, BreakerInv, BreakerType, CountsAdd, TripsInTime, HalfOpenClean,
      HalfOpenAdmits, Zero, States
<1>8. CASE Trip
  BY <1>8
  DEF Trip, BreakerInv, BreakerType, CountsAdd, TripsInTime, HalfOpenClean,
      HalfOpenAdmits, States
<1>9. CASE UpdateConfig
  BY <1>9
  DEF UpdateConfig, BreakerInv, BreakerType, CountsAdd, TripsInTime,
      HalfOpenClean, HalfOpenAdmits
<1>10. CASE TimeoutPasses \/ IntervalPasses \/ UNCHANGED vars
  BY <1>10
  DEF TimeoutPasses, IntervalPasses, vars, breaker, BreakerInv, BreakerType,
      CountsAdd, TripsInTime, HalfOpenClean, HalfOpenAdmits, Allowed
<1> QED
  BY <1>1, <1>2, <1>3, <1>4, <1>5, <1>6, <1>7, <1>8, <1>9, <1>10
  DEF Next, Finish

(* Every step preserves the types of the callers: only running requests    *)
(* are trials.                                                             *)
LEMMA CallersStep ==
  ASSUME IInv, [Next]_vars
  PROVE  CallersType'
<1> USE DEF IInv, CallersType, Running, bounds, breaker
<1>1. ASSUME NEW c \in Callers, Execute(c) PROVE CallersType'
  BY <1>1 DEF Execute, CurrentState
<1>2. ASSUME NEW c \in Callers, Denied(c) PROVE CallersType'
  BY <1>2 DEF Denied, CurrentState
<1>3. ASSUME NEW c \in Callers, Succeed(c) PROVE CallersType'
  BY <1>3 DEF Succeed, OnSuccess
<1>4. ASSUME NEW c \in Callers, Fail(c) PROVE CallersType'
  <2>1. trial' = {} \/ trial' = trial \ {c}
    BY <1>4 DEF Fail, OnFailure
  <2>2. timeoutOver' \in BOOLEAN /\ intervalOver' \in BOOLEAN
    BY <1>4 DEF Fail, OnFailure
  <2>3. /\ pc' = [pc EXCEPT ![c] = "idle"] /\ failures' = failures + 1
        /\ UNCHANGED <<reconfigured, manual>>
    BY <1>4 DEF Fail
  <2> QED BY <2>1, <2>2, <2>3
<1>5. ASSUME NEW c \in Callers, Panic(c) PROVE CallersType'
  BY <1>5 DEF Panic
<1>6. CASE Query
  BY <1>6 DEF Query, CurrentState
<1>7. CASE Reset \/ Trip \/ UpdateConfig
  <2>1. manual' = manual + 1 /\ UNCHANGED <<pc, failures>>
    BY <1>7 DEF Reset, Trip, UpdateConfig
  <2>2. trial' = {} \/ trial' = trial
    BY <1>7 DEF Reset, Trip, UpdateConfig
  <2>3. timeoutOver' \in BOOLEAN /\ intervalOver' \in BOOLEAN
    BY <1>7 DEF Reset, Trip, UpdateConfig
  <2>4. reconfigured' \in BOOLEAN
    BY <1>7 DEF Reset, Trip, UpdateConfig
  <2> QED BY <2>1, <2>2, <2>3, <2>4
<1>8. CASE TimeoutPasses \/ IntervalPasses \/ UNCHANGED vars
  BY <1>8 DEF TimeoutPasses, IntervalPasses, vars
<1> QED
  BY <1>1, <1>2, <1>3, <1>4, <1>5, <1>6, <1>7, <1>8 DEF Next, Finish

(* The invariant is inductive.                                             *)
LEMMA BreakerInductive == Spec => []IInv
<1>1. IInv /\ [Next]_vars => IInv'
  BY BreakerStep, CallersStep DEF IInv
<1> QED BY BreakerInit, <1>1, PTL DEF Spec

--------------------------------------------------------------------------------
(* TypeOK: every field of the breaker has its type and only running        *)
(* requests are trials, in every reachable state.                          *)
THEOREM TypeCorrect == Spec => []TypeOK
<1>1. IInv => TypeOK
  BY DEF IInv, BreakerInv, BreakerType, CallersType, TypeOK, Counters
<1> QED BY BreakerInductive, <1>1, PTL

(* CountsAdd: onSuccess and onFailure keep the counters of Counts          *)
(* consistent in whatever state a late result arrives.                     *)
THEOREM CountersConsistent == Spec => []CountsAdd
<1>1. IInv => CountsAdd BY DEF IInv, BreakerInv
<1> QED BY BreakerInductive, <1>1, PTL

(* TripsInTime: a closed breaker never holds a streak of failures that     *)
(* ReadyToTrip would have tripped on.                                      *)
THEOREM NeverClosedTooLong == Spec => []TripsInTime
<1>1. IInv => TripsInTime BY DEF IInv, BreakerInv
<1> QED BY BreakerInductive, <1>1, PTL

(* HalfOpenAdmits: allowRequest never refuses everybody in the half-open   *)
(* state, from which only the result of a request leads on.                *)
THEOREM HalfOpenNeverStuck == Spec => []HalfOpenAdmits
<1>1. IInv => HalfOpenAdmits BY DEF IInv, BreakerInv
<1> QED BY BreakerInductive, <1>1, PTL

(* ClosesAfterSuccesses: onSuccess closes a half-open breaker only after   *)
(* maxRequests successes and no failure.                                   *)
THEOREM ClosesOnlyAfterSuccesses == Spec => ClosesAfterSuccesses
<1> DEFINE A == state = "half-open" /\ state' = "closed" /\ manual' = manual
                  => counts.failures = 0 /\ counts.successes + 1 >= maxRequests
<1>1. ASSUME IInv, [Next]_vars, state = "half-open", state' = "closed",
             manual' = manual
      PROVE  counts.failures = 0 /\ counts.successes + 1 >= maxRequests
  <2>1. \E c \in Callers : Succeed(c)
    BY <1>1
    DEF Next, Finish, Execute, Denied, Fail, Panic, Query, Reset, Trip,
        UpdateConfig, TimeoutPasses, IntervalPasses, CurrentState, OnFailure,
        breaker, vars, IInv, CallersType
  <2>2. OnSuccess BY <2>1 DEF Succeed
  <2>3. Success(counts).consecutiveSuccesses >= maxRequests
    BY <1>1, <2>2 DEF OnSuccess
  <2>4. Success(counts).consecutiveSuccesses = counts.consecutiveSuccesses + 1
    BY <1>1, SuccessCounts DEF IInv, BreakerInv, BreakerType
  <2> QED BY <1>1, <2>3, <2>4 DEF IInv, BreakerInv, HalfOpenClean
<1>2. IInv /\ [Next]_vars => [A]_vars BY <1>1
<1> QED BY BreakerInductive, <1>2, PTL DEF Spec, ClosesAfterSuccesses

(* StaysOpen: currentState leaves the open state only once the timeout is  *)
(* over; late results of requests admitted earlier do not end it.          *)
THEOREM OpenUntilTimeout == Spec => StaysOpen
<1> DEFINE A == state = "open" /\ state' # "open" => timeoutOver \/ manual' # manual
<1>1. ASSUME IInv, [Next]_vars, state = "open", state' # "open"
      PROVE  timeoutOver \/ manual' # manual
  BY <1>1
  DEF Next, Finish, Execute, Denied, Succeed, Fail, Panic, Query, Reset, Trip,
      UpdateConfig, TimeoutPasses, IntervalPasses, CurrentState, OnSuccess,
      OnFailure, Trips, breaker, vars, IInv, CallersType
<1>2. IInv /\ [Next]_vars => [A]_vars BY <1>1
<1> QED BY BreakerInductive, <1>2, PTL DEF Spec, StaysOpen

(* A behavior of Stability is one of the breaker, so that all of the above *)
(* holds of it: the other part's steps leave the breaker alone.            *)
THEOREM BreakerInStability == StabilitySpec => Spec
<1>1. StabilityInit => Init
  BY DEF StabilityInit
<1>2. [StabilityNext]_allVars => [Next]_vars
  BY DEF StabilityNext, InBreaker, InBucket, allVars, vars
<1> QED BY <1>1, <1>2, PTL DEF StabilitySpec, Spec

--------------------------------------------------------------------------------
StillPours == \A c \in Callers : step[c] # "idle" => need[c] # 0

BucketInv == Bucket!TypeOK /\ Bucket!QueueExact /\ StillPours

--------------------------------------------------------------------------------
(* What the critical sections of waitQueueMu do to the queue: a channel is *)
(* appended, ...                                                           *)
LEMMA Appended ==
  ASSUME NEW S, NEW s \in Seq(S), Bucket!IsInjective(s), NEW x \in S, x \notin Bucket!ToSet(s)
  PROVE  /\ Append(s, x) \in Seq(S) /\ Bucket!IsInjective(Append(s, x))
         /\ Bucket!ToSet(Append(s, x)) = Bucket!ToSet(s) \cup {x}
<1> DEFINE t == Append(s, x)
<1>1. /\ t \in Seq(S) /\ Len(t) = Len(s) + 1 /\ t[Len(s) + 1] = x
      /\ \A i \in 1 .. Len(s) : t[i] = s[i]
  BY AppendProperties
<1>2. /\ Len(s) \in Nat /\ DOMAIN s = 1 .. Len(s) /\ DOMAIN t = 1 .. Len(s) + 1
  BY <1>1, LenProperties
<1> HIDE DEF t
<1>3. \A i \in 1 .. Len(s) : s[i] # x
  BY <1>2 DEF Bucket!ToSet
<1>4. Bucket!IsInjective(t)
  BY <1>1, <1>2, <1>3 DEF Bucket!IsInjective
<1>5. ASSUME NEW y PROVE y \in Bucket!ToSet(t) <=> y \in Bucket!ToSet(s) \cup {x}
  <2>1. y \in Bucket!ToSet(t) <=> \E i \in 1 .. Len(s) + 1 : t[i] = y
    BY <1>2 DEF Bucket!ToSet
  <2>2. y \in Bucket!ToSet(s) <=> \E i \in 1 .. Len(s) : s[i] = y
    BY <1>2 DEF Bucket!ToSet
  <2>3. 1 .. Len(s) + 1 = 1 .. Len(s) \cup {Len(s) + 1}
    BY <1>2
  <2> QED BY <1>1, <2>1, <2>2, <2>3
<1> QED BY <1>1, <1>4, <1>5 DEF t

(* ... the first one leaves, ...                                           *)
LEMMA FirstLeaves ==
  ASSUME NEW S, NEW s \in Seq(S), Bucket!IsInjective(s), s # <<>>
  PROVE  /\ Tail(s) \in Seq(S) /\ Bucket!IsInjective(Tail(s)) /\ Head(s) \in Bucket!ToSet(s)
         /\ Bucket!ToSet(Tail(s)) = Bucket!ToSet(s) \ {Head(s)}
<1> DEFINE t == Tail(s)
<1>1. /\ t \in Seq(S) /\ Len(t) = Len(s) - 1
      /\ \A i \in 1 .. Len(t) : t[i] = s[i + 1]
  BY HeadTailProperties
<1>2. Len(s) \in Nat \ {0} /\ DOMAIN s = 1 .. Len(s) /\ DOMAIN t = 1 .. Len(t) /\ Head(s) = s[1]
  BY <1>1, LenProperties, EmptySeq
<1> HIDE DEF t
<1>3. Bucket!IsInjective(t)
  BY <1>1, <1>2 DEF Bucket!IsInjective
<1>4. ASSUME NEW y PROVE y \in Bucket!ToSet(t) <=> y \in Bucket!ToSet(s) \ {Head(s)}
  <2>1. y \in Bucket!ToSet(t) <=> \E i \in 1 .. Len(t) : s[i + 1] = y
    BY <1>1, <1>2 DEF Bucket!ToSet
  <2>2. y \in Bucket!ToSet(s) <=> \E i \in 1 .. Len(s) : s[i] = y
    BY <1>2 DEF Bucket!ToSet
  <2>3. (\E i \in 1 .. Len(t) : s[i + 1] = y) <=> \E i \in 1 .. Len(s) : i # 1 /\ s[i] = y
    <3>1. ASSUME NEW i \in 1 .. Len(s), i # 1 PROVE i - 1 \in 1 .. Len(t) /\ (i - 1) + 1 = i
      BY <1>1, <1>2, <3>1
    <3>2. ASSUME NEW i \in 1 .. Len(t) PROVE i + 1 \in 1 .. Len(s) /\ i + 1 # 1
      BY <1>1, <1>2, <3>2
    <3> QED BY <3>1, <3>2
  <2>4. \A i \in 1 .. Len(s) : s[i] = s[1] => i = 1
    BY <1>2 DEF Bucket!IsInjective
  <2> QED BY <1>2, <2>1, <2>2, <2>3, <2>4
<1>5. Head(s) \in Bucket!ToSet(s)
  BY <1>2 DEF Bucket!ToSet
<1> QED BY <1>1, <1>3, <1>4, <1>5 DEF t

(* ... or one anywhere in it.                                              *)
LEMMA OneLeaves ==
  ASSUME NEW S, NEW s \in Seq(S), Bucket!IsInjective(s), NEW i \in DOMAIN s
  PROVE  /\ Bucket!RemoveAt(s, i) \in Seq(S) /\ Bucket!IsInjective(Bucket!RemoveAt(s, i))
         /\ Bucket!ToSet(Bucket!RemoveAt(s, i)) = Bucket!ToSet(s) \ {s[i]}
<1> DEFINE a == SubSeq(s, 1, i - 1)
           b == SubSeq(s, i + 1, Len(s))
           t == Bucket!RemoveAt(s, i)
<1>1. /\ Len(s) \in Nat /\ DOMAIN s = 1 .. Len(s) /\ i \in 1 .. Len(s)
      /\ \A j \in 1 .. Len(s) : s[j] \in S
  BY LenProperties
<1>2. /\ a \in Seq(S) /\ Len(a) = i - 1 /\ \A j \in 1 .. i - 1 : a[j] = s[j]
  <2>1. 1 \in Int /\ i - 1 \in Int /\ \A j \in 1 .. i - 1 : s[j] \in S
    BY <1>1
  <2> QED BY <1>1, <2>1
<1>3. /\ b \in Seq(S) /\ Len(b) = Len(s) - i /\ \A j \in 1 .. Len(s) - i : b[j] = s[i + j]
  <2>1. i + 1 \in Int /\ Len(s) \in Int /\ \A j \in i + 1 .. Len(s) : s[j] \in S
    BY <1>1
  <2> QED BY <1>1, <2>1
<1> HIDE DEF a, b
<1>4. /\ t \in Seq(S) /\ Len(t) = Len(s) - 1
      /\ \A j \in 1 .. Len(s) - 1 : t[j] = IF j < i THEN s[j] ELSE s[j + 1]
  <2>1. /\ t \in Seq(S) /\ Len(t) = Len(a) + Len(b)
        /\ \A j \in 1 .. Len(a) + Len(b) :
             t[j] = IF j <= Len(a) THEN a[j] ELSE b[j - Len(a)]
    BY <1>2, <1>3, ConcatProperties, Zenon DEF t, Bucket!RemoveAt, a, b
  <2> HIDE DEF t
  <2>2. ASSUME NEW j \in 1 .. Len(s) - 1 PROVE t[j] = IF j < i THEN s[j] ELSE s[j + 1]
    <3>1. CASE j < i
      BY <1>1, <1>2, <1>3, <2>1, <3>1
    <3>2. CASE ~(j < i)
      <4>1. t[j] = b[j - (i - 1)] /\ j - (i - 1) \in 1 .. Len(s) - i
        BY <1>1, <1>2, <1>3, <2>1, <3>2
      <4>2. i + (j - (i - 1)) = j + 1
        BY <1>1
      <4> QED BY <1>3, <3>2, <4>1, <4>2
    <3> QED BY <3>1, <3>2
  <2> QED BY <1>1, <1>2, <1>3, <2>1, <2>2
<1> HIDE DEF t
<1>5. DOMAIN t = 1 .. Len(s) - 1
  BY <1>1, <1>4, LenProperties
<1>6. Bucket!IsInjective(t)
  BY <1>1, <1>4, <1>5 DEF Bucket!IsInjective
<1>7. ASSUME NEW y PROVE y \in Bucket!ToSet(t) <=> y \in Bucket!ToSet(s) \ {s[i]}
  <2>1. y \in Bucket!ToSet(t) <=> \E j \in 1 .. Len(s) - 1 : t[j] = y
    BY <1>5 DEF Bucket!ToSet
  <2>2. y \in Bucket!ToSet(s) <=> \E j \in 1 .. Len(s) : s[j] = y
    BY <1>1 DEF Bucket!ToSet
  <2>3. ASSUME NEW j \in 1 .. Len(s) - 1, t[j] = y
        PROVE  \E k \in 1 .. Len(s) : k # i /\ s[k] = y
    <3>1. CASE j < i
      BY <1>1, <1>4, <2>3, <3>1
    <3>2. CASE ~(j < i)
      BY <1>1, <1>4, <2>3, <3>2
    <3> QED BY <3>1, <3>2
  <2>4. ASSUME NEW k \in 1 .. Len(s), k # i, s[k] = y
        PROVE  \E j \in 1 .. Len(s) - 1 : t[j] = y
    <3>1. CASE k < i
      BY <1>1, <1>4, <2>4, <3>1
    <3>2. CASE ~(k < i)
      <4>1. k - 1 \in 1 .. Len(s) - 1 /\ ~(k - 1 < i) /\ k - 1 + 1 = k
        BY <1>1, <2>4, <3>2
      <4> QED BY <1>4, <2>4, <4>1
    <3> QED BY <3>1, <3>2
  <2>5. \A k \in 1 .. Len(s) : s[k] = s[i] => k = i
    BY <1>1 DEF Bucket!IsInjective
  <2> QED BY <1>1, <2>1, <2>2, <2>3, <2>4, <2>5
<1> QED BY <1>4, <1>6, <1>7 DEF t

--------------------------------------------------------------------------------
USE StabilityAssumption DEF Bucket!LeakyBucketAssumption

(* The bucket stays between empty and full, whoever pours, leaks, cancels  *)
(* or changes the capacity.                                                *)
LEMMA TypeStep == BucketInv /\ Bucket!Next => Bucket!TypeOK'
<1> SUFFICES ASSUME BucketInv, Bucket!Next PROVE Bucket!TypeOK'
  OBVIOUS
<1> USE DEF BucketInv, Bucket!TypeOK, Bucket!bucket, Bucket!callers, Bucket!leaker, Bucket!Manual
<1>1. ASSUME NEW n \in 1 .. MaxN, Bucket!AllowN(n) PROVE Bucket!TypeOK'
  BY <1>1 DEF Bucket!AllowN
<1>2. ASSUME NEW c \in Callers, NEW n \in 1 .. MaxN, Bucket!WaitN(c, n) PROVE Bucket!TypeOK'
  BY <1>2 DEF Bucket!WaitN
<1>3. ASSUME NEW c \in Callers, NEW n \in 1 .. MaxN, Bucket!ReserveN(c, n) PROVE Bucket!TypeOK'
  BY <1>3 DEF Bucket!ReserveN
<1>4. ASSUME NEW c \in Callers, Bucket!Join(c) PROVE Bucket!TypeOK'
  BY <1>4 DEF Bucket!Join
<1>5. ASSUME NEW c \in Callers, Bucket!Retry(c) PROVE Bucket!TypeOK'
  <2>1. need[c] - 1 \in 0 .. MaxN
    BY <1>5 DEF Bucket!Retry, StillPours
  <2>2. current' \in 0 .. capacity
    BY <1>5 DEF Bucket!Retry
  <2>3. need' = [need EXCEPT ![c] = @ - 1] \/ need' = need
    BY <1>5 DEF Bucket!Retry
  <2>4. need' \in [Callers -> 0 .. MaxN]
    BY <2>1, <2>3
  <2>5. /\ step' \in [Callers -> {"idle", "join", "wait"}] /\ woken' \subseteq Callers
        /\ UNCHANGED <<capacity, closed, queue, reserved, loop, listens, calls>>
    BY <1>5 DEF Bucket!Retry
  <2> QED BY <2>2, <2>4, <2>5
<1>6. ASSUME NEW c \in Callers, Bucket!GiveUp(c) PROVE Bucket!TypeOK'
  <2>1. \A i \in DOMAIN queue : Bucket!RemoveAt(queue, i) \in Seq(Callers)
    BY OneLeaves DEF Bucket!QueueExact
  <2>2. queue' \in Seq(Callers)
    BY <1>6, <2>1 DEF Bucket!GiveUp
  <2> QED BY <1>6, <2>2 DEF Bucket!GiveUp
<1>7. ASSUME NEW c \in Callers, Bucket!Cancel(c) PROVE Bucket!TypeOK'
  BY <1>7 DEF Bucket!Cancel
<1>8. ASSUME NEW b \in Bursts, Bucket!SetBurst(b) PROVE Bucket!TypeOK'
  BY <1>8 DEF Bucket!SetBurst
<1>9. CASE Bucket!SetLimit
  <2>1. calls' \in Nat
    BY <1>9 DEF Bucket!SetLimit
  <2>2. listens' \in BOOLEAN
    BY <1>9, Zenon DEF Bucket!SetLimit
  <2> QED BY <1>9, <2>1, <2>2 DEF Bucket!SetLimit
<1>10. CASE Bucket!Reset \/ Bucket!Close
  <2>1. Bucket!WakeAll
    BY <1>10 DEF Bucket!Reset, Bucket!Close
  <2> woken' \subseteq Callers
    BY <2>1 DEF Bucket!WakeAll, Bucket!QueueExact
  <2> queue' \in Seq(Callers)
    BY <2>1 DEF Bucket!WakeAll
  <2>2. capacity' = capacity /\ current' \in {0, current}
    BY <1>10 DEF Bucket!Reset, Bucket!Close
  <2>3. closed' \in BOOLEAN
    BY <1>10, Zenon DEF Bucket!Reset, Bucket!Close
  <2>4. UNCHANGED <<step, need, reserved, loop, listens>>
    BY <1>10 DEF Bucket!Reset, Bucket!Close
  <2>5. calls' \in Nat
    BY <1>10 DEF Bucket!Reset, Bucket!Close
  <2> QED BY <2>1, <2>2, <2>3, <2>4, <2>5
<1>11. CASE Bucket!LeakStart \/ Bucket!Tick \/ Bucket!LeakExit
  BY <1>11 DEF Bucket!LeakStart, Bucket!Tick, Bucket!LeakExit
<1>12. CASE Bucket!DoLeak
  <2>1. woken' \subseteq Callers /\ queue' \in Seq(Callers)
    <3>1. CASE queue # <<>>
      <4>1. Tail(queue) \in Seq(Callers) /\ Head(queue) \in Callers
        BY <3>1, HeadTailProperties
      <4> QED BY <1>12, <4>1 DEF Bucket!DoLeak
    <3>2. CASE queue = <<>>
      BY <1>12, <3>2 DEF Bucket!DoLeak
    <3> QED BY <3>1, <3>2
  <2> QED BY <1>12, <2>1 DEF Bucket!DoLeak
<1> QED
  BY <1>1, <1>2, <1>3, <1>4, <1>5, <1>6, <1>7, <1>8, <1>9, <1>10, <1>11, <1>12
  DEF Bucket!Next, Bucket!StartLeaking

(* The actions that let the queue, the woken callers and the callers' ways *)
(* through WaitN alone, but for the one that begins to wait.               *)
Quiet == UNCHANGED <<queue, woken, step>>

(* A channel leaves the queue together with the caller it is for: closed   *)
(* by a leak, by Reset or by Close, or taken out when the context is done. *)
LEMMA QueueStep == BucketInv /\ Bucket!Next => Bucket!QueueExact'
<1> SUFFICES ASSUME BucketInv, Bucket!Next PROVE Bucket!QueueExact'
  OBVIOUS
<1> USE DEF BucketInv, Bucket!bucket, Bucket!callers, Bucket!leaker, Bucket!Manual
<1>t. /\ queue \in Seq(Callers) /\ woken \subseteq Callers
      /\ step \in [Callers -> {"idle", "join", "wait"}]
  BY DEF Bucket!TypeOK
<1>q. /\ \A c \in Callers : c \in Bucket!ToSet(queue) <=> step[c] = "wait" /\ c \notin woken
      /\ Bucket!ToSet(queue) \subseteq Callers
      /\ Bucket!IsInjective(queue) /\ \A c \in woken : step[c] = "wait"
  BY DEF Bucket!QueueExact, Bucket!Asleep
<1> SUFFICES /\ \A c \in Callers : c \in Bucket!ToSet(queue') <=> step'[c] = "wait" /\ c \notin woken'
             /\ Bucket!ToSet(queue') \subseteq Callers
             /\ Bucket!IsInjective(queue') /\ \A c \in woken' : step'[c] = "wait"
  BY DEF Bucket!QueueExact, Bucket!Asleep, Bucket!ToSet
<1> DEFINE Goal == /\ \A c \in Callers : c \in Bucket!ToSet(queue') <=> step'[c] = "wait" /\ c \notin woken'
                   /\ Bucket!ToSet(queue') \subseteq Callers
                   /\ Bucket!IsInjective(queue') /\ \A c \in woken' : step'[c] = "wait"
<1>1. CASE Quiet
  BY <1>1, <1>q DEF Quiet
<1>2. ASSUME NEW c \in Callers, NEW n \in 1 .. MaxN, Bucket!WaitN(c, n) PROVE Goal
  BY <1>2, <1>t, <1>q DEF Bucket!WaitN
<1>3. ASSUME NEW c \in Callers, Bucket!Join(c) PROVE Goal
  <2>1. /\ queue' = Append(queue, c) /\ woken' = woken /\ step[c] = "join"
        /\ step' = [step EXCEPT ![c] = "wait"]
    BY <1>3 DEF Bucket!Join
  <2>2. c \notin Bucket!ToSet(queue) /\ c \notin woken
    BY <1>q, <2>1
  <2>3. Bucket!IsInjective(queue') /\ Bucket!ToSet(queue') = Bucket!ToSet(queue) \cup {c}
    BY <1>t, <1>q, <2>1, <2>2, Appended
  <2> QED BY <1>t, <1>q, <2>1, <2>2, <2>3
<1>4. ASSUME NEW c \in Callers, Bucket!Retry(c) PROVE Goal
  <2>1. /\ queue' = queue /\ woken' = woken \ {c} /\ c \in woken
        /\ \E to \in {"idle", "join"} : step' = [step EXCEPT ![c] = to]
    BY <1>4 DEF Bucket!Retry
  <2> QED BY <1>t, <1>q, <2>1
<1>5. ASSUME NEW c \in Callers, Bucket!GiveUp(c) PROVE Goal
  <2>1. woken' = woken \ {c} /\ step' = [step EXCEPT ![c] = "idle"] /\ step[c] = "wait"
    BY <1>5 DEF Bucket!GiveUp
  <2>2. Bucket!IsInjective(queue') /\ Bucket!ToSet(queue') = Bucket!ToSet(queue) \ {c}
    BY <1>5, <1>t, <1>q, OneLeaves DEF Bucket!GiveUp
  <2> QED BY <1>t, <1>q, <2>1, <2>2
<1>6. CASE Bucket!Reset \/ Bucket!Close
  <2>1. queue' = <<>> /\ woken' = woken \cup Bucket!ToSet(queue) /\ step' = step
    BY <1>6 DEF Bucket!Reset, Bucket!Close, Bucket!WakeAll
  <2>2. Bucket!IsInjective(queue') /\ Bucket!ToSet(queue') = {}
    BY <2>1 DEF Bucket!IsInjective, Bucket!ToSet
  <2> QED BY <1>t, <1>q, <2>1, <2>2
<1>7. CASE Bucket!DoLeak
  <2>1. CASE queue # <<>> /\ current > 0
    <3>1. woken' = woken \cup {Head(queue)} /\ queue' = Tail(queue) /\ step' = step
      BY <1>7, <2>1 DEF Bucket!DoLeak, Bucket!TypeOK
    <3>2. /\ Bucket!IsInjective(queue') /\ Head(queue) \in Bucket!ToSet(queue)
          /\ Bucket!ToSet(queue') = Bucket!ToSet(queue) \ {Head(queue)}
      BY <1>t, <1>q, <2>1, <3>1, FirstLeaves
    <3> QED BY <1>t, <1>q, <3>1, <3>2
  <2>2. CASE ~(queue # <<>> /\ current > 0)
    <3>1. Quiet
      BY <1>7, <2>2 DEF Bucket!DoLeak, Quiet, Bucket!TypeOK
    <3> QED BY <3>1, <1>1
  <2> QED BY <2>1, <2>2
<1>8. ASSUME NEW c \in Callers, Bucket!Cancel(c) \/ \E n \in 1 .. MaxN : Bucket!ReserveN(c, n)
      PROVE  Quiet
  BY <1>8 DEF Bucket!Cancel, Bucket!ReserveN, Quiet
<1>9. (\E n \in 1 .. MaxN : Bucket!AllowN(n)) \/ (\E b \in Bursts : Bucket!SetBurst(b))
        \/ Bucket!SetLimit \/ Bucket!LeakStart \/ Bucket!Tick \/ Bucket!LeakExit => Quiet
  BY DEF Bucket!AllowN, Bucket!SetBurst, Bucket!SetLimit, Bucket!LeakStart, Bucket!Tick,
         Bucket!LeakExit, Quiet
<1> QED
  BY <1>1, <1>2, <1>3, <1>4, <1>5, <1>6, <1>7, <1>8, <1>9
  DEF Bucket!Next, Bucket!StartLeaking

(* Whoever queues up, or is about to, wants at least one space.            *)
LEMMA PoursStep == BucketInv /\ Bucket!Next => StillPours'
<1> SUFFICES ASSUME BucketInv, Bucket!Next PROVE StillPours'
  OBVIOUS
<1> USE DEF StillPours, Bucket!bucket, Bucket!callers, Bucket!leaker, Bucket!Manual
<1>t. /\ step \in [Callers -> {"idle", "join", "wait"}] /\ need \in [Callers -> 0 .. MaxN]
      /\ StillPours
  BY DEF BucketInv, Bucket!TypeOK
<1>1. CASE UNCHANGED <<step, need>>
  BY <1>1, <1>t
<1>2. ASSUME NEW c \in Callers, NEW n \in 1 .. MaxN, Bucket!WaitN(c, n) PROVE StillPours'
  BY <1>2, <1>t DEF Bucket!WaitN
<1>3. ASSUME NEW c \in Callers, Bucket!Join(c) PROVE StillPours'
  BY <1>3, <1>t DEF Bucket!Join
<1>4. ASSUME NEW c \in Callers, Bucket!Retry(c) PROVE StillPours'
  BY <1>4, <1>t DEF Bucket!Retry
<1>5. ASSUME NEW c \in Callers, Bucket!GiveUp(c) PROVE StillPours'
  BY <1>5, <1>t DEF Bucket!GiveUp
<1>6. ASSUME NEW c \in Callers, Bucket!Cancel(c) \/ \E n \in 1 .. MaxN : Bucket!ReserveN(c, n)
      PROVE  UNCHANGED <<step, need>>
  BY <1>6 DEF Bucket!Cancel, Bucket!ReserveN
<1>7. (\E n \in 1 .. MaxN : Bucket!AllowN(n)) \/ (\E b \in Bursts : Bucket!SetBurst(b))
        \/ Bucket!SetLimit \/ Bucket!Reset \/ Bucket!Close \/ Bucket!StartLeaking
        => UNCHANGED <<step, need>>
  BY DEF Bucket!AllowN, Bucket!SetBurst, Bucket!SetLimit, Bucket!Reset, Bucket!Close,
         Bucket!StartLeaking, Bucket!LeakStart, Bucket!Tick, Bucket!DoLeak, Bucket!LeakExit
<1> QED
  BY <1>1, <1>2, <1>3, <1>4, <1>5, <1>6, <1>7 DEF Bucket!Next

(* The bucket's variables are new as long as another part runs.            *)
LEMMA InitInv == StabilityInit => BucketInv
<1> SUFFICES ASSUME StabilityInit PROVE BucketInv
  OBVIOUS
<1>1. Bucket!Init
  BY DEF StabilityInit
<1>2. Bucket!TypeOK
  <2> USE <1>1 DEF Bucket!Init
  <2>1. capacity \in Bursts /\ current \in 0 .. capacity /\ queue \in Seq(Callers)
    OBVIOUS
  <2>2. /\ step \in [Callers -> {"idle", "join", "wait"}] /\ need \in [Callers -> 0 .. MaxN]
        /\ reserved \in [Callers -> 0 .. MaxN] /\ calls \in Nat /\ woken \subseteq Callers
    OBVIOUS
  <2>3. loop \in {"start", "select", "leak", "exited"}
    OBVIOUS
  <2>4. closed \in BOOLEAN /\ listens \in BOOLEAN
    BY Zenon
  <2> QED BY <2>1, <2>2, <2>3, <2>4 DEF Bucket!TypeOK
<1>3. Bucket!QueueExact
  BY <1>1 DEF Bucket!Init, Bucket!QueueExact, Bucket!ToSet, Bucket!IsInjective, Bucket!Asleep
<1>4. StillPours
  BY <1>1 DEF Bucket!Init, StillPours
<1> QED BY <1>2, <1>3, <1>4 DEF BucketInv

(* The invariant holds initially and every step keeps it.                  *)
LEMMA Inductive == StabilitySpec => []BucketInv
<1>1. ASSUME BucketInv, UNCHANGED bucketVars PROVE BucketInv'
  <2> USE <1>1 DEF BucketInv, bucketVars
  <2>1. Bucket!TypeOK'
    BY DEF Bucket!TypeOK
  <2>2. Bucket!QueueExact'
    BY DEF Bucket!QueueExact, Bucket!Asleep
  <2>3. StillPours'
    BY DEF StillPours
  <2> QED BY <2>1, <2>2, <2>3
<1>2. BucketInv /\ [StabilityNext]_allVars => BucketInv'
  BY <1>1, TypeStep, QueueStep, PoursStep
  DEF StabilityNext, InBreaker, InBucket, allVars, BucketInv
<1> QED BY InitInv, <1>2, PTL DEF StabilitySpec

--------------------------------------------------------------------------------
(* The bucket never holds less than nothing or more than its capacity, and *)
(* exactly the callers asleep in waitForSpace have a channel in waitQueue, *)
(* each one: none is closed twice and none is forgotten.                   *)
THEOREM BucketIsExact == StabilitySpec => []BucketExact
<1>1. BucketInv => BucketExact
  BY DEF BucketInv, BucketExact
<1> QED BY <1>1, Inductive, PTL

(* After Close nothing is poured any more, not even by a caller that Close *)
(* or a leak before it has woken and that tries again.                     *)
THEOREM NothingPouredAfterClose == StabilitySpec => ClosedAdmitsNobody
<1>1. ASSUME BucketInv, Bucket!Next, closed PROVE current' <= current
  <2> USE <1>1 DEF BucketInv, Bucket!TypeOK, Bucket!bucket, Bucket!callers, Bucket!leaker
  <2>1. ASSUME NEW c \in Callers, Bucket!Cancel(c) PROVE current' <= current
    BY <2>1 DEF Bucket!Cancel
  <2>2. ASSUME NEW b \in Bursts, Bucket!SetBurst(b) PROVE current' <= current
    BY <2>2 DEF Bucket!SetBurst
  <2>3. Bucket!Reset \/ Bucket!DoLeak => current' \in {0, current - 1, current}
    BY DEF Bucket!Reset, Bucket!DoLeak
  <2>4. \A n \in 1 .. MaxN : ~Bucket!AllowN(n)
    BY DEF Bucket!AllowN
  <2>5. ASSUME NEW c \in Callers,
               \/ \E n \in 1 .. MaxN : Bucket!WaitN(c, n) \/ Bucket!ReserveN(c, n)
               \/ Bucket!Join(c) \/ Bucket!Retry(c) \/ Bucket!GiveUp(c)
        PROVE  current' = current
    BY <2>5 DEF Bucket!WaitN, Bucket!ReserveN, Bucket!Join, Bucket!Retry, Bucket!GiveUp
  <2>6. Bucket!SetLimit \/ Bucket!Close \/ Bucket!LeakStart \/ Bucket!Tick \/ Bucket!LeakExit
          => current' = current
    BY DEF Bucket!SetLimit, Bucket!Close, Bucket!LeakStart, Bucket!Tick, Bucket!LeakExit
  <2>7. current \in Nat
    OBVIOUS
  <2> QED
    BY <2>1, <2>2, <2>3, <2>4, <2>5, <2>6, <2>7 DEF Bucket!Next, Bucket!StartLeaking
<1>2. ASSUME BucketInv, UNCHANGED bucketVars PROVE current' <= current
  BY <1>2 DEF bucketVars, BucketInv, Bucket!TypeOK
<1>3. BucketInv /\ [StabilityNext]_allVars => [closed => current' <= current]_(Bucket!vars)
  BY <1>1, <1>2 DEF StabilityNext, InBreaker, InBucket, allVars
<1> QED BY <1>3, Inductive, PTL DEF StabilitySpec, ClosedAdmitsNobody, Bucket!ClosedAdmitsNobody
================================================================================
