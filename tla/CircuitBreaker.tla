----------------------------- MODULE CircuitBreaker ----------------------------
(***************************************************************************)
(* DefaultCircuitBreaker of stability/default_circuit_breaker.go with any  *)
(* number of goroutines executing requests through it.                     *)
(*                                                                         *)
(* Every method holds the mutex, so a method is one action.  A request is  *)
(* not: allowRequest admits it, the user's function runs, and recordResult *)
(* counts its result in whatever state the breaker is by then.             *)
(*                                                                         *)
(* Time is abstracted to the two comparisons the code makes: timeoutOver   *)
(* (now - openTime > Timeout) and intervalOver (now - lastClearTime >      *)
(* Interval).  ReadyToTrip is the default one with a threshold TripAfter.  *)
(* The counters are uint64 in the code; MaxCount keeps them small.         *)
(*                                                                         *)
(* The callbacks of notifyStateChange are the user's code and left out:    *)
(* they change nothing in the breaker.                                     *)
(***************************************************************************)
EXTENDS Integers, FiniteSets

CONSTANTS
  Callers,      (* goroutines that execute requests                         *)
  Limits,       (* the values MaxRequests is configured to                  *)
  TripAfter,    (* ReadyToTrip: more consecutive failures than this         *)
  MaxCount,     (* bound: counted plus running requests                     *)
  MaxManual,    (* bound: calls of Trip, Reset and UpdateConfig             *)
  MaxFailures   (* bound: requests that fail or panic                       *)

ASSUME CircuitBreakerAssumption ==
  /\ Limits \subseteq Nat \ {0} /\ Limits # {}
  /\ TripAfter \in Nat /\ MaxCount \in Nat
  /\ MaxManual \in Nat /\ MaxFailures \in Nat

VARIABLES
  state, counts, maxRequests,  (* the breaker's state, Counts and config     *)
  timeoutOver, intervalOver,   (* what the clock says                        *)
  pc,            (* where each caller is: "idle", "running", "denied"        *)
  trial,         (* history: callers running a request that was admitted in  *)
                 (* the current half-open period                             *)
  reconfigured,  (* history: UpdateConfig was called                         *)
  manual, failures (* history: manual calls and failures so far              *)

breaker == <<state, counts, timeoutOver, intervalOver>>
bounds  == <<reconfigured, manual, failures>>
vars    == <<breaker, maxRequests, pc, trial, bounds>>

States == {"closed", "open", "half-open"}
Zero == [requests |-> 0, successes |-> 0, failures |-> 0,
         consecutiveSuccesses |-> 0, consecutiveFailures |-> 0]

(* NewCircuitBreaker.                                                      *)
Init ==
  /\ state = "closed" /\ counts = Zero /\ maxRequests \in Limits
  /\ timeoutOver = FALSE /\ intervalOver = FALSE
  /\ pc = [c \in Callers |-> "idle"] /\ trial = {}
  /\ reconfigured = FALSE /\ manual = 0 /\ failures = 0

Running == {c \in Callers : pc[c] = "running"}

--------------------------------------------------------------------------------
(* Mutant of CurrentState. *)
CurrentStateKeepsCounts ==
  \/ /\ state = "closed"
     /\ counts' = IF intervalOver THEN Zero ELSE counts
     /\ intervalOver' = FALSE
     /\ UNCHANGED <<state, timeoutOver>>
  \/ /\ state = "open" /\ timeoutOver
     /\ state' = "half-open" /\ intervalOver' = FALSE
     /\ UNCHANGED <<counts, timeoutOver>>
  \/ /\ state = "half-open" \/ (state = "open" /\ ~timeoutOver)
     /\ UNCHANGED breaker

(* currentState: clears the counts of the closed state once per Interval   *)
(* and turns open into half-open after Timeout.                            *)
CurrentState ==
  \/ /\ state = "closed"
     /\ counts' = IF intervalOver THEN Zero ELSE counts
     /\ intervalOver' = FALSE
     /\ UNCHANGED <<state, timeoutOver>>
  \/ /\ state = "open" /\ timeoutOver
     /\ state' = "half-open"
     /\ counts' = Zero /\ intervalOver' = FALSE
     /\ UNCHANGED timeoutOver
  \/ /\ state = "half-open" \/ (state = "open" /\ ~timeoutOver)
     /\ UNCHANGED breaker

(* allowRequest's verdict in the state and with the counts that            *)
(* currentState left.                                                      *)
Allowed(s, n) == s = "closed" \/ (s = "half-open" /\ n.requests < maxRequests)

(* ExecuteWithContext up to the call of the user's function.               *)
Execute(c) ==
  /\ pc[c] = "idle"
  /\ CurrentState
  /\ \/ /\ Allowed(state', counts')
        /\ counts'.requests + Cardinality(Running) < MaxCount
        /\ pc' = [pc EXCEPT ![c] = "running"]
        /\ trial' = IF state' = "half-open" THEN trial \cup {c} ELSE trial
     \/ /\ ~Allowed(state', counts')
        /\ pc' = [pc EXCEPT ![c] = "denied"]
        /\ trial' = trial
  /\ UNCHANGED <<maxRequests, bounds>>

(* The error of a denied request carries State(), a second critical        *)
(* section that may itself turn open into half-open.                       *)
Denied(c) ==
  /\ pc[c] = "denied"
  /\ CurrentState
  /\ pc' = [pc EXCEPT ![c] = "idle"]
  /\ UNCHANGED <<maxRequests, trial, bounds>>

(* CanExecute and State, called by anybody.                                *)
Query == CurrentState /\ UNCHANGED <<maxRequests, pc, trial, bounds>>

--------------------------------------------------------------------------------
Success(n) == [n EXCEPT !.requests = @ + 1, !.successes = @ + 1,
                        !.consecutiveSuccesses = @ + 1, !.consecutiveFailures = 0]

Failure(n) == [n EXCEPT !.requests = @ + 1, !.failures = @ + 1,
                        !.consecutiveFailures = @ + 1, !.consecutiveSuccesses = 0]

(* Mutants of OnSuccess. *)
OnSuccessOneMore ==
  \/ /\ state = "half-open"
     /\ Success(counts).consecutiveSuccesses > maxRequests
     /\ state' = "closed" /\ trial' = {}
     /\ counts' = Zero /\ intervalOver' = FALSE
     /\ UNCHANGED timeoutOver
  \/ /\ state = "half-open" => Success(counts).consecutiveSuccesses <= maxRequests
     /\ counts' = Success(counts)
     /\ UNCHANGED <<state, timeoutOver, intervalOver>>

OnSuccessInAnyState ==
  \/ /\ Success(counts).consecutiveSuccesses >= maxRequests
     /\ state' = "closed" /\ trial' = {}
     /\ counts' = Zero /\ intervalOver' = FALSE
     /\ UNCHANGED timeoutOver
  \/ /\ Success(counts).consecutiveSuccesses < maxRequests
     /\ counts' = Success(counts)
     /\ UNCHANGED <<state, timeoutOver, intervalOver>>

(* The breaker after a successful result.                                  *)
OnSuccess ==
  \/ /\ state = "half-open"
     /\ Success(counts).consecutiveSuccesses >= maxRequests
     /\ state' = "closed" /\ trial' = {}
     /\ counts' = Zero /\ intervalOver' = FALSE
     /\ UNCHANGED timeoutOver
  \/ /\ state = "half-open" => Success(counts).consecutiveSuccesses < maxRequests
     /\ counts' = Success(counts)
     /\ UNCHANGED <<state, timeoutOver, intervalOver>>

(* Mutant of Trips. *)
TripsWhenClosed ==
  state = "closed" /\ Failure(counts).consecutiveFailures > TripAfter

(* The breaker after a failure: half-open trips at once, closed when       *)
(* ReadyToTrip says so.                                                    *)
Trips == \/ state = "half-open"
         \/ state = "closed" /\ Failure(counts).consecutiveFailures > TripAfter
OnFailure ==
  /\ counts' = Failure(counts)
  /\ \/ Trips /\ state' = "open" /\ trial' = {} /\ timeoutOver' = FALSE
     \/ ~Trips /\ UNCHANGED <<state, timeoutOver>>
  /\ UNCHANGED intervalOver

(* The user's function returned and recordResult counts the result.        *)
Succeed(c) ==
  /\ pc[c] = "running"
  /\ pc' = [pc EXCEPT ![c] = "idle"]
  /\ OnSuccess
  /\ state' = state => trial' = trial \ {c}
  /\ UNCHANGED <<maxRequests, bounds>>

Fail(c) ==
  /\ pc[c] = "running" /\ failures < MaxFailures
  /\ pc' = [pc EXCEPT ![c] = "idle"]
  /\ failures' = failures + 1
  /\ OnFailure
  /\ state' = state => trial' = trial \ {c}
  /\ UNCHANGED <<maxRequests, reconfigured, manual>>

(* The user's function panics: nothing is recorded.                        *)
Panic(c) ==
  /\ pc[c] = "running" /\ failures < MaxFailures
  /\ pc' = [pc EXCEPT ![c] = "idle"]
  /\ failures' = failures + 1
  /\ trial' = trial \ {c}
  /\ UNCHANGED <<breaker, maxRequests, reconfigured, manual>>

--------------------------------------------------------------------------------
(* Mutant of Reset. *)
ResetKeepsCounts ==
  /\ manual < MaxManual /\ manual' = manual + 1
  /\ state' = "closed" /\ trial' = {}
  /\ intervalOver' = FALSE
  /\ UNCHANGED <<counts, timeoutOver, maxRequests, pc, reconfigured, failures>>

(* Reset and Trip by hand.  Trip keeps the counts.                         *)
Reset ==
  /\ manual < MaxManual /\ manual' = manual + 1
  /\ state' = "closed" /\ counts' = Zero /\ trial' = {}
  /\ intervalOver' = FALSE
  /\ UNCHANGED <<timeoutOver, maxRequests, pc, reconfigured, failures>>

Trip ==
  /\ manual < MaxManual /\ manual' = manual + 1
  /\ state' = "open" /\ timeoutOver' = FALSE /\ trial' = {}
  /\ UNCHANGED <<counts, intervalOver, maxRequests, pc, reconfigured, failures>>

(* UpdateConfig with valid values; a new Timeout or Interval may turn the  *)
(* comparisons with the clock around.                                      *)
UpdateConfig ==
  /\ manual < MaxManual /\ manual' = manual + 1
  /\ maxRequests' \in Limits
  /\ timeoutOver' \in BOOLEAN /\ intervalOver' \in BOOLEAN
  /\ reconfigured' = TRUE
  /\ UNCHANGED <<state, counts, pc, trial, failures>>

(* Time passes.                                                            *)
TimeoutPasses ==
  /\ state = "open" /\ ~timeoutOver /\ timeoutOver' = TRUE
  /\ UNCHANGED <<state, counts, intervalOver, maxRequests, pc, trial, bounds>>

IntervalPasses ==
  /\ state = "closed" /\ ~intervalOver /\ intervalOver' = TRUE
  /\ UNCHANGED <<state, counts, timeoutOver, maxRequests, pc, trial, bounds>>

Finish(c) == Succeed(c) \/ Fail(c) \/ Panic(c)

Next == \/ \E c \in Callers : Execute(c) \/ Denied(c) \/ Finish(c)
        \/ Query \/ Reset \/ Trip \/ UpdateConfig
        \/ TimeoutPasses \/ IntervalPasses

Spec == Init /\ [][Next]_vars

(* Time passes, the user's functions return, and somebody keeps calling.   *)
Fairness == /\ WF_vars(TimeoutPasses)
            /\ \A c \in Callers : /\ WF_vars(Execute(c)) /\ WF_vars(Denied(c))
                                  /\ WF_vars(Finish(c))

FairSpec == Spec /\ Fairness

--------------------------------------------------------------------------------
TypeOK ==
  /\ state \in States /\ maxRequests \in Limits
  /\ counts \in [requests : Nat, successes : Nat, failures : Nat,
                 consecutiveSuccesses : Nat, consecutiveFailures : Nat]
  /\ timeoutOver \in BOOLEAN /\ intervalOver \in BOOLEAN
  /\ pc \in [Callers -> {"idle", "running", "denied"}]
  /\ trial \subseteq Running
  /\ reconfigured \in BOOLEAN /\ manual \in Nat /\ failures \in Nat

(* Every counted request is a success or a failure, and the streaks are    *)
(* part of the totals, whichever state a late result is counted in.        *)
CountsAdd ==
  /\ counts.requests = counts.successes + counts.failures
  /\ counts.consecutiveSuccesses <= counts.successes
  /\ counts.consecutiveFailures <= counts.failures
  /\ counts.consecutiveSuccesses = 0 \/ counts.consecutiveFailures = 0

(* A closed breaker has not seen more than TripAfter failures in a row:    *)
(* no path back to closed carries old failures along.                      *)
TripsInTime == state = "closed" => counts.consecutiveFailures <= TripAfter

(* A half-open breaker always lets another request through, so that it can *)
(* decide: its quota is never used up by results that left it half-open.   *)
(* (UpdateConfig may lower the limit below the number already counted.)    *)
HalfOpenAdmits ==
  state = "half-open" /\ ~reconfigured => Allowed(state, counts)

(* A half-open breaker closes by itself only after MaxRequests successes   *)
(* without a failure since it became half-open.                            *)
ClosesAfterSuccesses ==
  [][state = "half-open" /\ state' = "closed" /\ manual' = manual
       => counts.failures = 0 /\ counts.successes + 1 >= maxRequests]_vars

(* An open breaker stays open until the timeout is over, whatever late     *)
(* results of requests admitted earlier come in; only Reset ends it early. *)
StaysOpen ==
  [][state = "open" /\ state' # "open" => timeoutOver \/ manual' # manual]_vars

(* "MaxRequests is the maximum number of requests allowed to pass through  *)
(* when the circuit breaker is half-open."                                 *)
HalfOpenLimit == state = "half-open" /\ ~reconfigured => Cardinality(trial) <= maxRequests

(* When failures stop and nobody interferes any more, the breaker closes   *)
(* for good.                                                               *)
Recovers == <>[](state = "closed" \/ reconfigured)
================================================================================
