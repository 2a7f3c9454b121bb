------------------------------ MODULE OneTimePoller ----------------------------
(***************************************************************************)
(* Run of OneTimePollingManager (efflux/onetime_polling.go): one goroutine *)
(* that polls at once and then at every tick, until the poller says stop,  *)
(* the timeout passes or the caller's context is cancelled.                *)
(*                                                                         *)
(* Results are counted by the batch.  The ticker goes on for ever: counts  *)
(* stay at MaxPolls when they have got there.                              *)
(***************************************************************************)
EXTENDS Integers

CONSTANTS
  OneTimeRetries,  (* bound: of MaxRetries; -1 is no limit                  *)
  MaxPolls         (* bound: of the counts                                  *)

ASSUME OneTimePollerAssumption == OneTimeRetries \in Nat /\ MaxPolls \in Nat \ {0}

VARIABLES
  config,     (* timed: Timeout > 0; retries: MaxRetries                    *)
  run,        (* where Run is, the attempt within the poll cycle, and       *)
              (* whether the cycle is the first                             *)
  result,     (* TotalPolls, Results and Errors (their number),             *)
              (* StoppedByPoller and TimedOut                               *)
  metrics,    (* PollCount, ErrorCount                                      *)
  ctx         (* cancelled: the caller's context; expired: the deadline of  *)
              (* pollingCtx passed while the caller's was not cancelled     *)

oneTimeVars == <<config, run, result, metrics, ctx>>

OneTimeInit ==
  /\ config \in [timed : BOOLEAN, retries : -1 .. OneTimeRetries]
  /\ run = [at |-> "idle", attempt |-> 0, first |-> TRUE]
  /\ result = [polls |-> 0, batches |-> 0, errors |-> 0, stopped |-> FALSE, timedOut |-> FALSE]
  /\ metrics = [polls |-> 0, errors |-> 0]
  /\ ctx = [cancelled |-> FALSE, expired |-> FALSE]

PollingDone == ctx.cancelled \/ ctx.expired
Counted(n) == IF n < MaxPolls THEN n + 1 ELSE n

CancelContext ==
  /\ ~ctx.cancelled
  /\ ctx' = [ctx EXCEPT !.cancelled = TRUE]
  /\ UNCHANGED <<config, run, result, metrics>>

DeadlinePasses ==
  /\ config.timed /\ run.at # "idle" /\ ~PollingDone
  /\ ctx' = [ctx EXCEPT !.expired = TRUE]
  /\ UNCHANGED <<config, run, result, metrics>>

--------------------------------------------------------------------------------
(* Run: the first poll happens immediately; the others when the ticker of  *)
(* the select fires, which it may do before Done is seen.                  *)
BeginCycle ==
  /\ run.at \in {"idle", "select"}
  /\ run' = [run EXCEPT !.at = "poll", !.attempt = 0]
  /\ UNCHANGED <<config, result, metrics, ctx>>

(* The poller returns results, or none, and may say stop.                  *)
PollAnswers(found, shouldStop) ==
  /\ run.at = "poll"
  /\ run' = [run EXCEPT !.at = IF shouldStop THEN "done" ELSE "select", !.first = FALSE]
  /\ result' = [result EXCEPT !.polls = Counted(@), !.stopped = shouldStop,
                              !.batches = IF found THEN Counted(@) ELSE @]
  /\ metrics' = [metrics EXCEPT !.polls = Counted(@)]
  /\ UNCHANGED <<config, ctx>>

(* The cycle ends with an error.  That of the first poll is not counted in *)
(* the metrics.                                                            *)
CycleFails ==
  /\ run' = [run EXCEPT !.at = "select", !.first = FALSE]
  /\ result' = [result EXCEPT !.errors = Counted(@)]
  /\ metrics' = [metrics EXCEPT !.errors = IF run.first THEN @ ELSE Counted(@)]
  /\ UNCHANGED <<config, ctx>>

MayRetry == config.retries < 0 \/ run.attempt < config.retries

(* The poller returns an error: executePoll waits before the next attempt, *)
(* if there is one and the backoff is not zero.                            *)
PollErrs ==
  /\ run.at = "poll"
  /\ \/ CycleFails
     \/ /\ MayRetry
        /\ run' = [run EXCEPT !.at = "backoff"]
        /\ UNCHANGED <<config, result, metrics, ctx>>

RetryPoll ==
  /\ run.at = "backoff"
  /\ run' = [run EXCEPT !.at = "poll",
                                !.attempt = IF config.retries < 0 THEN 0 ELSE @ + 1]
  /\ UNCHANGED <<config, result, metrics, ctx>>

BackoffCancelled == run.at = "backoff" /\ PollingDone /\ CycleFails

(* The run ends; whether by the timeout is asked of the caller's context.  *)
RunEnds ==
  /\ run.at = "select" /\ PollingDone
  /\ run' = [run EXCEPT !.at = "done"]
  /\ result' = [result EXCEPT !.timedOut = config.timed /\ ~ctx.cancelled]
  /\ UNCHANGED <<config, metrics, ctx>>

OneTimeStep ==
  \/ BeginCycle \/ PollErrs \/ RetryPoll \/ BackoffCancelled \/ RunEnds
  \/ \E found, shouldStop \in BOOLEAN : PollAnswers(found, shouldStop)

OneTimeNext == OneTimeStep \/ CancelContext \/ DeadlinePasses

--------------------------------------------------------------------------------
(* The result says why the run ended: because the poller said so, because  *)
(* the deadline passed, or because the caller cancelled, and one reason    *)
(* rules out the others; it counts the polls that the metrics count; no    *)
(* poll is tried more often than the retries allow.                        *)
ResultExact ==
  /\ run.at = "done" => result.stopped \/ result.timedOut \/ ctx.cancelled
  /\ result.timedOut => ctx.expired /\ ~result.stopped /\ run.at = "done"
  /\ result.stopped => run.at = "done" /\ result.polls > 0
  /\ metrics.polls = result.polls /\ result.batches <= result.polls
  /\ metrics.errors <= result.errors /\ result.errors <= metrics.errors + 1
  /\ config.retries >= 0 => run.attempt <= config.retries

(* A run whose context has ended comes to its end.                         *)
OneTimeEnds == run.at = "idle" \/ ~PollingDone \/ run.at = "done"
================================================================================
